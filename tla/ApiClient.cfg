\* A bucket of 2 tokens, one per 2 ticks; the server admits 2 requests per 4 ticks.
CONSTANTS
    Capacity = 2
    Interval = 2
    Available = {}
    MaxTime = 0
    MaxStarts = 4
    MaxSyncs = 8
    MaxRetries = 2
    DefaultRetryAfter = 4
    Quota = 2
    Window = 4
    OtherUse = {0, 2}
    Latency = {0, 1}
    Idle = {0, 1}
    MaxGets = 2
SPECIFICATION ClientSpec
INVARIANTS ClientTypeOK SlotPerRequest PacedWithinOneInterval AloneNeverExceeds
PROPERTIES NeverRetriesSpentWindow GetEnds
CHECK_DEADLOCK FALSE

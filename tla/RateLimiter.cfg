\* A bucket of 2 tokens, one per 2 ticks: a period of 4 ticks.
CONSTANTS
    Capacity = 2
    Interval = 2
    Available = {0, 1, 3}
    MaxTime = 7
    MaxStarts = 4
    MaxSyncs = 2
SPECIFICATION Spec
INVARIANTS TypeOK BurstBound ServerCountRespected
PROPERTIES KeepsPacedStarts NoOverDelay
\* The instance ends when its bounds are reached.
CHECK_DEADLOCK FALSE

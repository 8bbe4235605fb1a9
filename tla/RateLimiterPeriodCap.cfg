CONSTANTS
    Capacity = 2
    Interval = 2
    Available = {0}
    MaxTime = 4
    MaxStarts = 3
    MaxSyncs = 0
SPECIFICATION Spec
INVARIANT PeriodCap
CHECK_DEADLOCK FALSE

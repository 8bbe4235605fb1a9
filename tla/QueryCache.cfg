\* Two threads, one function with two calls, room for one entry.
CONSTANTS
    Threads = {t1, t2}
    Functions = {"get_standings"}
    Arguments = {"PL", "CL"}
    MaxSize = 1
    Ttl = 2
    MaxQuery = 1
    MaxTime = 5
    MaxVersion = 3
SPECIFICATION Spec
SYMMETRY ThreadSymmetry
INVARIANTS TypeOK LockIsBrief LockGuardsEntry BoundedStaleness
PROPERTIES KeepsPromise

\* The look-up that finds an entry and then a KeyError. Two threads, one function with two calls, room for one entry.
CONSTANTS
    Threads = {t1, t2}
    Functions = {"get_standings"}
    Arguments = {"PL", "CL"}
    MaxSize = 1
    Ttl = 2
    MaxQuery = 1
    MaxTime = 4
    MaxVersion = 3
SPECIFICATION Spec
INVARIANTS HitReturnsObject

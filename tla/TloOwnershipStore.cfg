CONSTANTS
    Null = Null
    Browsers = {b1}
    Backends = {k1}
    Requests = {r1}
    Procs = {p1, p2}
    HandoffTtl = 0
    MaxSafeGeneration = 2
    MaxClock = 1
    MaxRevisions = 7
    MaxCrashes = 1
SPECIFICATION Spec
INVARIANTS
    TypeOK
    RestartFencesTurn
PROPERTIES
    ImplementsFence
    AmbiguousLockFreezes
CHECK_DEADLOCK FALSE

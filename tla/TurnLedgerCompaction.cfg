CONSTANTS
    Null = Null
    Requests = {r1, r2}
    CompactEvery = 2
    MaxLines = 1
    ReadErrors = FALSE
    MaxCalls = 4
    MaxStarts = 3
SPECIFICATION Spec
INVARIANTS
    KnownOrUnreliable
CHECK_DEADLOCK FALSE

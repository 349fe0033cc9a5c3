CONSTANTS
    Null = Null
    Requests = {r1, r2}
    CompactEvery = 2
    MaxLines = 1
    ReadErrors = TRUE
    MaxCalls = 4
    MaxStarts = 3
SPECIFICATION Spec
INVARIANTS
    TypeOK
    KnownUnlessLaundered
    SendOnce
    FinishedStands
PROPERTIES
    GateAnswers
CHECK_DEADLOCK FALSE

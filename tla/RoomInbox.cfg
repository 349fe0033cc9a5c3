CONSTANTS
    MemberCount = 2
    User = User
    Null = Null
    MaxQueued = 2
    MaxTries = 1
    Budgets = {2}
    MaxMessages = 3
    MaxStarts = 1
    MaxInterrupts = 1
SPECIFICATION Spec
INVARIANTS
    TypeOK
    ReceiptsAgree
    InOrder
    RecipientKept
    PromptedOnce
    NothingTrimmed
PROPERTIES
    Drains
CHECK_DEADLOCK FALSE

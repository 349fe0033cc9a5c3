CONSTANTS
    Null = Null
    Chat = Chat
    Reply = Reply
    Browsers = {w1}
    Backends = {n1, n2}
    Requests = {r1, r2}
    HandoffTtl = 1
    MaxSafeGeneration = 3
    Forwarding = {TRUE, FALSE}
    MaxChats = 1
SPECIFICATION Spec
INVARIANTS
    TypeOK
    InferencePinned
    DeliveryReconcilable
    StoresAgree
    
PROPERTIES
    AnswersKept
SYMMETRY Alike
CHECK_DEADLOCK FALSE

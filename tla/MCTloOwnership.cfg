CONSTANTS
    Null = Null
    Browsers = {b1}
    Backends = {k1, k2}
    Requests = {r1, r2}
    HandoffTtl = 1
    MaxSafeGeneration = 4
    MaxClock = 3
SPECIFICATION Spec
INVARIANTS
    TypeOK
    TurnPinsOwnership
    HandoffFromOwner
PROPERTIES
    OwnershipMoves
    TurnsEndByReceipt

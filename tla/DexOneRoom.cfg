SPECIFICATION Spec
CONSTANTS
  a = a
  b = b
  web = web
  loc = loc
  UserTab = userTab
  Null = null
  Rooms = {a}
  Members = {web, loc}
  LocalMembers = {loc}
  MembersOf <- MixedRoom
  Budget = 2
  MaxRetries = 1
  InterruptAwaits = FALSE
  FaultKinds = {"crash", "drop", "append", "command", "target", "ui", "reply"}
  MaxStarts = 1
  MaxFaults = 2
  MaxRequests = 4
INVARIANTS
  TypeOK
  LedgerBeforeSend
  SendOnce
  ReplyOnce
  BudgetKept
PROPERTIES
  StopSticks
CHECK_DEADLOCK FALSE

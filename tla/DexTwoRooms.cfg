SPECIFICATION Spec
CONSTANTS
  a = a
  b = b
  web = web
  loc = loc
  UserTab = userTab
  Null = null
  Rooms = {a, b}
  Members = {web, loc}
  LocalMembers = {loc}
  MembersOf <- TwoRooms
  Budget = 1
  MaxRetries = 1
  InterruptAwaits = FALSE
  FaultKinds = {"crash", "drop", "reply"}
  MaxStarts = 2
  MaxFaults = 1
  MaxRequests = 3
INVARIANTS
  OneTurn
PROPERTIES
  StoppedNeverSent
CONSTRAINT NothingArchived
CHECK_DEADLOCK FALSE

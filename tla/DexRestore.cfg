SPECIFICATION Spec
CONSTANTS
  a = a
  b = b
  web = web
  loc = loc
  UserTab = userTab
  Null = null
  Rooms = {a, b}
  Members = {web, loc}
  LocalMembers = {loc}
  MembersOf <- TwoRooms
  Budget = 1
  MaxRetries = 1
  InterruptAwaits = FALSE
  FaultKinds = {}
  MaxStarts = 2
  MaxFaults = 0
  MaxRequests = 2
INVARIANTS
  RightTarget
CHECK_DEADLOCK FALSE

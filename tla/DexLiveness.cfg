SPECIFICATION FairSpec
CONSTANTS
  a = a
  b = b
  web = web
  loc = loc
  UserTab = userTab
  Null = null
  Rooms = {a}
  Members = {web, loc}
  LocalMembers = {loc}
  MembersOf <- MixedRoom
  Budget = 2
  MaxRetries = 1
  InterruptAwaits = FALSE
  FaultKinds = {"crash", "drop", "command", "target", "reply"}
  MaxStarts = 1
  MaxFaults = 1
  MaxRequests = 4
PROPERTIES
  TurnEnds
CHECK_DEADLOCK FALSE

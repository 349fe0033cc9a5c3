SPECIFICATION OfflineSpec
CONSTANTS
  a = a
  b = b
  web = web
  loc = loc
  UserTab = userTab
  Null = null
  Rooms = {a}
  Members = {web, loc}
  LocalMembers = {loc}
  MembersOf <- MixedRoom
  Budget = 1
  MaxRetries = 1
  InterruptAwaits = FALSE
  FaultKinds = {"drop"}
  MaxStarts = 1
  MaxFaults = 1
  MaxRequests = 2
PROPERTIES
  RecoveryEnds
CHECK_DEADLOCK FALSE

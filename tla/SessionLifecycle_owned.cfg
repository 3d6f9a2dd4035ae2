SPECIFICATION Spec
CONSTANTS
  None = None
  s1 = s1
  s2 = s2
  c1 = c1
  r1 = r1
  Rooms <- MCRooms
  Sessions <- MCSessions
  Clients <- MCClients
  InboxCap = 2
  PanicLimit = 1
  MaxSends = 0
SYMMETRY SessionSymmetry
CHECK_DEADLOCK FALSE
INVARIANT ActiveIsOwned
PROPERTY RefusedOnlyWhenRunning

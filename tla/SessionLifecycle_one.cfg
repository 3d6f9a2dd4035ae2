SPECIFICATION FairSpec
CONSTANTS
  None = None
  s1 = s1
  s2 = s2
  c1 = c1
  r1 = r1
  Rooms <- MCRooms
  Sessions <- MCOneSession
  Clients <- MCClients
  InboxCap = 2
  PanicLimit = 3
  MaxSends = 4
INVARIANTS FailedStartLeavesNothing
PROPERTIES StoppedActorExits StopCallReturns CancelledStartReturns
CHECK_DEADLOCK FALSE

SPECIFICATION Spec
CONSTANTS
  None = None
  s1 = s1
  s2 = s2
  c1 = c1
  r1 = r1
  Rooms <- MCRooms
  Sessions <- MCOneSession
  Clients <- MCClients
  InboxCap = 2
  PanicLimit = 1
  MaxSends = 2
CHECK_DEADLOCK FALSE
INVARIANTS AbortEndsRun EngineIsExclusive ExitedIsStopped StopIsIdempotent StopWaitsForRun

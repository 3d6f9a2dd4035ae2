SPECIFICATION Spec
CONSTANTS
  None = None
  c1 = c1
  c2 = c2
  p1 = p1
  p2 = p2
  s1 = s1
  s2 = s2
  Clients = {c1, c2}
  Players = {p1}
  Sessions = {s1, s2}
  PlayerOf <- OnePlayer
  QueueCap = 1
  MaxJoins = 3
  MaxRevokes = 1
INVARIANTS
  EntryMatchesClient
  RejoinedAfterLeft
SYMMETRY Alike
CHECK_DEADLOCK FALSE

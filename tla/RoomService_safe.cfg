\* Three users for a room of two or of three, two requests at a time.
SPECIFICATION Spec
CONSTANTS
  Users = {u1, u2, u3}
  Characters = {c1, c2}
  MinPlayers = 2
  MaxPlayers = 3
  Requests = {r1, r2}
  None = None
SYMMETRY Symmetry
INVARIANTS WithinCapacity CharactersDistinct CastIsComplete NoLateComers
PROPERTIES ClosedIsFinal

SPECIFICATION Spec
CONSTANTS
  Users = {u1, u2}
  Characters = {c1, c2, c3}
  MinPlayers = 2
  MaxPlayers = 2
  Requests = {r1, r2}
  None = None
SYMMETRY Symmetry
CHECK_DEADLOCK FALSE
INVARIANTS SelectionsAreFrozen StartedIsMarked
PROPERTY ReadyIsPregame

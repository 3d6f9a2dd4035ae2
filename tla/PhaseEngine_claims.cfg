SPECIFICATION Spec
CONSTANTS
  NumModules = 2
  NumPhases = 3
  SceneTransitions <- linear
  MaxVisits = 2
  None = None
CHECK_DEADLOCK FALSE
INVARIANTS MovesAnswer FailedStartIsReleased ModulesFollow RoundIsZeroWhenOver

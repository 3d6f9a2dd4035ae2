SPECIFICATION EventSpec
CONSTANTS
  NumModules = 2
  NumPhases = 3
  SceneTransitions <- linear
  MaxVisits = 2
  None = None
  door = door
  alarm = alarm
  letter = letter
  typo = typo
  Triggers <- triggers
  From <- from
  To <- to
  Graph <- edges
  InitialPhase = 0
  AllowBacktrack = FALSE
  Self = 2
  MaxDispatch = 2
CHECK_DEADLOCK FALSE
INVARIANTS ActionsOnce EngineIsSourceOfTruth

SPECIFICATION Spec
CONSTANTS
  NumModules = 2
  NumPhases = 3
  SceneTransitions <- graph
  MaxVisits = 2
  None = None
CHECK_DEADLOCK FALSE
INVARIANT AnnouncedIsCurrent
PROPERTY ImplementsCourse

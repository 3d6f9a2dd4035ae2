SPECIFICATION Spec
CONSTANTS
  Scenes = {a, b}
  Initial = {a, b}
  None = None
  MaxEvents = 3
  MaxRequests = 2
CHECK_DEADLOCK FALSE
INVARIANT ScreenIsSaved
INVARIANT StoredFlowIsSound
PROPERTY SavingEnds

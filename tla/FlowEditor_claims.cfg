\* The claims the code does not keep; run with -continue to see each.
SPECIFICATION Spec
CONSTANTS
  Scenes = {a, b}
  Initial = {a, b}
  None = None
  MaxEvents = 3
  MaxRequests = 2
CHECK_DEADLOCK FALSE
PROPERTY TemplateSparesExisting
PROPERTY ReopenShowsSaved
PROPERTY LinesAreTheUsers
PROPERTY CloseSaves
INVARIANT PatchesOwnScene
INVARIANT PutsAreValid

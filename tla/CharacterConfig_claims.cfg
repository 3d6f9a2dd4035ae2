SPECIFICATION ConfigSpec
CONSTANTS
  None = None
  missions = missions
  clues = clues
  Settings <- MCSettings
  Carried <- MCCarried
  MaxEdits = 3
  MaxForeign = 1
  MaxFaults = 1
  MaxOpens = 1
  SaveIds = {1, 2}
CHECK_DEADLOCK FALSE
INVARIANT FailureShowsStored
PROPERTY WindowKeepsEdits

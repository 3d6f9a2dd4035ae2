SPECIFICATION Spec
CONSTANTS
  None = None
  MaxEdits = 2
  MaxForeign = 1
  MaxFaults = 1
  MaxClicks = 1
  SaveIds = {1, 2}
CHECK_DEADLOCK FALSE
PROPERTIES ReloadIsTaken UndoneIsNotSaved

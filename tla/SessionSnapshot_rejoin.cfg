SPECIFICATION SnapshotFairSpec
CONSTANTS
  None = None
  Players = {p1, p2}
  InboxCap = 2
  Debounce = 2
  MaxVersion = 4
  MaxSends = 3
PROPERTIES
  RejoinGetsState
CHECK_DEADLOCK FALSE

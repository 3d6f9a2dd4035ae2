SPECIFICATION SnapshotSpec
CONSTANTS
  None = None
  Players = {p1, p2}
  InboxCap = 2
  Debounce = 2
  MaxVersion = 4
  MaxSends = 4
CHECK_DEADLOCK FALSE
INVARIANTS WipedStaysWiped ChangeIsMarked PhaseIsSaved

SPECIFICATION Spec
CONSTANTS
  None = None
  Tracks = {a, b}
  Videos = {x, y}
  Clips = {v, w}
  MaxCalls = 3
  MaxCuts = 2
  Calls <- MCCalls
  Cuts <- MCCuts
  Budgets <- MCBudgets
CHECK_DEADLOCK FALSE
INVARIANT TwoTracksOnlyWhileFading
INVARIANT OneSourceWhenSerial
INVARIANT HeldOnlyDuringCutscene
INVARIANT VoiceAccounted
PROPERTY StopCallReturns

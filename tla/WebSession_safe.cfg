SPECIFICATION Spec
CONSTANTS
  None = None
  MaxClients = 4
  MaxAttempts = 2
  Requests = {a, b}
  MaxPairs = 6
  Budgets <- MCBudgets
CHECK_DEADLOCK FALSE
INVARIANTS TokensAreUsedOnce SessionSurvives ConnectionFollowsSession OneConnection
PROPERTIES ToldIsFinal CallsReturn AttemptsEnd

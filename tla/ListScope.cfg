SPECIFICATION Spec
CONSTANTS
  AccessTtl = 2
  NULL = NULL
  MaxTime = 2
  MaxTokens = 1
  MaxChanges = 1
  MaxOrders = 3
  Mine = {1, 3}
  Limits = {1, 2}
  MaxMoves = 1
  MaxFaults = 0
INVARIANTS
  ScopeNotFromTokenAlone
CHECK_DEADLOCK FALSE

SPECIFICATION TokensSpec
CONSTANTS
  Emails = {e1}
  Requests = {r1, r2, r3}
  NONE = NONE
  NULL = NULL
  MaxRefreshTokens = 3
  MaxFailures = 1
  AccessTtl = 1
  MaxTime = 2
  MaxTokens = 2
  MaxChanges = 1
  MaxOrders = 3
  Mine = {1, 3}
  Limits = {1, 2}
  MaxMoves = 1
  MaxFaults = 1
SYMMETRY RequestSymmetry
INVARIANTS
  OneAccountPerEmail
  TokenlessExplained
  SessionsAccounted
  RevokedIsRefused
  SkipsExplained
  RepeatsExplained
  StaleScopeExpires
CHECK_DEADLOCK FALSE

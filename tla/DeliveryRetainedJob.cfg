SPECIFICATION FairSpec
CONSTANTS
  Deliveries = {1}
  Runners = {r1, r2}
  NULL = NULL
  ClaimLimit = 2
  JobAttempts = 2
  RecoverLimit = 1
  KeepJobs = 2
  MaxFaults = 2
  MaxStalls = 0
PROPERTIES
  PendingIsRecovered
CHECK_DEADLOCK FALSE

SPECIFICATION FairSpec
CONSTANTS
  Deliveries = {1, 2}
  Runners = {r1, r2}
  NULL = NULL
  ClaimLimit = 2
  JobAttempts = 2
  RecoverLimit = 1
  KeepJobs = 1
  MaxFaults = 2
  MaxStalls = 1
INVARIANTS
  OneDeliverer
  OrphansExplained
PROPERTIES
  DeliveredIsFinal
  RecoveredUnlessKept
CHECK_DEADLOCK FALSE

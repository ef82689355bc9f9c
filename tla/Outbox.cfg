SPECIFICATION FairSpec
CONSTANTS
  Events = {1, 2}
  Instances = {p1, p2}
  NULL = NULL
  BatchLimit = 2
  MaxFaults = 2
  MaxOverruns = 1
INVARIANTS
  MarkedMeansAccepted
  DuplicatesExplained
  ExclusiveLease
PROPERTIES
  PublishedIsFinal
  FreshLeaseRespected
  EventuallyPublished
  ImplementsPromise
CHECK_DEADLOCK FALSE

SPECIFICATION FairSpec
CONSTANTS
  Concurrency = 2
  Interval = 2
  Warmup = 1
  Duration = 4
  Timeout = 3
  SloP99 = 100
  MaxErrorRate = 50
  NULL = NULL
  TickMicros = 502
  TimerSlack = 1
  Horizon = 7
  LongRun = 120
  MaxArguments = 3
INVARIANTS
  Accounting
  OnSchedule
  PercentilesAreNearestRank
  VerdictJustified
  CommandLineHonoured
PROPERTIES
  EventuallyReported
CHECK_DEADLOCK FALSE

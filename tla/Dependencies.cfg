SPECIFICATION DependenciesSpec
CONSTANTS
  Requests = {q1, q2, q3}
  NoEntry = NoEntry
  MaxCreates = 3
  MaxFailed = 2
  Probes = {r1, r2}
  Poller = poller
  NULL = NULL
  MaxFaults = 2
INVARIANTS
  StaleExplained
  ConnectionsAccounted
  ReadyIsCurrent
PROPERTIES
  EventuallyCurrent
  EventuallyConnected
  ProbesAnswered
CHECK_DEADLOCK FALSE

SPECIFICATION FairSpec
CONSTANTS
  Orders = {o1}
  Payments = {p1}
  Workers = {w1}
  Prefetch = 1
  MaxRetries = 1
  Poison <- PoisonOrders
  MaxCopies = 1
  MaxFailures = 0
  MaxOutages = 1
  MaxBrokerRestarts = 0
INVARIANTS
  TrafficBounded
PROPERTIES
  EventuallySettled
  EventuallyDrained
CHECK_DEADLOCK FALSE

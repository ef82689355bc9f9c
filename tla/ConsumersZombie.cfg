SPECIFICATION FairSpec
CONSTANTS
  Orders = {o1}
  Payments = {p1}
  Workers = {w1}
  Prefetch = 1
  MaxRetries = 1
  Poison <- NoPoison
  MaxCopies = 1
  MaxFailures = 0
  MaxOutages = 1
  MaxBrokerRestarts = 1
PROPERTIES
  EventuallySettled
CHECK_DEADLOCK FALSE

SPECIFICATION Spec
CONSTANTS
  Orders = {o1}
  Payments = {}
  Workers = {w1, w2}
  Prefetch = 1
  MaxRetries = 1
  Poison <- NoPoison
  MaxCopies = 1
  MaxFailures = 1
  MaxOutages = 1
  MaxBrokerRestarts = 1
SYMMETRY WorkerSymmetry
INVARIANTS
  NothingLost
  ExactlyOnceEffect
CHECK_DEADLOCK FALSE

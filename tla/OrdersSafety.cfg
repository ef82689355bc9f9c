SPECIFICATION Spec
CONSTANTS
  Orders = {o1, o2}
  Handlers = {h1, h2}
  Keys = {k1}
  NULL = NULL
  MaxVersion = 3
SYMMETRY RequestSymmetry
INVARIANTS
  OneWriterPerVersion
  ChargedOnce
  ReceiptsHonoured
  PaidIsNotPending
PROPERTIES
  ValidatedTransitions

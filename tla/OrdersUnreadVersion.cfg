SPECIFICATION Spec
CONSTANTS
  Orders = {o1}
  Handlers = {h1, h2}
  Keys = {k1}
  NULL = NULL
  MaxVersion = 2
SYMMETRY RequestSymmetry
PROPERTIES
  OnlyValidTransitions

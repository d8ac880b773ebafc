SPECIFICATION Spec
CONSTANTS
  Nodes = {n1, n2}
  k = 2
  Prime = 4001
  CoExps <- DocumentedRange
  Tokens = {1}
  Settlements = {1}
  StoreMayFail = FALSE
INVARIANTS ResultIsNumeric
CHECK_DEADLOCK FALSE

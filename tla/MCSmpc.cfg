SPECIFICATION Spec
CONSTANTS
  k = 2
  MaxJoinLength = 16
  NilCallback = NilCallback
  NewCallback = NewCallback
  Nodes = {n1, n2, n3}
  JoinIDs = {id1}
  Disconnecting = {n1, n2, n3}
  MaxBreaks = 1
SYMMETRY Symmetry
INVARIANTS TypeOK RevealedByThreshold NoSilentQuorum ExchangeCompletes
CHECK_DEADLOCK FALSE

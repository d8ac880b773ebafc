SPECIFICATION LiveSpec
CONSTANTS
  NoOrder = NoOrder
  Nodes = {n1, n2}
  k = 2
  Prime = 4001
  CoExps <- Ends
  Tokens = {1, 2}
  Settlements = {1, 2}
  StoreMayFail = TRUE
  Streams = {1, 2, 3, 4}
  MaxBreaks = 1
  MaxFailures = 1
  MaxDarknodes = 5
  MaxEpochVal = 6
INVARIANTS LiveTypeOK ResultIsCorrect
PROPERTIES JoinSucceeds ClosedIsRemoved WatchedIsOutput ShutdownCompletes StreamHeals PodsFormed
  PipelineTerminates
CHECK_DEADLOCK FALSE

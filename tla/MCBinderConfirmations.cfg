SPECIFICATION BinderSpec
CONSTANTS
  Callers = {"c1"}
  Ops = {"open", "confirm"}
  Blocks = 1
  MaxTries = 1
  MaxCalls = 2
  MaxFaults = 0
  MaxNonce = 4
  MaxDepth = 2
  Width = 16
PROPERTIES ReturnsConfirmed
CHECK_DEADLOCK FALSE

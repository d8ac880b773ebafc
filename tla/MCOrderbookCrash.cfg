SPECIFICATION Spec
CONSTANTS
  Orders = {1}
  Fragments = {}
  Ageing = {}
  Closings = {"confirmed", "canceled"}
  Limit = 1
  MaxEpoch = 2
  MaxCrashes = 1
  RequestsMayEnd = FALSE
  CallsMayFail = FALSE
INVARIANT PointerIsSynced
CHECK_DEADLOCK FALSE

SPECIFICATION Spec
CONSTANTS
  Orders = {1}
  Fragments <- BothDepths
  Ageing = {1}
  Closings = {"confirmed", "canceled"}
  Limit = 1
  MaxEpoch = 4
  MaxCrashes = 1
  RequestsMayEnd = TRUE
  CallsMayFail = TRUE
INVARIANTS TypeOK NothingMissed
CHECK_DEADLOCK FALSE

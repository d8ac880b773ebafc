SPECIFICATION Spec
CONSTANTS
  b1 = b1
  s1 = s1
  NoOrder = NoOrder
  Buys = {b1}
  Sells = {s1}
  SubmitMayFail = TRUE
  ContractMayFail = FALSE
  StoreMayFail = FALSE
  ConfirmationsCap = 1
  MaxHours = 0
CHECK_DEADLOCK FALSE
PROPERTY OutputIsFinal

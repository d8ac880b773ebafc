SPECIFICATION MCSpec
CONSTANTS
  b1 = b1
  s1 = s1
  s2 = s2
  NoOrder = NoOrder
  Buys = {b1}
  Sells = {s1, s2}
  SubmitMayFail = TRUE
  ContractMayFail = TRUE
  StoreMayFail = FALSE
  ConfirmationsCap = 1
  MaxHours = 1
SYMMETRY Symmetry
CHECK_DEADLOCK FALSE
INVARIANTS TypeOK OutputIsConfirmed OutputOnce

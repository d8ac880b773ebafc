SPECIFICATION FairSpec
CONSTANTS
  Receivers = {r1, r2}
  Writers = {w1}
  MaxStages = 2
PROPERTIES ReceiveFinishes
CHECK_DEADLOCK FALSE

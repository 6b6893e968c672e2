SPECIFICATION TxSpec
CONSTANTS
  TxKeys = {k1, k2}
  MaxSteps = 3
  MaxOthers = 1
  MaxAttempts = 1
INVARIANTS
  ErrorRollsBack
CHECK_DEADLOCK FALSE

SPECIFICATION MFairSpec
CONSTANTS
  MaxChanges = 4
  Faults = {"stop"}
PROPERTY DisposalAlwaysJoins
CHECK_DEADLOCK FALSE

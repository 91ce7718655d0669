SPECIFICATION MFairSpec
CONSTANTS
  MaxChanges = 4
  Faults = {"build", "config", "start", "commit", "stop", "cleanup"}
INVARIANTS
  ManagedInv RestoreReactivates
PROPERTIES
  ActivationSettles DisposalJoins
CHECK_DEADLOCK FALSE

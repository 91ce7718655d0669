SPECIFICATION BFairSpec
CONSTANTS
  r1 = r1  r2 = r2
  None = none
  Requests = {r1, r2}
  QueueCapacity = 1
  MaxPending = 1
INVARIANTS
  BridgeInv NoStrandedRequest NoLeakedPending
PROPERTIES
  OneReply DisconnectReleasesCallers
CHECK_DEADLOCK FALSE

SPECIFICATION WFairSpec
CONSTANTS
  Requests <- TwoTrees
  PatchLists <- SomePatches
  Needs <- BNeedsA
  Exposed = {"c"}
  Faults = {"import", "activate", "dispose", "write"}
  Unknown = unknown
  MaxCalls = 3
  Sources <- SomeSources
  MaxWrites = 2
INVARIANTS
  WatcherInv CommittedTreeIsLive FileIsWhole
PROPERTIES
  ImplementsRegister NewestSourceIsSeen StopJoins
CHECK_DEADLOCK FALSE

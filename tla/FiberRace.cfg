SPECIFICATION FFairSpec
CONSTANTS
  a = a  b = b  e1 = e1  none = none
  Scopes = {a, b}
  Effects = {e1}
  Clients = {k1, k2}
  Parents <- OneFiber
  Targets <- RootTarget
  None = none
INVARIANT
  FiberInv
PROPERTIES
  NoEffectLeaks FiberOperationsReturn
CHECK_DEADLOCK FALSE

SPECIFICATION Spec
CONSTANTS
  a = a  b = b  c = c  d = d  e1 = e1  e2 = e2  none = none
  Scopes = {a, b, c, d}
  Effects = {e1}
  Clients = {k1}
  Parents <- ChainParents
  Targets <- RootTarget
  None = none
INVARIANT NoCircularWait
CHECK_DEADLOCK FALSE

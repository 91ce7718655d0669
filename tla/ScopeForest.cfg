SPECIFICATION Spec
CONSTANTS
  a = a  b = b  c = c  d = d  e1 = e1  e2 = e2  none = none
  Scopes = {a, b, c}
  Effects = {e1}
  Clients = {k1}
  Parents <- ForestParents
  Targets <- AnyTarget
  None = none
INVARIANTS
  TypeOK CleanedWhenDisposed DisposalIsOrderly NobodyIsStranded
CHECK_DEADLOCK FALSE

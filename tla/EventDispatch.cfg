SPECIFICATION ESpec
CONSTANTS
  o1 = o1  v1 = v1  v2 = v2
  Owners = {o1}
  Views = {v1, v2}
  Offered <- MixedListeners
  Registrars = {r1}
  Dispatchers = {d1, d2}
  MaxListeners = 2
SYMMETRY AnyDispatcher
INVARIANTS
  EventInv ClosedOwnersAreSilent CallsFollowSnapshot CompletedMeansAll
CHECK_DEADLOCK FALSE

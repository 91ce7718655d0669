SPECIFICATION HFairSpec
CONSTANTS
  s1 = s1
  t1 = t1
  t2 = t2
  HostReqs = {s1, t1, t2}
  Askers = {s1, t1}
  Threaded = {t1, t2}
  Capacity = 1
  MaxInbox = 1
  Nobody = Nobody
CHECK_DEADLOCK FALSE
INVARIANT
  HostInv
PROPERTIES
  NoSelfDeadlock
  EveryRequestEnds

SPECIFICATION LFairSpec
CONSTANTS
  c1 = c1
  c2 = c2
  Callers = {c1, c2}
  MaxGen = 2
  MaxCleanups = 2
CHECK_DEADLOCK FALSE
INVARIANTS
  
  CleanupsRunOnce
PROPERTIES
  LostIsReleased

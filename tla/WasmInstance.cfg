SPECIFICATION WaFairSpec
CONSTANTS
  t1 = t1
  t2 = t2
  t3 = t3
  Callers = {t1, t2, t3}
  MaxCalls = 2
  c0 = c0
  c1 = c1
  Updates = {c1}
  FirstConfig = c0
  Sticky = FALSE
  Nobody = Nobody
CHECK_DEADLOCK FALSE
INVARIANTS
  WasmInv
  StopIsPrompt
  IdOutlivesUse
PROPERTIES
  CallsReturn

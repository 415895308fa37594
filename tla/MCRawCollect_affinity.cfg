SPECIFICATION Spec
CONSTANTS
  t1 = t1
  t2 = t2
  Threads = {t1}
  NumCpus = 2
  NumLeaves = 1
  IndexMod = 8
  BindLimit = 8
  StaticScope = FALSE
  Allowances <- FreeMask
  InitMasks <- FreeMask
  MaxPlug = 0
  MaxCalls = 1
INVARIANTS
  AffinityRestored
CHECK_DEADLOCK FALSE

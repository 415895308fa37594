SPECIFICATION Spec
CONSTANTS
  t1 = t1
  t2 = t2
  Threads = {t1, t2}
  NumCpus = 3
  NumLeaves = 2
  IndexMod = 5
  BindLimit = 1
  StaticScope = FALSE
  Allowances <- SomeAllowances
  InitMasks <- FreeMask
  MaxPlug = 0
  MaxCalls = 1
SYMMETRY ThreadSymmetry
INVARIANTS
  DataFromNamedCpu
  ErrnoIsOwnResult
PROPERTIES
  SavedMaskStable
CHECK_DEADLOCK FALSE

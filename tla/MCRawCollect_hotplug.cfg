SPECIFICATION FairSpec
CONSTANTS
  t1 = t1
  t2 = t2
  Threads = {t1}
  NumCpus = 3
  NumLeaves = 2
  IndexMod = 8
  BindLimit = 8
  StaticScope = FALSE
  Allowances <- SomeAllowances
  InitMasks <- SomeMasks
  MaxPlug = 2
  MaxCalls = 2
INVARIANT StopsAtEnd
PROPERTIES
  Implements
  CallsReturn
CHECK_DEADLOCK FALSE

SPECIFICATION Spec
CONSTANTS
  t1 = t1
  t2 = t2
  Threads = {t1, t2}
  Cores = {0, 1}
  MaxPstate = 1
  Machines <- MCMachines
  ClosesOnNoMem = TRUE
  MaxCalls = 2
  MaxEvents = 1
SYMMETRY ThreadSymmetry
INVARIANTS
  OwnCore
  MinIsLast
  CurrentDuringCall
PROPERTY UnsupportedIsTrue
CHECK_DEADLOCK FALSE

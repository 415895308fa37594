SPECIFICATION Spec
CONSTANTS
  X86Fields <- MCX86Fields
  ArmFields <- MCArmFields
  BasicFields <- MCBasicFields
  Values = {0, 1, 2, 3}
  Cut = 9
  CpuMod = 8
  Sources <- MCSources
  Foreign <- MCForeign
  MemoryMayFail = TRUE
INVARIANTS
  RoundTrip
  OneOfManyIsOneCpu
  TruncationIsClean
  AidaNumbering
  OverrunExplained
CHECK_DEADLOCK FALSE

SPECIFICATION Spec
CONSTANTS
  Word = 512
  MaxInt = 15
  UIntWord = 1073741824
  Milli = 8
  LoopTime = 3
  InnerStart = 1
  InnerMax = 2
  SseWork = 56
  SseSetup = 0
  TscFreq = 3
  TscBase <- MCTscBase
  Start <- MCStart
  CpuIds <- MCCpuIds
  RawClocks <- MCRawClocks
  OsClocks <- MCOsClocks
  Calls <- MCCalls
  Jumps <- MCJumps
  Pauses = {2}
  MaxFaults = 3
INVARIANTS
  MeasuredIsTrue
  LastsAsAsked
  IcIsFastest
  PerfIsTrue
  TscIsBase
  EndsInTime
CHECK_DEADLOCK FALSE

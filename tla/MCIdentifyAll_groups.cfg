SPECIFICATION Spec
CONSTANTS
  Arrays <- MCArrays
  Purposes = {"general", "performance", "efficiency"}
  Levels = {"L1D", "L3"}
  TableSize = 10
  CountMod = 10
  TypeMod = 5
INVARIANTS
  Partition
  Homogeneous
  TypesDistinct
  CountsAreOfTheType
  StaysInArrays
CHECK_DEADLOCK FALSE

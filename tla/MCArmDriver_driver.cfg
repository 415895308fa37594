SPECIFICATION Spec
CONSTANTS
  NumCpus = 2
  IndexMod = 16
  Machines <- MCMachines
  MaxCalls = 1
  MaxEvents = 2
INVARIANTS
  DevicesMirrorCpus
  NoFileOnGoneModule
  FieldsAreOfTheirCpu
  BlankOnlyIfGone
  BindingRestored
PROPERTY
  AcquisitionReturns
CHECK_DEADLOCK FALSE

SPECIFICATION Spec
CONSTANTS
  RawRecords <- TestArm
  Hosts <- MCHosts
  MatchTable <- MCMatchTable
  FeatureMap <- FeaturesMap
  EpcCached = 2
  EpcBound = 3
INVARIANTS
  Armv9IncludesV85

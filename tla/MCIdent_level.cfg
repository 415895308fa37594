SPECIFICATION Spec
CONSTANTS
  RawRecords <- X86Levels
  Hosts <- MCHosts
  MatchTable <- MCMatchTable
  FeatureMap <- FeaturesMap
  EpcCached = 2
  EpcBound = 3
INVARIANTS
  LevelIsEarned

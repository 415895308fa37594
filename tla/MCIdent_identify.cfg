SPECIFICATION Spec
CONSTANTS
  RawRecords <- AllRecords
  Hosts <- MCHosts
  MatchTable <- MCMatchTable
  FeatureMap <- FeaturesMap
  EpcCached = 2
  EpcBound = 3
INVARIANTS
  NothingLeftOver
  SameRecordSameId
  CodenameIsFirstBest
  MaskIsOfItsCache
  PurposeAgrees
  ArmLevelIsCompliant
  ConflictCapsVersion
  TestsPass

SPECIFICATION Spec
CONSTANTS
  Backend = "dynamodb"
  MaxShards = 2
  SeedShards = 1
  MaxEpoch = 2
  MaxVersion = 3
  Coordinators = {c1, c2}
  StartRpcs = {r1}
  ApplyRpcs = {}
  SkipRpcs = {}
  PromoteRpcs = {}
  AutoRpcs = {a1, a2}
  Timer = timer
  AutoTarget = c1
  RequestIDs = {0}
  MaxStarts = 3
  MaxMishaps = 2
CHECK_DEADLOCK FALSE
INVARIANT TypeOK
INVARIANT RecommendationFitsConfig
INVARIANT StartedEpochIsConsistent
INVARIANT OpenEpochWasStarted
INVARIANT HolderReachesShards
PROPERTY ShardCountFixedInEpoch
PROPERTY NewConfigNewVersion

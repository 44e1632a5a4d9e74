SPECIFICATION FairSpec
CONSTANTS
  Backend = "dynamodb"
  MaxShards = 2
  SeedShards = 1
  MaxEpoch = 1
  MaxVersion = 3
  Coordinators = {c1}
  StartRpcs = {r1}
  ApplyRpcs = {r1}
  SkipRpcs = {r1}
  PromoteRpcs = {r1}
  AutoRpcs = {a1}
  Timer = timer
  AutoTarget = c1
  RequestIDs = {0}
  MaxStarts = 1
  MaxMishaps = 1
CHECK_DEADLOCK FALSE
INVARIANT AppliedOnce
PROPERTY EpochsAreDecided

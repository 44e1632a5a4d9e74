SPECIFICATION FairSpec
CONSTANTS
  Backend = "dynamodb"
  Clients = {k1}
  Coordinators = {c1, c2}
  Holder = c1
  MaxShards = 2
  SeedShards = 1
  MaxEpoch = 2
  MaxRequests = 1
  MaxUuid = 3
  MaxMishaps = 2
CHECK_DEADLOCK FALSE
INVARIANT TypeOK
INVARIANT AcceptedOnce
INVARIANT NeverOvercounted
INVARIANT NoBogusUUID
PROPERTY RequestsEnd

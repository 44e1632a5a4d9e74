SPECIFICATION FairSpec
CONSTANTS
  A = A
  B = B
  Uploads = {u1}
  Coordinators = {c1}
  FirstHolder = c1
  Monitor = monitor
  AutoCheck = auto
  Admin = admin
  Threads = {monitor, auto}
  FailureThreshold = 2
  MaxMishaps = 1
  MaxCrashes = 1
  MaxTakeovers = 0
CHECK_DEADLOCK FALSE
INVARIANT TypeOK
INVARIANT ActiveHasAccepted
INVARIANT PromotedWasDrained
PROPERTY DownActiveIsReplaced

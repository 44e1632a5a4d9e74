SPECIFICATION Spec
CONSTANTS
  A = A
  B = B
  Uploads = {u1}
  Coordinators = {c1, c2}
  FirstHolder = c1
  Monitor = monitor
  AutoCheck = auto
  Admin = admin
  Threads = {admin}
  FailureThreshold = 1
  MaxMishaps = 1
  MaxCrashes = 0
  MaxTakeovers = 1
CHECK_DEADLOCK FALSE
INVARIANT ActiveHasAccepted
INVARIANT PromotedIsCaughtUp
INVARIANT HolderUsesActive

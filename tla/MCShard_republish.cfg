SPECIFICATION Spec
CONSTANTS
  Uploads = {u1}
  Workers = {w1}
  Backend = "memory"
  MaxStarts = 2
  MaxEpochID = 2
  RequestIDs = {0}
  MaxAttempts = 1
  MaxFaults = 0
  NoMsg = NoMsg
  NoDump = NoDump
CHECK_DEADLOCK FALSE
INVARIANT PublishedOnce

SPECIFICATION Spec
CONSTANTS
  Uploads = {u1, u2}
  Workers = {w1, w2}
  Backend = "memory"
  MaxStarts = 1
  MaxEpochID = 1
  RequestIDs = {0}
  MaxAttempts = 1
  MaxFaults = 0
  NoMsg = NoMsg
  NoDump = NoDump
CHECK_DEADLOCK FALSE
INVARIANT AcceptedIsPublished

SPECIFICATION Spec
CONSTANTS
  Uploads = {u1}
  Workers = {w1, w2}
  Backend = "sqs"
  MaxStarts = 1
  MaxEpochID = 1
  RequestIDs = {0, 1}
  MaxAttempts = 2
  MaxFaults = 2
  NoMsg = NoMsg
  NoDump = NoDump
CHECK_DEADLOCK FALSE
SYMMETRY Symmetry
INVARIANT NoUploadLost
INVARIANT CommittedOnBoth
INVARIANT CompletedHasResult
INVARIANT AtMostOnce

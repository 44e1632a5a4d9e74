SPECIFICATION FairSpec
CONSTANTS
  Uploads = {u1, u2}
  Workers = {w1, w2}
  Backend = "memory"
  MaxStarts = 2
  MaxEpochID = 2
  RequestIDs = {0, 1}
  MaxAttempts = 1
  MaxFaults = 0
  NoMsg = NoMsg
  NoDump = NoDump
CHECK_DEADLOCK FALSE
INVARIANT TypeOK
INVARIANT MergeExclusive
INVARIANT ClosingHasWaiter
INVARIANT SessionKeepsRun
INVARIANT ReadableResult
INVARIANT ClosedRunIsComplete
PROPERTY EpochEnds
PROPERTY AckedIsApplied

-------------------------- MODULE ShardDataProofs --------------------------
(***************************************************************************)
(* Theorems about the uploads of Shard.  For both queue backends and any   *)
(* number of failures, redeliveries and expired leases: what the ledger    *)
(* calls committed was written on both servers, no acknowledged upload is  *)
(* lost, no worker is in a job while tables are dumped.  Under conditions  *)
(* they name: a write is applied at most once, the published tables agree, *)
(* and a run that was closed publishes all it accepted.                    *)
(***************************************************************************)
EXTENDS ShardControlProofs, FiniteSetTheorems

\* The write of uuid u reached server s.
Written(s, u) == writes[s][u] >= 1

\* What a worker's position says of its message: during the prepare fan-out
\* the servers that answered hold the write, after it both do, and only a
\* committed message is acked.
Justified(w) ==
  /\ wpc[w] = "prepare" => \A s \in Servers \ todo[w] : Written(s, wmsg[w].uuid)
  /\ wpc[w] \in {"commit", "complete"} => \A s \in Servers : Written(s, wmsg[w].uuid)
  /\ wpc[w] = "ack" => Committed(wmsg[w])

JobProgress == \A w \in Workers : Justified(w)

DataInv == JobProgress /\ CommittedOnBoth /\ NoUploadLost

\* No table operation takes a write back.
LEMMA WritesGrow ==
  ASSUME TablesTypeOK, NEW s \in Servers, NEW u \in Uploads,
         Prepare(s, u) \/ Commit(s, u) \/ UNCHANGED tableVars
  PROVE  \A t \in Servers, v \in Uploads : Written(t, v) => Written(t, v)'
<1>1. CASE Prepare(s, u)
  <2>1. ASSUME NEW t \in Servers, NEW v \in Uploads, Written(t, v) PROVE Written(t, v)'
    <3>1. writes[t][v] \in Nat
      BY DEF TablesTypeOK
    <3>2. writes'[t][v] = writes[t][v] \/ writes'[t][v] = writes[t][v] + 1
      BY <1>1 DEF Prepare, TablesTypeOK
    <3>3. QED
      BY <2>1, <3>1, <3>2 DEF Written
  <2>2. QED
    BY <2>1
<1>2. CASE Commit(s, u) \/ UNCHANGED tableVars
  BY <1>2 DEF Commit, tableVars, Written
<1>3. QED
  BY <1>1, <1>2

\* Prepare writes.
LEMMA PrepareWrites ==
  ASSUME TablesTypeOK, NEW s \in Servers, NEW u \in Uploads, Prepare(s, u)
  PROVE  Written(s, u)'
<1>1. writes[s][u] \in Nat
  BY DEF TablesTypeOK
<1>2. writes'[s][u] = writes[s][u] + 1
  BY DEF Prepare, TablesTypeOK
<1>3. QED
  BY <1>1, <1>2 DEF Written

\* A commit in the ledger is final.
LEMMA CommittedForever ==
  ASSUME LedgerTypeOK, NEW n, NEW a,
         BeginProcessing(n) \/ CompleteProcessing(n, a) \/ ProcessingExpires(n) \/ UNCHANGED ledger
  PROVE  \A m \in Msgs : Committed(m) => Committed(m)'
<1>1. CASE BeginProcessing(n)
  BY <1>1 DEF BeginProcessing, Committed, LedgerTypeOK
<1>2. CASE CompleteProcessing(n, a)
  BY <1>2 DEF CompleteProcessing, Committed, LedgerTypeOK, LedgerRecord
<1>3. CASE ProcessingExpires(n)
  BY <1>3 DEF ProcessingExpires, Committed, LedgerTypeOK, LedgerRecord
<1>4. QED
  BY <1>1, <1>2, <1>3 DEF Committed

\* Only CompleteProcessing commits, and only its own message.
LEMMA NewCommit ==
  ASSUME LedgerTypeOK, NEW n, NEW a,
         BeginProcessing(n) \/ CompleteProcessing(n, a) \/ ProcessingExpires(n) \/ UNCHANGED ledger
  PROVE  \A m \in Msgs : Committed(m)' => Committed(m) \/ (m = n /\ CompleteProcessing(n, a))
<1>1. CASE BeginProcessing(n)
  BY <1>1 DEF BeginProcessing, Committed, LedgerTypeOK
<1>2. CASE CompleteProcessing(n, a)
  BY <1>2 DEF Committed, CompleteProcessing, LedgerTypeOK
<1>3. CASE ProcessingExpires(n)
  BY <1>3 DEF ProcessingExpires, Committed, LedgerTypeOK, LedgerRecord
<1>4. QED
  BY <1>1, <1>2, <1>3 DEF Committed

-----------------------------------------------------------------------------
(***************************************************************************)
(* What every step guarantees, and why that is enough.                     *)
(***************************************************************************)

WritesKept == \A s \in Servers, u \in Uploads : Written(s, u) => Written(s, u)'

CommitsKept == \A m \in Msgs : Committed(m) => Committed(m)'

CommitsEarned ==
  \A m \in Msgs : Committed(m)' => Committed(m) \/ \A s \in Servers : Written(s, m.uuid)

QueueKept ==
  \A m \in Msgs : m \in available \cup inflight => m \in (available \cup inflight)' \/ Committed(m)

AcksQueued ==
  \A u \in Uploads : acked'[u] # 0 =>
    acked[u] # 0 \/ \E m \in Msgs : m.uuid = u /\ m \in available'

DataStep == WritesKept /\ CommitsKept /\ CommitsEarned /\ QueueKept /\ AcksQueued

SameJob(w) == wpc'[w] = wpc[w] /\ wmsg'[w] = wmsg[w] /\ todo'[w] = todo[w]

\* A step with these guarantees keeps DataInv.
LEMMA DataStepKeepsInv ==
  ASSUME TypeInv, DataInv, DataStep, \A w \in Workers : SameJob(w) \/ Justified(w)'
  PROVE  DataInv'
<1>1. JobProgress'
  <2>1. ASSUME NEW w \in Workers, SameJob(w) PROVE Justified(w)'
    <3>1. wpc[w] # "receive" => wmsg[w] \in Msgs /\ wmsg[w].uuid \in Uploads
      BY DEF TypeInv, WorkerHasMsg, Msgs
    <3>2. QED
      BY <2>1, <3>1
      DEF SameJob, Justified, DataInv, JobProgress, DataStep, WritesKept, CommitsKept, Written,
          Committed
  <2>2. QED
    BY <2>1 DEF JobProgress
<1>2. CommittedOnBoth'
  <2>1. ASSUME NEW m \in Msgs, Committed(m)', NEW s \in Servers PROVE Written(s, m.uuid)'
    <3>1. m.uuid \in Uploads
      BY DEF Msgs
    <3>2. Written(s, m.uuid)
      BY <2>1 DEF DataStep, CommitsEarned, DataInv, CommittedOnBoth, Written
    <3>3. QED
      BY <3>1, <3>2 DEF DataStep, WritesKept
  <2>2. QED
    BY <2>1 DEF CommittedOnBoth, Written
<1>3. NoUploadLost'
  <2>1. ASSUME NEW u \in Uploads, acked'[u] # 0
        PROVE  \E m \in Msgs : m.uuid = u /\ (m \in (available \cup inflight)' \/ Committed(m)')
    <3>1. CASE acked[u] # 0
      <4>1. PICK m \in Msgs : m.uuid = u /\ (m \in available \cup inflight \/ Committed(m))
        BY <3>1 DEF DataInv, NoUploadLost
      <4>2. m \in (available \cup inflight)' \/ Committed(m)'
        BY <4>1 DEF DataStep, QueueKept, CommitsKept
      <4>3. QED
        BY <4>1, <4>2
    <3>2. CASE \E m \in Msgs : m.uuid = u /\ m \in available'
      BY <3>2
    <3>3. QED
      BY <2>1, <3>1, <3>2 DEF DataStep, AcksQueued
  <2>2. QED
    BY <2>1 DEF NoUploadLost
<1>4. QED
  BY <1>1, <1>2, <1>3 DEF DataInv

\* The guarantees that hold of what a step leaves alone.
LEMMA Untouched ==
  /\ UNCHANGED writes => WritesKept
  /\ UNCHANGED ledger => CommitsKept /\ CommitsEarned
  /\ UNCHANGED queueVars => QueueKept
  /\ UNCHANGED acked => AcksQueued
  /\ UNCHANGED workerVars => \A w \in Workers : SameJob(w)
BY DEF WritesKept, Written, CommitsKept, CommitsEarned, Committed, QueueKept, queueVars,
       AcksQueued, workerVars, SameJob

\* A worker whose job ends is justified, and the others keep theirs.
LEMMA ReturnJustified ==
  ASSUME TypeInv, NEW w \in Workers, Return(w)
  PROVE  \A v \in Workers : SameJob(v) \/ Justified(v)'
BY DEF Return, SameJob, Justified, TypeInv, TypeOK

\* The steps of the control loop, the finishers and the environment.
LEMMA OthersKeepDataInv ==
  ASSUME TypeInv, DataInv,
         \/ Control
         \/ \E r \in Runs : Finisher(r)
         \/ Timeouts
         \/ \E c \in late : LateCall(c)
         \/ UNCHANGED vars
  PROVE  DataInv'
<1> USE DEF tableVars, OutsideControl
<1>1. CASE Control
  <2>1. UNCHANGED <<writes, ledger, workerVars>>
    BY <1>1 DEF Control
  <2>2. QueueKept
    BY <1>1 DEF Control, Upload3, Upload3Fails, Enqueue, QueueKept, queueVars
  <2>3. AcksQueued
    <3>1. ASSUME NEW u \in Uploads, Upload3(u) PROVE AcksQueued
      <4>1. [uuid |-> u, epoch |-> epoch.id] \in Msgs
        BY <3>1, ConstantFacts DEF Upload3, TypeInv, TypeOK, ControlTypeOK, Msgs, EpochIDs
      <4>2. \A v \in Uploads \ {u} : acked'[v] = acked[v]
        BY <3>1 DEF Upload3, TypeInv, TypeOK, ControlTypeOK
      <4>3. [uuid |-> u, epoch |-> epoch.id] \in available'
        BY <3>1 DEF Upload3, Enqueue
      <4>4. QED
        BY <4>1, <4>2, <4>3 DEF AcksQueued
    <3>2. CASE ~ \E u \in Uploads : Upload3(u)
      <4>1. UNCHANGED acked
        BY <1>1, <3>2 DEF Control, PeerConnections, StartEpoch, AbortEpoch, Upload1, Upload2,
                          TimerFires, BeginEpochMerge, CompleteEpochMerge, Upload3Fails,
                          controlVars, historyVars
      <4>2. QED
        BY <4>1, Untouched
    <3>3. QED
      BY <3>1, <3>2
  <2>4. QED
    BY <2>1, <2>2, <2>3, Untouched, DataStepKeepsInv DEF DataStep
<1>2. CASE \/ \E r \in Runs : Finisher(r)
           \/ UNCHANGED vars
  <2>1. UNCHANGED <<writes, ledger, workerVars, queueVars, acked>>
    BY <1>2 DEF Finisher, LockPublishing, LockGranted, MergeDump, DumpTable, PublishResult,
                MergeFails, FinGoto, controlVars, historyVars, vars
  <2>2. QED
    BY <2>1, Untouched, DataStepKeepsInv DEF DataStep
<1>3. ASSUME NEW c \in late, LateCall(c) PROVE DataInv'
  <2>1. UNCHANGED <<ledger, workerVars, queueVars, acked>>
    BY <1>3 DEF LateCall, controlVars, historyVars
  <2>2. c.server \in Servers /\ c.msg.uuid \in Uploads
    BY DEF TypeInv, TypeOK, Calls, Msgs
  <2>3. WritesKept
    BY <1>3, <2>2, WritesGrow DEF LateCall, TypeInv, TypeOK, WritesKept
  <2>4. QED
    BY <2>1, <2>3, Untouched, DataStepKeepsInv DEF DataStep
<1>4. CASE Timeouts
  <2>1. UNCHANGED <<writes, workerVars, acked>>
    BY <1>4 DEF Timeouts, controlVars, historyVars
  <2>2. QueueKept
    BY <1>4 DEF Timeouts, VisibilityTimeout, QueueKept, queueVars
  <2>3. CommitsKept /\ CommitsEarned
    <3>1. CASE UNCHANGED ledger
      BY <3>1, Untouched
    <3>2. ASSUME NEW n \in Msgs, ProcessingExpires(n) PROVE CommitsKept /\ CommitsEarned
      BY <3>2 DEF ProcessingExpires, Committed, LedgerTypeOK, LedgerRecord, TypeInv, TypeOK,
                  CommitsKept, CommitsEarned
    <3>3. QED
      BY <1>4, <3>1, <3>2 DEF Timeouts
  <2>4. QED
    BY <2>1, <2>2, <2>3, Untouched, DataStepKeepsInv DEF DataStep
<1>5. QED
  BY <1>1, <1>2, <1>3, <1>4

\* The steps of a worker.
LEMMA WorkerKeepsDataInv ==
  ASSUME TypeInv, DataInv, NEW w \in Workers, Worker(w)
  PROVE  DataInv'
<1> USE DEF tableVars
<1> DEFINE Jobs == \A v \in Workers : SameJob(v) \/ Justified(v)'
<1>1. UNCHANGED acked /\ AcksQueued
  BY WorkerEffect, Untouched DEF controlVars, historyVars, IngestionQueueDrained
<1>2. ASSUME \A v \in Workers \ {w} : SameJob(v), Justified(w)' PROVE Jobs
  BY <1>2
<1>3. ASSUME NEW m \in available, WorkerReceive(w, m) PROVE DataInv'
  <2>1. QueueKept
    BY <1>3 DEF WorkerReceive, Receive, QueueKept
  <2>2. Jobs
    BY <1>3 DEF WorkerReceive, Goto, SameJob, Justified, TypeInv, TypeOK
  <2>3. QED
    BY <1>1, <1>3, <2>1, <2>2, Untouched, DataStepKeepsInv DEF WorkerReceive, DataStep
<1>4. CASE RLock(w) \/ LedgerSkip(w)
  <2>1. UNCHANGED <<writes, ledger, queueVars>>
    BY <1>4 DEF RLock, LedgerSkip
  <2>2. Jobs
    BY <1>4 DEF RLock, LedgerSkip, Goto, SameJob, Justified, Committed, TypeInv, TypeOK
  <2>3. QED
    BY <1>1, <2>1, <2>2, Untouched, DataStepKeepsInv DEF DataStep
<1>5. CASE LedgerBusy(w)
  BY <1>1, <1>5, ReturnJustified, Untouched, DataStepKeepsInv DEF LedgerBusy, DataStep
<1>6. CASE LedgerBegin(w) \/ LedgerBeginFails(w)
  <2>1. UNCHANGED <<writes, queueVars>>
    BY <1>6 DEF LedgerBegin, LedgerBeginFails
  <2>2. BeginProcessing(wmsg[w]) \/ UNCHANGED ledger
    BY <1>6 DEF LedgerBegin, LedgerBeginFails
  <2>3. CommitsKept /\ CommitsEarned
    BY <2>2 DEF BeginProcessing, Committed, CommitsKept, CommitsEarned, LedgerTypeOK, TypeInv, TypeOK
  <2>4. Jobs
    <3>1. CASE LedgerBegin(w)
      BY <3>1 DEF LedgerBegin, Goto, SameJob, Justified, TypeInv, TypeOK
    <3>2. CASE LedgerBeginFails(w)
      BY <3>2, ReturnJustified DEF LedgerBeginFails
    <3>3. QED
      BY <1>6, <3>1, <3>2
  <2>5. QED
    BY <1>1, <2>1, <2>3, <2>4, Untouched, DataStepKeepsInv DEF DataStep
<1>7. ASSUME NEW s \in Servers, PrepareAnswers(w, s) PROVE DataInv'
  <2>1. wmsg[w].uuid \in Uploads
    BY <1>7 DEF PrepareAnswers, TypeInv, WorkerHasMsg, Msgs
  <2>2. WritesKept /\ Written(s, wmsg[w].uuid)'
    BY <1>7, <2>1, WritesGrow, PrepareWrites DEF PrepareAnswers, WritesKept, TypeInv, TypeOK
  <2>3. \A t \in Servers \ todo[w] : Written(t, wmsg[w].uuid)'
    BY <1>7, <2>1, <2>2 DEF PrepareAnswers, DataInv, JobProgress, Justified, WritesKept
  <2>4. wmsg'[w] = wmsg[w] /\ \A v \in Workers \ {w} : SameJob(v)
    BY <1>7 DEF PrepareAnswers, Answered, Goto, SameJob, TypeInv, TypeOK
  <2>5. \A t \in (Servers \ todo[w]) \cup {s} : writes'[t][wmsg[w].uuid] >= 1
    BY <2>2, <2>3, <2>4 DEF Written
  <2>6. Justified(w)'
    <3>1. CASE todo[w] = {s}
      BY <1>7, <2>4, <2>5, <3>1 DEF PrepareAnswers, Answered, Goto, Justified, Written, TypeInv, TypeOK
    <3>2. CASE todo[w] # {s}
      BY <1>7, <2>4, <2>5, <3>2 DEF PrepareAnswers, Answered, Justified, Written, TypeInv, TypeOK
    <3>3. QED
      BY <3>1, <3>2
  <2>7. QED
    BY <1>1, <1>2, <1>7, <2>2, <2>4, <2>6, Untouched, DataStepKeepsInv DEF PrepareAnswers, DataStep
<1>8. ASSUME NEW s \in Servers, CommitAnswers(w, s) PROVE DataInv'
  <2>1. UNCHANGED <<writes, ledger, queueVars>>
    BY <1>8 DEF CommitAnswers, Commit
  <2>2. wmsg'[w] = wmsg[w] /\ wpc'[w] \in {"commit", "complete"} /\ \A v \in Workers \ {w} : SameJob(v)
    BY <1>8 DEF CommitAnswers, Answered, Goto, SameJob, TypeInv, TypeOK
  <2>3. Justified(w)'
    BY <1>8, <2>1, <2>2 DEF CommitAnswers, Justified, Written, DataInv, JobProgress
  <2>4. QED
    BY <1>1, <1>2, <2>1, <2>2, <2>3, Untouched, DataStepKeepsInv DEF DataStep
<1>9. ASSUME NEW s \in Servers, PrepareFails(w, s) \/ CommitUnknown(w, s) \/ CommitFails(w, s)
      PROVE  DataInv'
  <2>1. Jobs /\ UNCHANGED <<ledger, queueVars>>
    BY <1>9, ReturnJustified DEF PrepareFails, CommitUnknown, CommitFails
  <2>2. wmsg[w].uuid \in Uploads
    BY <1>9 DEF PrepareFails, CommitUnknown, CommitFails, TypeInv, WorkerHasMsg, Msgs
  <2>3. WritesKept
    BY <1>9, <2>2, WritesGrow DEF PrepareFails, CommitUnknown, CommitFails, WritesKept, TypeInv, TypeOK
  <2>4. QED
    BY <1>1, <2>1, <2>3, Untouched, DataStepKeepsInv DEF DataStep
<1>10. CASE LedgerComplete(w) \/ LedgerCompleteFails(w)
  <2>1. UNCHANGED <<writes, queueVars>> /\ wpc[w] = "complete" /\ wmsg[w] \in Msgs
    BY <1>10 DEF LedgerComplete, LedgerCompleteFails, TypeInv, WorkerHasMsg
  <2>2. CompleteProcessing(wmsg[w], lease[w]) \/ UNCHANGED ledger
    BY <1>10 DEF LedgerComplete, LedgerCompleteFails
  <2>3. CommitsKept
    BY <2>2, CommittedForever DEF CommitsKept, TypeInv, TypeOK
  <2>4. CommitsEarned
    <3>1. \A m \in Msgs : Committed(m)' => Committed(m) \/ m = wmsg[w]
      BY <2>2, NewCommit DEF TypeInv, TypeOK
    <3>2. \A s \in Servers : Written(s, wmsg[w].uuid)
      BY <2>1 DEF DataInv, JobProgress, Justified
    <3>3. QED
      BY <3>1, <3>2 DEF CommitsEarned
  <2>5. Jobs
    <3>1. CASE Return(w)
      BY <3>1, ReturnJustified
    <3>2. CASE CompleteProcessing(wmsg[w], lease[w]) /\ Goto(w, "ack") /\ UNCHANGED <<wmsg, lease, todo>>
      <4>1. ledger'[wmsg[w]].state = "committed"
        BY <2>1, <3>2 DEF CompleteProcessing, LedgerTypeOK, LedgerRecord, TypeInv, TypeOK
      <4>2. QED
        BY <3>2, <4>1 DEF Goto, SameJob, Justified, Committed, TypeInv, TypeOK
    <3>3. QED
      BY <1>10, <3>1, <3>2 DEF LedgerComplete, LedgerCompleteFails
  <2>6. QED
    BY <1>1, <2>1, <2>3, <2>4, <2>5, Untouched, DataStepKeepsInv DEF DataStep
<1>11. CASE AckAnswers(w) \/ AckFails(w)
  <2>1. UNCHANGED <<writes, ledger>> /\ Committed(wmsg[w])
    BY <1>11 DEF AckAnswers, AckFails, DataInv, JobProgress, Justified
  <2>2. QueueKept
    BY <1>11, <2>1 DEF AckAnswers, AckFails, Ack, QueueKept, queueVars
  <2>3. Jobs
    <3>1. CASE AckAnswers(w)
      BY <3>1 DEF AckAnswers, Goto, SameJob, Justified, TypeInv, TypeOK
    <3>2. CASE AckFails(w)
      BY <3>2, ReturnJustified DEF AckFails
    <3>3. QED
      BY <1>11, <3>1, <3>2
  <2>4. QED
    BY <1>1, <2>1, <2>2, <2>3, Untouched, DataStepKeepsInv DEF DataStep
<1>12. CASE Notify(w)
  BY <1>1, <1>12, ReturnJustified, Untouched, DataStepKeepsInv DEF Notify, DataStep
<1>13. CASE LedgerBeginStale(w)
  <2>1. UNCHANGED <<writes, ledger, queueVars>>
    BY <1>13 DEF LedgerBeginStale
  <2>2. Jobs
    BY <1>13 DEF LedgerBeginStale, Goto, SameJob, Justified, TypeInv, TypeOK
  <2>3. QED
    BY <1>1, <2>1, <2>2, Untouched, DataStepKeepsInv DEF DataStep
<1>14. QED
  BY <1>3, <1>4, <1>5, <1>6, <1>7, <1>8, <1>9, <1>10, <1>11, <1>12, <1>13 DEF Worker

\* DataInv holds in every reachable state.
THEOREM DataInvariant == Spec => []DataInv
<1>1. Init => DataInv
  BY DEF Init, LedgerInit, ControlInit, DataInv, JobProgress, Justified, CommittedOnBoth,
         NoUploadLost, Committed
<1>2. TypeInv /\ DataInv /\ [Next]_vars => DataInv'
  BY WorkerKeepsDataInv, OthersKeepDataInv DEF Next
<1>3. QED
  BY <1>1, <1>2, TypeInvariant, PTL DEF Spec

\* A message the ledger calls committed is in the tables of both servers, so
\* skipping a redelivered duplicate loses nothing: under any failures of the
\* fan-outs, redeliveries and take-overs of expired processing leases.
THEOREM CommitMeansWritten == Spec => []CommittedOnBoth
BY DataInvariant, PTL DEF DataInv

\* An acknowledged upload is queued, in flight or committed for ever after.
THEOREM UploadsAreKept == Spec => []NoUploadLost
BY DataInvariant, PTL DEF DataInv

-----------------------------------------------------------------------------
(***************************************************************************)
(* One message per upload.  With the memory queue, and with SQS as long as *)
(* no call failed, an upload is enqueued once; the memory queue hands the  *)
(* message to one worker and never again.                                  *)
(***************************************************************************)

Calm == Backend = "memory" \/ faults = 0

\* Some part of the leader knows the message.
Known(m) ==
  \/ m \in available \cup inflight
  \/ ledger[m].state # "none"
  \/ \E w \in Workers : wpc[w] # "receive" /\ wmsg[w] = m

\* A record is created by the first attempt, and only a record expires.
LedgerShape ==
  \A m \in Msgs : /\ ledger[m].state # "none" => ledger[m].attempt # 0
                  /\ ledger[m].expired => ledger[m].state # "none"

\* Two known messages of one upload are the same, and its session is over.
OneMessage ==
  Calm => \A m \in Msgs : Known(m) =>
    /\ sessions[m.uuid] = "none"
    /\ admitted[m.uuid] # 0
    /\ \A n \in Msgs : Known(n) /\ n.uuid = m.uuid => n = m

\* A session is opened once.
SessionFresh == \A u \in Uploads : sessions[u] # "none" => admitted[u] # 0

\* The memory queue delivers a message once.
DeliveredOnce ==
  Backend = "memory" =>
    /\ \A m \in available : ledger[m].state = "none"
    /\ \A w \in Workers : wpc[w] # "receive" =>
         /\ wmsg[w] \notin available
         /\ wpc[w] \in {"lock", "begin"} => ledger[wmsg[w]].state = "none"
         /\ \A v \in Workers : wpc[v] # "receive" /\ wmsg[v] = wmsg[w] => v = w

MessageInv == LedgerShape /\ OneMessage /\ SessionFresh /\ DeliveredOnce

\* What a worker that has a message does to the queue, the ledger and the jobs.
OwnQueue == available' \subseteq available /\ inflight' \subseteq inflight

OwnLedger(w) ==
  \A m \in Msgs : /\ m # wmsg[w] => ledger'[m] = ledger[m]
                  /\ ledger'[m].state = "none" => ledger[m].state = "none"

OwnJob(w) ==
  /\ wpc[w] # "receive"
  /\ wpc'[w] # "receive" => wmsg'[w] = wmsg[w]
  /\ wpc'[w] \in {"lock", "begin"} => wpc[w] = "lock" /\ UNCHANGED ledger
  /\ \A v \in Workers \ {w} : SameJob(v)

\* The records of the ledger only move forward.
LEMMA LedgerForward ==
  ASSUME LedgerTypeOK, NEW n, NEW a,
         BeginProcessing(n) \/ CompleteProcessing(n, a) \/ ProcessingExpires(n) \/ UNCHANGED ledger
  PROVE  \A m \in Msgs : /\ m # n => ledger'[m] = ledger[m]
                         /\ ledger'[m].state = "none" => ledger[m].state = "none"
<1>1. CASE BeginProcessing(n)
  BY <1>1 DEF BeginProcessing, LedgerTypeOK, LedgerRecord
<1>2. CASE CompleteProcessing(n, a)
  BY <1>2 DEF CompleteProcessing, LedgerTypeOK, LedgerRecord
<1>3. CASE ProcessingExpires(n)
  BY <1>3 DEF ProcessingExpires, LedgerTypeOK, LedgerRecord
<1>4. QED
  BY <1>1, <1>2, <1>3

\* The ledger operations keep the shape of its records, and an expired lease
\* leaves a trace.
LEMMA LedgerShapeKept ==
  ASSUME LedgerTypeOK, LedgerShape, NEW n, NEW a,
         BeginProcessing(n) \/ CompleteProcessing(n, a) \/ ProcessingExpires(n) \/ UNCHANGED ledger
  PROVE  LedgerShape' /\ \A m \in Msgs : LeaseExpired(m) => LeaseExpired(m)'
<1> USE ConstantFacts DEF LedgerShape, LeaseExpired, LedgerTypeOK, LedgerRecord, Attempts
<1>1. CASE BeginProcessing(n)
  <2>1. ASSUME NEW m \in Msgs, m = n
        PROVE  ledger'[m].state = "processing" /\ ledger'[m].attempt = ledger[m].attempt + 1
    BY <1>1, <2>1 DEF BeginProcessing
  <2>2. ASSUME NEW m \in Msgs, m # n PROVE ledger'[m] = ledger[m]
    BY <1>1, <2>2 DEF BeginProcessing
  <2>3. \A m \in Msgs : ledger[m].attempt \in Nat
    OBVIOUS
  <2>4. LedgerShape'
    <3>1. ASSUME NEW m \in Msgs, m = n PROVE ledger'[m].attempt # 0 /\ ledger'[m].state # "none"
      BY <2>1, <2>3, <3>1
    <3>2. QED
      BY <2>2, <3>1
  <2>5. ASSUME NEW m \in Msgs, LeaseExpired(m), m = n PROVE LeaseExpired(m)'
    BY <2>1, <2>3, <2>5
  <2>6. QED
    BY <2>2, <2>4, <2>5
<1>2. CASE CompleteProcessing(n, a)
  <2>1. \A m \in Msgs : /\ ledger'[m].attempt = ledger[m].attempt
                        /\ ledger'[m].expired = ledger[m].expired
                        /\ ledger'[m] # ledger[m] => m = n /\ ledger'[m].state = "committed"
    BY <1>2 DEF CompleteProcessing
  <2>2. \A m \in Msgs : m = n => ledger[m].attempt # 0
    BY <1>2 DEF CompleteProcessing, MayComplete, Committed
  <2>3. QED
    BY <2>1, <2>2
<1>3. CASE ProcessingExpires(n)
  <2>1. \A m \in Msgs : /\ ledger'[m].attempt = ledger[m].attempt
                        /\ ledger'[m].state = ledger[m].state
                        /\ ledger'[m] # ledger[m] => ledger'[m].expired /\ ledger[m].state = "processing"
    BY <1>3 DEF ProcessingExpires, Busy
  <2>2. QED
    BY <2>1
<1>4. CASE UNCHANGED ledger
  BY <1>4
<1>5. QED
  BY <1>1, <1>2, <1>3, <1>4

\* A worker receives a message, or goes on with the one it has.
LEMMA WorkerHandlesOwn ==
  ASSUME TypeInv, NEW w \in Workers, Worker(w)
  PROVE  \/ \E m \in available : WorkerReceive(w, m)
         \/ OwnQueue /\ OwnLedger(w) /\ OwnJob(w)
<1> USE DEF OwnQueue, OwnJob, SameJob, queueVars, TypeInv, TypeOK
<1>1. ASSUME UNCHANGED ledger PROVE OwnLedger(w)
  BY <1>1 DEF OwnLedger
<1>2. ASSUME wpc[w] # "receive", Return(w) PROVE OwnJob(w)
  BY <1>2 DEF Return
<1>3. CASE RLock(w) \/ LedgerSkip(w) \/ LedgerBeginStale(w)
  BY <1>1, <1>3 DEF RLock, LedgerSkip, LedgerBeginStale, Goto
<1>4. CASE LedgerBusy(w) \/ Notify(w)
  BY <1>1, <1>2, <1>4 DEF LedgerBusy, Notify
<1>5. CASE LedgerBegin(w)
  BY <1>5, LedgerForward DEF LedgerBegin, Goto, OwnLedger
<1>6. CASE LedgerBeginFails(w)
  BY <1>2, <1>6, LedgerForward DEF LedgerBeginFails, OwnLedger
<1>7. ASSUME NEW s \in Servers, PrepareAnswers(w, s) \/ CommitAnswers(w, s)
      PROVE  OwnQueue /\ OwnLedger(w) /\ OwnJob(w)
  BY <1>1, <1>7 DEF PrepareAnswers, CommitAnswers, Answered, Goto
<1>8. ASSUME NEW s \in Servers, PrepareFails(w, s) \/ CommitUnknown(w, s) \/ CommitFails(w, s)
      PROVE  OwnQueue /\ OwnLedger(w) /\ OwnJob(w)
  BY <1>1, <1>2, <1>8 DEF PrepareFails, CommitUnknown, CommitFails
<1>9. CASE LedgerComplete(w)
  BY <1>1, <1>2, <1>9, LedgerForward DEF LedgerComplete, Goto, OwnLedger
<1>10. CASE LedgerCompleteFails(w)
  BY <1>2, <1>10, LedgerForward DEF LedgerCompleteFails, OwnLedger
<1>11. CASE AckAnswers(w)
  BY <1>1, <1>11 DEF AckAnswers, Ack, Goto
<1>12. CASE AckFails(w)
  BY <1>1, <1>2, <1>12 DEF AckFails, Ack
<1>13. QED
  BY <1>3, <1>4, <1>5, <1>6, <1>7, <1>8, <1>9, <1>10, <1>11, <1>12 DEF Worker

\* MessageInv reads these variables only.
LEMMA MessageInvFrame ==
  ASSUME MessageInv, UNCHANGED <<ledger, sessions, admitted, queueVars, workerVars>>,
         faults' = 0 => faults = 0
  PROVE  MessageInv'
<1>1. \A m : Known(m)' = Known(m)
  BY DEF Known, queueVars, workerVars
<1>2. OneMessage'
  BY <1>1 DEF MessageInv, OneMessage, Calm
<1>3. QED
  BY <1>2 DEF MessageInv, LedgerShape, SessionFresh, DeliveredOnce, queueVars, workerVars

\* Upload3 enqueues the first message of its upload.
LEMMA Upload3KeepsMessageInv ==
  ASSUME TypeInv, MessageInv, NEW u \in Uploads, Upload3(u),
         UNCHANGED <<ledger, workerVars, faults>>
  PROVE  MessageInv'
<1> DEFINE new == [uuid |-> u, epoch |-> epoch.id]
<1>1. new \in Msgs /\ new.uuid = u
  BY ConstantFacts DEF Upload3, TypeInv, TypeOK, ControlTypeOK, Msgs, EpochIDs
<1>2. available' = available \cup {new} /\ UNCHANGED <<inflight, admitted>>
  BY DEF Upload3, Enqueue
<1>3. \A v \in Uploads : sessions'[v] = IF v = u THEN "none" ELSE sessions[v]
  BY DEF Upload3, TypeInv, TypeOK, ControlTypeOK
<1>4. sessions[u] # "none" /\ admitted[u] # 0
  BY DEF Upload3, MessageInv, SessionFresh
<1> HIDE DEF new
<1>5. \A m \in Msgs : Known(m)' => Known(m) \/ m = new
  BY <1>2 DEF Known, workerVars
<1>6. Calm => \A m \in Msgs : Known(m) => m.uuid # u
  BY <1>4 DEF MessageInv, OneMessage
<1>7. OneMessage'
  <2> SUFFICES ASSUME Calm, NEW m \in Msgs, Known(m)'
               PROVE  /\ sessions'[m.uuid] = "none"
                      /\ admitted'[m.uuid] # 0
                      /\ \A n \in Msgs : Known(n)' /\ n.uuid = m.uuid => n = m
    BY DEF OneMessage, Calm
  <2>1. m.uuid \in Uploads
    BY DEF Msgs
  <2>2. CASE m = new
    BY <1>1, <1>2, <1>3, <1>4, <1>5, <1>6, <2>2
  <2>3. CASE Known(m) /\ m # new
    <3>1. m.uuid # u /\ sessions[m.uuid] = "none" /\ admitted[m.uuid] # 0
      BY <1>6, <2>3 DEF MessageInv, OneMessage
    <3>2. \A n \in Msgs : Known(n)' /\ n.uuid = m.uuid => n = m
      BY <1>1, <1>5, <2>3, <3>1 DEF MessageInv, OneMessage
    <3>3. QED
      BY <1>2, <1>3, <2>1, <3>1, <3>2
  <2>4. QED
    BY <1>5, <2>2, <2>3
<1>8. SessionFresh'
  BY <1>2, <1>3 DEF MessageInv, SessionFresh
<1>9. DeliveredOnce'
  <2>1. Calm => ~Known(new)
    BY <1>1, <1>6
  <2>2. QED
    BY <1>1, <1>2, <2>1 DEF MessageInv, DeliveredOnce, Known, Calm, workerVars
<1>10. QED
  BY <1>7, <1>8, <1>9 DEF MessageInv, LedgerShape

\* Every command of the control loop keeps MessageInv.
LEMMA ControlKeepsMessageInv ==
  ASSUME TypeInv, SessionInv, MessageInv, Control
  PROVE  MessageInv'
<1> USE DEF OutsideControl
<1>1. UNCHANGED <<ledger, workerVars>>
  BY DEF Control
<1>2. ASSUME NEW u \in Uploads, Upload1(u), UNCHANGED <<queueVars, faults>> PROVE MessageInv'
  <2>1. starts # 0
    BY <1>2, ConstantFacts DEF Upload1, SessionInv, RunNumbers, Open, Runs
  <2>2. \A v \in Uploads : /\ sessions'[v] = IF v = u THEN "admitted" ELSE sessions[v]
                           /\ admitted'[v] = IF v = u THEN starts ELSE admitted[v]
    BY <1>2 DEF Upload1, TypeInv, TypeOK, ControlTypeOK
  <2>3. SessionFresh'
    BY <2>1, <2>2 DEF MessageInv, SessionFresh
  <2>4. \A m : Known(m)' = Known(m)
    BY <1>1, <1>2 DEF Known, queueVars, workerVars
  <2>5. OneMessage'
    <3>1. \A m \in Msgs : m.uuid \in Uploads
      BY DEF Msgs
    <3>2. Calm => \A m \in Msgs : Known(m) => m.uuid # u
      BY <1>2 DEF Upload1, MessageInv, OneMessage
    <3>3. QED
      BY <1>2, <2>2, <2>4, <3>1, <3>2 DEF MessageInv, OneMessage, Calm
  <2>6. QED
    BY <1>1, <1>2, <2>3, <2>5 DEF MessageInv, LedgerShape, DeliveredOnce, queueVars, workerVars
<1>3. ASSUME NEW u \in Uploads, Upload2(u), UNCHANGED <<queueVars, faults>> PROVE MessageInv'
  <2>1. \A v \in Uploads : sessions'[v] = IF v = u THEN "challenged" ELSE sessions[v]
    BY <1>3 DEF Upload2, TypeInv, TypeOK, ControlTypeOK
  <2>2. sessions[u] # "none" /\ UNCHANGED admitted
    BY <1>3 DEF Upload2, historyVars
  <2>3. \A m : Known(m)' = Known(m)
    BY <1>1, <1>3 DEF Known, queueVars, workerVars
  <2>4. \A m \in Msgs : m.uuid \in Uploads
    BY DEF Msgs
  <2>5. OneMessage'
    BY <1>3, <2>1, <2>2, <2>3, <2>4 DEF MessageInv, OneMessage, Calm
  <2>6. SessionFresh'
    BY <2>1, <2>2 DEF MessageInv, SessionFresh
  <2>7. QED
    BY <1>1, <1>3, <2>5, <2>6 DEF MessageInv, LedgerShape, DeliveredOnce, queueVars, workerVars
<1>4. ASSUME NEW u \in Uploads, Upload3Fails(u), Fault PROVE MessageInv'
  <2>1. ~Calm' /\ Backend # "memory"
    BY <1>4 DEF Upload3Fails, Fault, Calm, TypeInv, TypeOK
  <2>2. UNCHANGED <<sessions, admitted>>
    BY <1>4 DEF Upload3Fails, controlVars, historyVars
  <2>3. QED
    BY <1>1, <2>1, <2>2 DEF MessageInv, OneMessage, LedgerShape, SessionFresh, DeliveredOnce
<1>5. ASSUME UNCHANGED <<sessions, admitted, queueVars, faults>> PROVE MessageInv'
  BY <1>1, <1>5, MessageInvFrame
<1>6. ASSUME UNCHANGED <<queueVars, faults>>,
             \/ PeerConnections("ready")
             \/ PeerConnections("failed")
             \/ \E id \in RequestIDs : StartEpoch(id)
             \/ \E id \in EpochIDs : AbortEpoch(id)
             \/ \E r \in Runs : TimerFires(r) \/ BeginEpochMerge(r) \/ CompleteEpochMerge(r, path)
      PROVE  MessageInv'
  BY <1>5, <1>6 DEF PeerConnections, StartEpoch, AbortEpoch, TimerFires, BeginEpochMerge,
                    CompleteEpochMerge, historyVars
<1>7. QED
  BY <1>1, <1>2, <1>3, <1>4, <1>6, Upload3KeepsMessageInv DEF Control

\* A step adds to the failures or leaves their number alone.
LEMMA FaultsGrow ==
  ASSUME TypeInv, [Next]_vars
  PROVE  (UNCHANGED faults \/ Fault) /\ (faults' = 0 => faults = 0)
<1>1. UNCHANGED faults \/ Fault
  <2>1. CASE Control
    BY <2>1 DEF Control
  <2>2. ASSUME NEW w \in Workers, Worker(w) PROVE UNCHANGED faults \/ Fault
    BY <2>2 DEF Worker, WorkerReceive, RLock, LedgerBegin, LedgerSkip, LedgerBusy,
                LedgerBeginStale, LedgerBeginFails, PrepareAnswers, PrepareFails, CommitAnswers,
                CommitUnknown, CommitFails, LedgerComplete, LedgerCompleteFails, AckAnswers,
                AckFails, Notify
  <2>3. ASSUME NEW r \in Runs, Finisher(r) PROVE UNCHANGED faults \/ Fault
    BY <2>3 DEF Finisher, LockPublishing, LockGranted, MergeDump, PublishResult, MergeFails
  <2>4. CASE Timeouts \/ (\E c \in late : LateCall(c)) \/ UNCHANGED vars
    BY <2>4 DEF Timeouts, LateCall, vars
  <2>5. QED
    BY <2>1, <2>2, <2>3, <2>4 DEF Next
<1>2. QED
  BY <1>1 DEF Fault, TypeInv, TypeOK

\* Every step of a worker keeps MessageInv.
LEMMA WorkerKeepsMessageInv ==
  ASSUME TypeInv, MessageInv, NEW w \in Workers, Worker(w), faults' = 0 => faults = 0
  PROVE  MessageInv'
<1>1. UNCHANGED <<sessions, admitted>>
  BY WorkerEffect DEF controlVars, historyVars, IngestionQueueDrained
<1>2. Calm' => Calm
  BY DEF Calm
<1>3. ASSUME \A m \in Msgs : Known(m)' => Known(m) PROVE OneMessage'
  BY <1>1, <1>2, <1>3 DEF MessageInv, OneMessage
<1>4. SessionFresh'
  BY <1>1 DEF MessageInv, SessionFresh
<1>5. ASSUME NEW m \in available, WorkerReceive(w, m) PROVE MessageInv'
  <2>1. m \in Msgs /\ UNCHANGED ledger
    BY <1>5 DEF WorkerReceive, TypeInv, TypeOK, QueueTypeOK
  <2>2. /\ available' = available \ {m}
        /\ inflight' = inflight \cup {m}
        /\ wpc'[w] = "lock" /\ wmsg'[w] = m
        /\ \A v \in Workers \ {w} : wpc'[v] = wpc[v] /\ wmsg'[v] = wmsg[v]
    BY <1>5 DEF WorkerReceive, Receive, Goto, TypeInv, TypeOK
  <2>3. OneMessage'
    BY <1>3, <1>5, <2>1, <2>2 DEF Known
  <2>4. DeliveredOnce'
    BY <1>5, <2>1, <2>2 DEF MessageInv, DeliveredOnce
  <2>5. QED
    BY <1>4, <2>1, <2>3, <2>4 DEF MessageInv, LedgerShape
<1>6. CASE OwnQueue /\ OwnLedger(w) /\ OwnJob(w)
  <2>1. wmsg[w] \in Msgs
    BY <1>6 DEF OwnJob, TypeInv, WorkerHasMsg
  <2>2. \A v \in Workers : wpc'[v] # "receive" => wpc[v] # "receive" /\ wmsg'[v] = wmsg[v]
    BY <1>6 DEF OwnJob, SameJob
  <2>3. \A m \in Msgs : Known(m)' => Known(m)
    <3>1. ASSUME NEW m \in Msgs, ledger'[m].state # "none" PROVE Known(m)
      BY <1>6, <3>1 DEF OwnLedger, OwnJob, Known
    <3>2. QED
      BY <1>6, <2>2, <3>1 DEF Known, OwnQueue
  <2>4. DeliveredOnce'
    <3> SUFFICES ASSUME Backend = "memory" PROVE DeliveredOnce'
      BY DEF DeliveredOnce
    <3>1. ASSUME NEW m \in available' PROVE ledger'[m].state = "none"
      BY <1>6, <3>1 DEF MessageInv, DeliveredOnce, OwnQueue, OwnLedger, OwnJob, TypeInv, TypeOK, QueueTypeOK
    <3>2. ASSUME NEW v \in Workers, wpc'[v] # "receive"
          PROVE  /\ wmsg'[v] \notin available'
                 /\ \A x \in Workers : wpc'[x] # "receive" /\ wmsg'[x] = wmsg'[v] => x = v
      BY <1>6, <2>2, <3>2 DEF MessageInv, DeliveredOnce, OwnQueue
    <3>3. ASSUME NEW v \in Workers, wpc'[v] \in {"lock", "begin"}
          PROVE  ledger'[wmsg'[v]].state = "none"
      <4>1. CASE v = w
        BY <1>6, <3>3, <4>1 DEF OwnJob, MessageInv, DeliveredOnce
      <4>2. CASE v # w
        <5>1. wpc[v] \in {"lock", "begin"} /\ wmsg'[v] = wmsg[v]
          BY <1>6, <3>3, <4>2 DEF OwnJob, SameJob
        <5>2. wmsg[v] # wmsg[w] /\ wmsg[v] \in Msgs /\ ledger[wmsg[v]].state = "none"
          BY <1>6, <4>2, <5>1 DEF OwnJob, MessageInv, DeliveredOnce, TypeInv, WorkerHasMsg
        <5>3. QED
          BY <1>6, <5>1, <5>2 DEF OwnLedger
      <4>3. QED
        BY <4>1, <4>2
    <3>4. QED
      BY <3>1, <3>2, <3>3 DEF DeliveredOnce
  <2>5. LedgerShape'
    <3>1. \/ BeginProcessing(wmsg[w])
          \/ CompleteProcessing(wmsg[w], lease[w])
          \/ UNCHANGED ledger
      BY <1>6 DEF Worker, WorkerReceive, RLock, LedgerBegin, LedgerSkip, LedgerBusy,
                  LedgerBeginStale, LedgerBeginFails, PrepareAnswers, PrepareFails, CommitAnswers,
                  CommitUnknown, CommitFails, LedgerComplete, LedgerCompleteFails, AckAnswers,
                  AckFails, Notify
    <3>2. QED
      BY <3>1, LedgerShapeKept DEF MessageInv, TypeInv, TypeOK
  <2>6. QED
    BY <1>3, <1>4, <2>3, <2>4, <2>5 DEF MessageInv
<1>7. QED
  BY <1>5, <1>6, WorkerHandlesOwn

\* An upload has at most one message, and the memory queue hands it out once.
THEOREM MessageInvariant == Spec => []MessageInv
<1>1. Init => MessageInv
  BY DEF Init, QueueInit, LedgerInit, ControlInit, MessageInv, LedgerShape, OneMessage, Known,
         SessionFresh, DeliveredOnce
<1>2. TypeInv /\ SessionInv /\ MessageInv /\ [Next]_vars => MessageInv'
  <2> SUFFICES ASSUME TypeInv, SessionInv, MessageInv, [Next]_vars PROVE MessageInv'
    OBVIOUS
  <2>1. faults' = 0 => faults = 0
    BY FaultsGrow
  <2>2. CASE (\E r \in Runs : Finisher(r)) \/ (\E c \in late : LateCall(c)) \/ UNCHANGED vars
    <3>1. UNCHANGED <<ledger, sessions, admitted, queueVars, workerVars>>
      BY <2>2 DEF Finisher, LockPublishing, LockGranted, MergeDump, PublishResult, MergeFails,
                  FinGoto, LateCall, controlVars, historyVars, vars
    <3>2. QED
      BY <2>1, <3>1, MessageInvFrame
  <2>3. ASSUME NEW m \in inflight, VisibilityTimeout(m),
               UNCHANGED <<ledger, controlVars, workerVars, faults>>
        PROVE  MessageInv'
    <3>1. \A n : Known(n)' => Known(n)
      BY <2>3 DEF VisibilityTimeout, Known, workerVars
    <3>2. Backend # "memory"
      BY <2>3 DEF VisibilityTimeout
    <3>3. UNCHANGED <<sessions, admitted>>
      BY <2>3 DEF controlVars, historyVars
    <3>4. QED
      BY <2>3, <3>1, <3>2, <3>3 DEF MessageInv, LedgerShape, OneMessage, Calm, SessionFresh, DeliveredOnce
  <2>4. ASSUME NEW m \in Msgs, ProcessingExpires(m),
               UNCHANGED <<queueVars, controlVars, workerVars, faults>>
        PROVE  MessageInv'
    <3>1. LedgerShape'
      BY <2>4, LedgerShapeKept DEF MessageInv, TypeInv, TypeOK
    <3>2. \A n \in Msgs : ledger'[n].state = ledger[n].state
      BY <2>4 DEF ProcessingExpires, TypeInv, TypeOK, LedgerTypeOK, LedgerRecord
    <3>3. \A n \in Msgs : Known(n)' = Known(n)
      BY <2>4, <3>2 DEF Known, queueVars, workerVars
    <3>4. UNCHANGED <<sessions, admitted>>
      BY <2>4 DEF controlVars, historyVars
    <3>5. DeliveredOnce'
      BY <2>4, <3>2 DEF MessageInv, DeliveredOnce, queueVars, workerVars, TypeInv, TypeOK,
                        QueueTypeOK, WorkerHasMsg
    <3>6. QED
      BY <2>4, <3>1, <3>3, <3>4, <3>5 DEF MessageInv, OneMessage, Calm, SessionFresh
  <2>5. QED
    BY <2>1, <2>2, <2>3, <2>4, ControlKeepsMessageInv, WorkerKeepsMessageInv DEF Next, Timeouts
<1>3. QED
  BY <1>1, <1>2, TypeInvariant, SessionInvariant, PTL DEF Spec

-----------------------------------------------------------------------------
(***************************************************************************)
(* One write per upload and server.  A server may still receive a Prepare  *)
(* of the upload from a worker that awaits its answer, or as a late call;  *)
(* there is one such source at most, and none once the write is there.     *)
(***************************************************************************)

\* The upload is processed once: the queue does not redeliver, or nothing
\* failed and no processing lease of the upload expired.
Once(u) ==
  \/ Backend = "memory"
  \/ faults = 0 /\ \A m \in Msgs : m.uuid = u => ~LeaseExpired(m)

Preparing(w, u) == wpc[w] = "prepare" /\ wmsg[w].uuid = u

LatePrepares(s, u) == {c \in late : c.kind = "prepare" /\ c.server = s /\ c.msg.uuid = u}

\* No worker was ever granted the processing of the upload.
Untried(u) == \A m \in Msgs : m.uuid = u => ledger[m].state = "none"

NothingSent(u) ==
  /\ \A s \in Servers : writes[s][u] = 0 /\ LatePrepares(s, u) = {}
  /\ \A w \in Workers : ~Preparing(w, u)

OneSource(s, u) ==
  /\ writes[s][u] \in {0, 1}
  /\ writes[s][u] = 1 => LatePrepares(s, u) = {}
  /\ \A c, d \in LatePrepares(s, u) : c = d
  /\ \A w \in Workers : Preparing(w, u) /\ s \in todo[w] =>
       writes[s][u] = 0 /\ LatePrepares(s, u) = {}

WrittenOnce(u) ==
  /\ Untried(u) => NothingSent(u)
  /\ \A v, w \in Workers : Preparing(v, u) /\ Preparing(w, u) => v = w
  /\ \A s \in Servers : OneSource(s, u)

OnceInv == \A u \in Uploads : Once(u) => WrittenOnce(u)

\* A step that sends no Prepare of the upload.
Quiet(u) ==
  /\ \A s \in Servers : writes'[s][u] = writes[s][u] /\ LatePrepares(s, u)' \subseteq LatePrepares(s, u)
  /\ \A w \in Workers : Preparing(w, u)' => Preparing(w, u) /\ todo'[w] \subseteq todo[w]
  /\ Untried(u)' => Untried(u)

LEMMA QuietKeepsOnce ==
  ASSUME NEW u \in Uploads, WrittenOnce(u), Quiet(u)
  PROVE  WrittenOnce(u)'
<1>1. Untried(u)' => NothingSent(u)'
  BY DEF WrittenOnce, Quiet, NothingSent
<1>2. \A v, w \in Workers : Preparing(v, u)' /\ Preparing(w, u)' => v = w
  BY DEF WrittenOnce, Quiet
<1>3. ASSUME NEW s \in Servers PROVE OneSource(s, u)'
  BY DEF WrittenOnce, Quiet, OneSource
<1>4. QED
  BY <1>1, <1>2, <1>3 DEF WrittenOnce

\* What a step may do to the ledger.
LEMMA LedgerStep ==
  ASSUME [Next]_vars
  PROVE  \E n, a : \/ BeginProcessing(n)
                   \/ CompleteProcessing(n, a)
                   \/ ProcessingExpires(n)
                   \/ UNCHANGED ledger
<1>1. ASSUME NEW w \in Workers, Worker(w)
      PROVE  \/ BeginProcessing(wmsg[w])
             \/ CompleteProcessing(wmsg[w], lease[w])
             \/ UNCHANGED ledger
  BY <1>1 DEF Worker, WorkerReceive, RLock, LedgerBegin, LedgerSkip, LedgerBusy, LedgerBeginStale,
              LedgerBeginFails, PrepareAnswers, PrepareFails, CommitAnswers, CommitUnknown,
              CommitFails, LedgerComplete, LedgerCompleteFails, AckAnswers, AckFails, Notify
<1>2. CASE Control \/ (\E r \in Runs : Finisher(r)) \/ (\E c \in late : LateCall(c)) \/ UNCHANGED vars
  BY <1>2 DEF Control, OutsideControl, Finisher, LockPublishing, LockGranted, MergeDump,
              PublishResult, MergeFails, LateCall, vars
<1>3. QED
  BY <1>1, <1>2 DEF Next, Timeouts

\* The condition is only ever lost.
LEMMA OnceBefore ==
  ASSUME TypeInv, MessageInv, [Next]_vars, NEW u \in Uploads, Once(u)'
  PROVE  Once(u)
<1>1. faults' = 0 => faults = 0
  BY FaultsGrow
<1>2. \A m \in Msgs : LeaseExpired(m) => LeaseExpired(m)'
  BY LedgerStep, LedgerShapeKept DEF MessageInv, TypeInv, TypeOK
<1>3. QED
  BY <1>1, <1>2 DEF Once

\* A failing call ends the condition with SQS.
LEMMA FaultEndsOnce ==
  ASSUME TypeInv, Fault, NEW u \in Uploads, Once(u)'
  PROVE  Backend = "memory"
BY DEF Fault, Once, TypeInv, TypeOK

\* Steps of the control loop, the finishers and the environment, a late
\* Prepare excepted, send no Prepare.
LEMMA OthersAreQuiet ==
  ASSUME TypeInv, NEW u \in Uploads,
         \/ Control
         \/ \E r \in Runs : Finisher(r)
         \/ Timeouts
         \/ UNCHANGED vars
  PROVE  Quiet(u)
<1>1. UNCHANGED <<tableVars, workerVars, late>>
  BY DEF Control, OutsideControl, Finisher, LockPublishing, LockGranted, MergeDump, DumpTable,
         PublishResult, MergeFails, Timeouts, vars
<1>2. \A m \in Msgs : ledger'[m].state = "none" => ledger[m].state = "none"
  <2>1. CASE UNCHANGED ledger
    BY <2>1
  <2>2. ASSUME NEW n \in Msgs, ProcessingExpires(n)
        PROVE  \A m \in Msgs : ledger'[m].state = "none" => ledger[m].state = "none"
    BY <2>2, LedgerForward DEF TypeInv, TypeOK
  <2>3. QED
    BY <2>1, <2>2 DEF Control, OutsideControl, Finisher, LockPublishing, LockGranted, MergeDump,
                      PublishResult, MergeFails, Timeouts, vars
<1>3. QED
  BY <1>1, <1>2 DEF Quiet, tableVars, workerVars, LatePrepares, Preparing, Untried

\* A late call is quiet unless it is a Prepare of the upload that arrives.
LEMMA LateCallKeepsOnce ==
  ASSUME TypeInv, NEW u \in Uploads, WrittenOnce(u), NEW c \in late, LateCall(c)
  PROVE  WrittenOnce(u)'
<1>1. c.server \in Servers /\ c.msg.uuid \in Uploads
  BY DEF TypeInv, TypeOK, Calls, Msgs
<1>2. UNCHANGED <<ledger, workerVars>> /\ late' = late \ {c}
  BY DEF LateCall
<1>3. \A s \in Servers : LatePrepares(s, u)' = LatePrepares(s, u) \ {c}
  BY <1>2 DEF LatePrepares
<1>4. ASSUME \A s \in Servers : writes'[s][u] = writes[s][u] PROVE Quiet(u)
  BY <1>2, <1>3, <1>4 DEF Quiet, workerVars, Preparing, Untried
<1>5. CASE UNCHANGED writes
  BY <1>4, <1>5, QuietKeepsOnce
<1>6. CASE c.kind = "prepare" /\ Prepare(c.server, c.msg.uuid) /\ c.msg.uuid # u
  <2>1. \A s \in Servers : writes'[s][u] = writes[s][u]
    BY <1>1, <1>6 DEF Prepare, TypeInv, TypeOK, TablesTypeOK
  <2>2. QED
    BY <1>4, <2>1, QuietKeepsOnce
<1>7. CASE c.kind = "prepare" /\ Prepare(c.server, u) /\ c.msg.uuid = u
  <2>1. c \in LatePrepares(c.server, u)
    BY <1>7 DEF LatePrepares
  <2>2. writes[c.server][u] = 0 /\ ~Untried(u)
    BY <1>1, <2>1 DEF WrittenOnce, OneSource, NothingSent
  <2>3. \A s \in Servers : writes'[s][u] = IF s = c.server THEN 1 ELSE writes[s][u]
    BY <1>1, <1>7, <2>2 DEF Prepare, TypeInv, TypeOK, TablesTypeOK
  <2>4. \A d \in LatePrepares(c.server, u) : d = c
    BY <1>1, <2>1 DEF WrittenOnce, OneSource
  <2>5. \A w \in Workers : Preparing(w, u) => c.server \notin todo[w]
    BY <1>1, <2>1 DEF WrittenOnce, OneSource
  <2>6. \A w \in Workers : Preparing(w, u)' = Preparing(w, u) /\ todo'[w] = todo[w]
    BY <1>2 DEF workerVars, Preparing
  <2>7. ASSUME NEW s \in Servers PROVE OneSource(s, u)'
    BY <1>3, <2>3, <2>4, <2>5, <2>6 DEF WrittenOnce, OneSource
  <2>8. ~Untried(u)'
    BY <1>2, <2>2 DEF Untried
  <2>9. QED
    BY <2>6, <2>7, <2>8 DEF WrittenOnce
<1>8. QED
  BY <1>5, <1>6, <1>7 DEF LateCall, Commit, tableVars

\* A worker that neither awaits a Prepare afterwards nor leaves one behind.
LEMMA WorkerIsQuiet ==
  ASSUME NEW w \in Workers, NEW u \in Uploads, UNCHANGED writes,
         \A s \in Servers : LatePrepares(s, u)' = LatePrepares(s, u),
         \A v \in Workers \ {w} : SameJob(v), ~Preparing(w, u)',
         \A m \in Msgs : ledger'[m].state = "none" => ledger[m].state = "none"
  PROVE  Quiet(u)
BY DEF Quiet, SameJob, Preparing, Untried

\* The ledger grants the processing of the upload: nothing was sent before.
LEMMA LedgerBeginKeepsOnce ==
  ASSUME TypeInv, MessageInv, NEW w \in Workers, LedgerBegin(w), NEW u \in Uploads,
         Once(u)', Once(u), WrittenOnce(u), wmsg[w].uuid = u
  PROVE  WrittenOnce(u)'
<1> PICK m \in Msgs : m = wmsg[w]
  BY DEF LedgerBegin, TypeInv, WorkerHasMsg
<1>1. wpc[w] = "begin" /\ BeginProcessing(m) /\ UNCHANGED <<writes, late>>
  BY DEF LedgerBegin, tableVars
<1>2. \A v \in Workers : /\ wmsg'[v] = wmsg[v]
                         /\ v # w => wpc'[v] = wpc[v]
  BY DEF LedgerBegin, Goto, TypeInv, TypeOK
<1>3. \A n \in Msgs : n.uuid = u /\ n # m => ledger[n].state = "none"
  <2>1. Calm /\ Known(m)
    BY <1>1 DEF Once, Calm, Known
  <2>2. QED
    BY <1>1, <2>1 DEF MessageInv, OneMessage, Known
<1>4. ledger'[m].attempt = ledger[m].attempt + 1 /\ ledger'[m].state = "processing"
  BY <1>1 DEF BeginProcessing, TypeInv, TypeOK, LedgerTypeOK
<1>5. ledger[m].state = "none"
  <2>1. CASE Backend = "memory"
    BY <1>1, <2>1 DEF MessageInv, DeliveredOnce
  <2>2. CASE ~LeaseExpired(m)'
    <3>1. ~(ledger[m].attempt + 1 > 1) /\ ledger[m].attempt \in Nat
      BY <1>1, <1>4, <2>2, ConstantFacts DEF LeaseExpired, TypeInv, TypeOK, LedgerTypeOK, LedgerRecord, Attempts
    <3>2. ledger[m].attempt = 0
      BY <3>1
    <3>3. QED
      BY <1>1, <3>2 DEF MessageInv, LedgerShape
  <2>3. QED
    BY <1>1, <2>1, <2>2 DEF Once
<1>6. NothingSent(u)
  BY <1>3, <1>5 DEF Untried, WrittenOnce
<1>7. ~Untried(u)'
  BY <1>1, <1>4 DEF Untried
<1>8. \A v \in Workers : Preparing(v, u)' => v = w
  BY <1>2, <1>6 DEF NothingSent, Preparing
<1>9. ASSUME NEW s \in Servers PROVE OneSource(s, u)'
  <2>1. writes'[s][u] = 0 /\ LatePrepares(s, u)' = {}
    BY <1>1, <1>6 DEF NothingSent, LatePrepares
  <2>2. QED
    BY <2>1 DEF OneSource
<1>10. QED
  BY <1>7, <1>8, <1>9 DEF WrittenOnce

\* A Prepare is answered: the write is there, and this was its only source.
LEMMA PrepareAnswersKeepsOnce ==
  ASSUME TypeInv, NEW w \in Workers, NEW s \in Servers, PrepareAnswers(w, s), NEW u \in Uploads,
         WrittenOnce(u), wmsg[w].uuid = u
  PROVE  WrittenOnce(u)'
<1>1. Preparing(w, u) /\ s \in todo[w] /\ Prepare(s, u) /\ UNCHANGED <<ledger, late, wmsg>>
  BY DEF PrepareAnswers, Preparing
<1>2. writes[s][u] = 0 /\ LatePrepares(s, u) = {}
  BY <1>1 DEF WrittenOnce, OneSource
<1>3. \A t \in Servers : /\ writes'[t][u] = IF t = s THEN 1 ELSE writes[t][u]
                         /\ LatePrepares(t, u)' = LatePrepares(t, u)
  BY <1>1, <1>2 DEF Prepare, TypeInv, TypeOK, TablesTypeOK, LatePrepares
<1>4. \A v \in Workers : v # w => wpc'[v] = wpc[v] /\ todo'[v] = todo[v]
  BY DEF PrepareAnswers, Answered, Goto, TypeInv, TypeOK
<1>5. wpc'[w] = "prepare" => todo'[w] = todo[w] \ {s}
  BY <1>1 DEF PrepareAnswers, Answered, Goto, TypeInv, TypeOK
<1>6. \A v \in Workers : Preparing(v, u)' => v = w /\ todo'[v] = todo[v] \ {s}
  BY <1>1, <1>4, <1>5 DEF WrittenOnce, Preparing
<1>7. ~Untried(u)'
  BY <1>1 DEF WrittenOnce, NothingSent, Untried
<1>8. ASSUME NEW t \in Servers PROVE OneSource(t, u)'
  BY <1>1, <1>2, <1>3, <1>6 DEF WrittenOnce, OneSource
<1>9. QED
  BY <1>6, <1>7, <1>8 DEF WrittenOnce

\* A Prepare fails: the calls under way become the only source.
LEMMA PrepareFailsKeepsOnce ==
  ASSUME TypeInv, NEW w \in Workers, NEW s \in Servers, PrepareFails(w, s), NEW u \in Uploads,
         WrittenOnce(u), wmsg[w].uuid = u
  PROVE  WrittenOnce(u)'
<1>1. Preparing(w, u) /\ UNCHANGED <<ledger, writes>>
  BY DEF PrepareFails, Preparing, tableVars
<1>2. \A v \in Workers : ~Preparing(v, u)'
  <2>1. wpc'[w] = "receive" /\ \A v \in Workers \ {w} : wpc'[v] = wpc[v] /\ wmsg'[v] = wmsg[v]
    BY DEF PrepareFails, Return, TypeInv, TypeOK
  <2>2. QED
    BY <1>1, <2>1 DEF WrittenOnce, Preparing
<1>3. ~Untried(u)'
  BY <1>1 DEF WrittenOnce, NothingSent, Untried
<1>4. ASSUME NEW t \in Servers PROVE OneSource(t, u)'
  <2> DEFINE call == [kind |-> "prepare", server |-> t, msg |-> wmsg[w], attempt |-> lease[w]]
  <2>1. LatePrepares(t, u)' \subseteq LatePrepares(t, u) \cup {call}
    BY DEF PrepareFails, Abandoned, LatePrepares
  <2>2. t \notin todo[w] => LatePrepares(t, u)' \subseteq LatePrepares(t, u)
    BY DEF PrepareFails, Abandoned, LatePrepares
  <2>3. t \in todo[w] => writes[t][u] = 0 /\ LatePrepares(t, u) = {}
    BY <1>1 DEF WrittenOnce, OneSource
  <2>4. OneSource(t, u)
    BY DEF WrittenOnce
  <2>5. QED
    BY <1>1, <1>2, <2>1, <2>2, <2>3, <2>4 DEF OneSource
<1>5. QED
  BY <1>2, <1>3, <1>4 DEF WrittenOnce

\* Every step of a worker keeps the single source.
LEMMA WorkerKeepsOnce ==
  ASSUME TypeInv, MessageInv, NEW w \in Workers, Worker(w), NEW u \in Uploads,
         Once(u)', Once(u), WrittenOnce(u)
  PROVE  WrittenOnce(u)'
<1> USE DEF tableVars
<1>1. /\ \A m \in Msgs : ledger'[m].state = "none" => ledger[m].state = "none"
      /\ \A v \in Workers \ {w} : SameJob(v)
  <2>1. CASE OwnLedger(w) /\ OwnJob(w)
    BY <2>1 DEF OwnLedger, OwnJob
  <2>2. ASSUME NEW m \in available, WorkerReceive(w, m)
        PROVE  UNCHANGED ledger /\ \A v \in Workers \ {w} : SameJob(v)
    BY <2>2 DEF WorkerReceive, Goto, SameJob, TypeInv, TypeOK
  <2>3. QED
    BY <2>1, <2>2, WorkerHandlesOwn
<1>2. ASSUME UNCHANGED writes, \A s \in Servers : LatePrepares(s, u)' = LatePrepares(s, u),
             ~Preparing(w, u)'
      PROVE  WrittenOnce(u)'
  BY <1>1, <1>2, WorkerIsQuiet, QuietKeepsOnce
<1>3. ASSUME UNCHANGED <<writes, late>>, wpc'[w] # "prepare" PROVE WrittenOnce(u)'
  BY <1>2, <1>3 DEF LatePrepares, Preparing
<1>4. ASSUME Return(w) PROVE wpc'[w] = "receive"
  BY <1>4 DEF Return, TypeInv, TypeOK
<1>5. ASSUME NEW m \in available, WorkerReceive(w, m) PROVE WrittenOnce(u)'
  BY <1>3, <1>5 DEF WorkerReceive, Goto, TypeInv, TypeOK
<1>6. CASE RLock(w) \/ LedgerSkip(w) \/ AckAnswers(w)
  BY <1>3, <1>6 DEF RLock, LedgerSkip, AckAnswers, Goto, TypeInv, TypeOK
<1>7. CASE LedgerBusy(w) \/ LedgerBeginFails(w) \/ LedgerCompleteFails(w) \/ AckFails(w) \/ Notify(w)
  BY <1>3, <1>4, <1>7 DEF LedgerBusy, LedgerBeginFails, LedgerCompleteFails, AckFails, Notify
<1>8. CASE LedgerComplete(w)
  BY <1>3, <1>4, <1>8 DEF LedgerComplete, Goto, TypeInv, TypeOK
<1>9. ASSUME NEW s \in Servers, CommitAnswers(w, s) PROVE WrittenOnce(u)'
  BY <1>3, <1>9 DEF CommitAnswers, Commit, Answered, Goto, TypeInv, TypeOK
<1>10. ASSUME NEW s \in Servers, CommitUnknown(w, s) \/ CommitFails(w, s) PROVE WrittenOnce(u)'
  <2>1. UNCHANGED writes /\ wpc'[w] = "receive"
    BY <1>4, <1>10 DEF CommitUnknown, CommitFails
  <2>2. \A t \in Servers : LatePrepares(t, u)' = LatePrepares(t, u)
    BY <1>10 DEF CommitUnknown, CommitFails, Abandoned, LatePrepares
  <2>3. QED
    BY <1>2, <2>1, <2>2 DEF Preparing
<1>11. CASE LedgerBeginStale(w)
  BY <1>11, FaultEndsOnce DEF LedgerBeginStale, ReadsExpiredLease
<1>12. CASE LedgerBegin(w)
  <2>1. UNCHANGED <<writes, late, wmsg>>
    BY <1>12 DEF LedgerBegin
  <2>2. CASE wmsg[w].uuid # u
    BY <1>2, <2>1, <2>2 DEF LatePrepares, Preparing
  <2>3. QED
    BY <1>12, <2>2, LedgerBeginKeepsOnce
<1>13. ASSUME NEW s \in Servers, PrepareAnswers(w, s) PROVE WrittenOnce(u)'
  <2>1. CASE wmsg[w].uuid # u
    <3>1. wmsg[w].uuid \in Uploads /\ UNCHANGED <<ledger, late, wmsg>>
      BY <1>13 DEF PrepareAnswers, TypeInv, WorkerHasMsg, Msgs
    <3>2. \A t \in Servers : writes'[t][u] = writes[t][u]
      BY <1>13, <2>1, <3>1 DEF PrepareAnswers, Prepare, TypeInv, TypeOK, TablesTypeOK
    <3>3. Quiet(u)
      BY <1>1, <2>1, <3>1, <3>2 DEF Quiet, LatePrepares, Preparing, SameJob, Untried
    <3>4. QED
      BY <3>3, QuietKeepsOnce
  <2>2. QED
    BY <1>13, <2>1, PrepareAnswersKeepsOnce
<1>14. ASSUME NEW s \in Servers, PrepareFails(w, s) PROVE WrittenOnce(u)'
  <2>1. CASE wmsg[w].uuid # u
    <3>1. UNCHANGED writes /\ wpc'[w] = "receive"
      BY <1>4, <1>14 DEF PrepareFails
    <3>2. \A t \in Servers : LatePrepares(t, u)' = LatePrepares(t, u)
      BY <1>14, <2>1 DEF PrepareFails, Abandoned, LatePrepares
    <3>3. QED
      BY <1>2, <3>1, <3>2 DEF Preparing
  <2>2. QED
    BY <1>14, <2>1, PrepareFailsKeepsOnce
<1>15. QED
  BY <1>5, <1>6, <1>7, <1>8, <1>9, <1>10, <1>11, <1>12, <1>13, <1>14 DEF Worker

\* An upload that is processed once is written at most once on each server.
THEOREM OnceInvariant == Spec => []OnceInv
<1>1. Init => OnceInv
  BY DEF Init, LedgerInit, TablesInit, OnceInv, WrittenOnce, NothingSent, OneSource, Preparing,
         LatePrepares
<1>2. TypeInv /\ MessageInv /\ OnceInv /\ [Next]_vars => OnceInv'
  <2> SUFFICES ASSUME TypeInv, MessageInv, OnceInv, [Next]_vars, NEW u \in Uploads, Once(u)'
               PROVE  WrittenOnce(u)'
    BY DEF OnceInv
  <2>1. Once(u) /\ WrittenOnce(u)
    BY OnceBefore DEF OnceInv
  <2>2. QED
    BY <2>1, WorkerKeepsOnce, LateCallKeepsOnce, OthersAreQuiet, QuietKeepsOnce DEF Next
<1>3. QED
  BY <1>1, <1>2, TypeInvariant, MessageInvariant, PTL DEF Spec

\* However SQS delivers, and whichever workers take a message, its write is
\* XORed at most once into each table while no call fails and no processing
\* lease of the upload expires: for any number of uploads, epochs and workers.
THEOREM WritesAtMostOnce == Spec => []AtMostOnce
<1>1. OnceInv => AtMostOnce
  BY DEF OnceInv, Once, WrittenOnce, OneSource, AtMostOnce
<1>2. QED
  BY <1>1, OnceInvariant, PTL

\* With the memory queue no failing, late or lost call, and no expired lease,
\* makes a server apply a write twice: nobody is given the message again.
MemoryWritesOnce ==
  Backend = "memory" => \A s \in Servers, u \in Uploads : writes[s][u] <= 1

\* MemoryWritesOnce holds in every reachable state.
THEOREM MemoryNeverRepeats == Spec => []MemoryWritesOnce
<1>1. OnceInv => MemoryWritesOnce
  BY DEF OnceInv, Once, WrittenOnce, OneSource, MemoryWritesOnce
<1>2. QED
  BY <1>1, OnceInvariant, PTL

-----------------------------------------------------------------------------
(***************************************************************************)
(* The publication barrier                                                 *)
(***************************************************************************)

\* amPublishingMutex: nobody processes a message while tables are dumped.
Barrier == \A r \in Runs : fin[r] = "merge" => \A w \in Workers : ~Reader(w)

\* Dumped tables are thrown away when the merge ends.
DumpsInMerge == \A s \in Servers : dump[s] # NoDump => \E r \in Runs : fin[r] = "merge"

PublishInv == Barrier /\ DumpsInMerge

SameMerges == \A r \in Runs : fin'[r] = "merge" <=> fin[r] = "merge"

\* The control loop neither starts nor ends the critical section of a merge.
LEMMA ControlKeepsMerges ==
  ASSUME ControlTypeOK, MergeInv, Control \/ IngestionQueueDrained
  PROVE  SameMerges
<1> USE DEF SameMerges
<1>1. ASSUME UNCHANGED fin PROVE SameMerges
  BY <1>1
<1>2. ASSUME NEW id \in RequestIDs, StartEpoch(id) PROVE SameMerges
  <2>1. \A r \in Runs : fin[r] # "merge"
    BY <1>2 DEF StartEpoch, MergeInv, MergeExclusive, Merger
  <2>2. QED
    BY <1>2, <2>1, ConstantFacts DEF StartEpoch, StopTimer, ControlTypeOK, Runs
<1>3. ASSUME NEW id \in EpochIDs, AbortEpoch(id) PROVE SameMerges
  BY <1>3 DEF AbortEpoch
<1>4. ASSUME NEW r \in Runs, TimerFires(r) \/ CompleteEpochMerge(r, path) PROVE SameMerges
  BY <1>4 DEF TimerFires, CompleteEpochMerge, ControlTypeOK
<1>5. ASSUME NEW r \in Runs, BeginEpochMerge(r) PROVE SameMerges
  <2>1. /\ fin[r] = "begin"
        /\ \/ fin' = [StopTimer(fin) EXCEPT ![r] = "waiting"]
           \/ fin' = [StopTimer(fin) EXCEPT ![r] = "run"]
           \/ fin' = [fin EXCEPT ![r] = "waiting"]
           \/ fin' = [fin EXCEPT ![r] = "done"]
    BY <1>5 DEF BeginEpochMerge
  <2>2. QED
    BY <2>1 DEF StopTimer, ControlTypeOK
<1>6. ASSUME NEW sess, NEW drained, StartMergeIfDrained(sess, drained) PROVE SameMerges
  BY <1>1, <1>6, StartMergeEffect DEF ReleaseWaiters
<1>7. ASSUME \/ PeerConnections("ready")
             \/ PeerConnections("failed")
             \/ \E u \in Uploads : Upload1(u) \/ Upload2(u) \/ Upload3Fails(u)
      PROVE  SameMerges
  BY <1>1, <1>7 DEF PeerConnections, Upload1, Upload2, Upload3Fails, controlVars
<1>8. QED
  BY <1>2, <1>3, <1>4, <1>5, <1>6, <1>7 DEF Control, Upload3, IngestionQueueDrained

\* A worker enters the critical section with RLock only.
LEMMA WorkerEnters ==
  ASSUME TypeInv, NEW w \in Workers, Worker(w), ~RLock(w)
  PROVE  \A v \in Workers : Reader(v)' => Reader(v)
<1>1. CASE OwnJob(w)
  <2>1. \A v \in Workers \ {w} : Reader(v)' => Reader(v)
    BY <1>1 DEF OwnJob, SameJob, Reader
  <2>2. wpc[w] # "lock"
    BY DEF Worker, WorkerReceive, RLock, LedgerBegin, LedgerSkip, LedgerBusy, LedgerBeginStale,
           LedgerBeginFails, PrepareAnswers, PrepareFails, CommitAnswers, CommitUnknown,
           CommitFails, LedgerComplete, LedgerCompleteFails, AckAnswers, AckFails, Notify
  <2>3. QED
    BY <1>1, <2>1, <2>2 DEF OwnJob, Reader
<1>2. CASE \E m \in available : WorkerReceive(w, m)
  BY <1>2 DEF WorkerReceive, Goto, Reader, TypeInv, TypeOK
<1>3. QED
  BY <1>1, <1>2, WorkerHandlesOwn

\* A worker does not touch what the merge has collected or published.
LEMMA WorkerKeepsMergeVars ==
  ASSUME NEW w \in Workers, Worker(w)
  PROVE  UNCHANGED mergeVars
BY DEF Worker, WorkerReceive, RLock, LedgerBegin, LedgerSkip, LedgerBusy, LedgerBeginStale,
       LedgerBeginFails, PrepareAnswers, PrepareFails, CommitAnswers, CommitUnknown, CommitFails,
       LedgerComplete, LedgerCompleteFails, AckAnswers, AckFails, Notify

\* While a merge collects and publishes the tables, no worker processes a
\* message: amPublishingMutex is taken by both sides, for any number of them.
THEOREM PublishInvariant == Spec => []PublishInv
<1>1. Init => PublishInv
  BY DEF Init, ControlInit, NothingDumped, PublishInv, Barrier, DumpsInMerge
<1>2. TypeInv /\ MergeInv /\ PublishInv /\ [Next]_vars => PublishInv'
  <2> SUFFICES ASSUME TypeInv, MergeInv, PublishInv, [Next]_vars PROVE PublishInv'
    OBVIOUS
  <2>1. ControlTypeOK
    BY DEF TypeInv, TypeOK
  <2>2. ASSUME SameMerges, UNCHANGED dump, \A w \in Workers : Reader(w)' => Reader(w)
        PROVE  PublishInv'
    BY <2>2 DEF SameMerges, PublishInv, Barrier, DumpsInMerge
  <2>3. ASSUME UNCHANGED fin PROVE SameMerges
    BY <2>3 DEF SameMerges
  <2>4. CASE Control
    BY <2>1, <2>2, <2>4, ControlKeepsMerges
    DEF Control, OutsideControl, mergeVars, workerVars, Reader
  <2>5. ASSUME NEW w \in Workers, Worker(w) PROVE PublishInv'
    <3>1. SameMerges /\ UNCHANGED dump
      BY <2>1, <2>3, <2>5, WorkerEffect, ControlKeepsMerges, WorkerKeepsMergeVars
      DEF controlVars, mergeVars
    <3>2. CASE RLock(w)
      BY <3>1, <3>2 DEF RLock, SameMerges, PublishInv, Barrier, DumpsInMerge
    <3>3. CASE ~RLock(w)
      BY <2>2, <2>5, <3>1, <3>3, WorkerEnters
    <3>4. QED
      BY <3>2, <3>3
  <2>6. ASSUME NEW r \in Runs, Finisher(r) PROVE PublishInv'
    <3>1. \A w \in Workers : Reader(w)' = Reader(w)
      BY <2>6 DEF Finisher, LockPublishing, LockGranted, MergeDump, PublishResult, MergeFails,
                  workerVars, Reader
    <3>2. CASE LockPublishing(r)
      BY <2>1, <3>1, <3>2 DEF LockPublishing, FinGoto, mergeVars, ControlTypeOK, PublishInv, Barrier,
                              DumpsInMerge
    <3>3. CASE LockGranted(r)
      BY <2>1, <3>1, <3>3 DEF LockGranted, FinGoto, mergeVars, ControlTypeOK, PublishInv, Barrier,
                              DumpsInMerge
    <3>4. ASSUME NEW s \in Servers, MergeDump(r, s) PROVE PublishInv'
      BY <3>1, <3>4 DEF MergeDump, controlVars, PublishInv, Barrier, DumpsInMerge
    <3>5. CASE PublishResult(r) \/ MergeFails(r)
      BY <2>1, <3>1, <3>5 DEF PublishResult, MergeFails, FinGoto, NothingDumped, ControlTypeOK,
                              PublishInv, Barrier, DumpsInMerge
    <3>6. QED
      BY <2>6, <3>2, <3>3, <3>4, <3>5 DEF Finisher
  <2>7. CASE Timeouts \/ (\E c \in late : LateCall(c)) \/ UNCHANGED vars
    BY <2>2, <2>3, <2>7 DEF Timeouts, LateCall, vars, controlVars, mergeVars, workerVars, Reader
  <2>8. QED
    BY <2>4, <2>5, <2>6, <2>7 DEF Next
<1>3. QED
  BY <1>1, <1>2, TypeInvariant, MergeInvariant, PTL DEF Spec

-----------------------------------------------------------------------------
(***************************************************************************)
(* Both servers hold the same writes, but for those that workers under way *)
(* have prepared on one server and not on the other.  Several workers may  *)
(* prepare the same upload at once, so they are counted.                   *)
(***************************************************************************)

\* Workers that prepared the upload on server s and await the other one.
Prepared(s, u) == {w \in Workers : Preparing(w, u) /\ s \notin todo[w]}

Balance(u) ==
  \A s, t \in Servers :
    writes[s][u] + Cardinality(Prepared(t, u)) = writes[t][u] + Cardinality(Prepared(s, u))

NoLatePrepare == \A c \in late : c.kind # "prepare"

BalanceInv == faults = 0 => NoLatePrepare /\ \A u \in Uploads : Balance(u)

\* Workers are finitely many, hence so are those that prepared an upload.
LEMMA PreparedFinite ==
  ASSUME NEW s, NEW u
  PROVE  IsFiniteSet(Prepared(s, u)) /\ Cardinality(Prepared(s, u)) \in Nat
<1>1. Prepared(s, u) \in SUBSET Workers
  BY DEF Prepared
<1>2. IsFiniteSet(Prepared(s, u))
  BY <1>1, WorkersAssumption, FS_Subset
<1>3. QED
  BY <1>2, FS_CardinalityType

\* Steps that change neither the tables nor who has prepared what.
LEMMA BalanceFrame ==
  ASSUME NEW u, Balance(u),
         \A s \in Servers : writes'[s][u] = writes[s][u] /\ Prepared(s, u)' = Prepared(s, u)
  PROVE  Balance(u)'
BY DEF Balance

\* An answer to Prepare adds a write at one server and a worker that waits
\* for the other, or takes away a worker that waited for this one.
LEMMA PrepareAnswersKeepsBalance ==
  ASSUME TypeInv, NEW w \in Workers, NEW s \in Servers, PrepareAnswers(w, s), NEW u \in Uploads,
         wmsg[w].uuid = u, Balance(u)
  PROVE  Balance(u)'
<1> PICK t \in Servers : t # s /\ Servers = {s, t}
  BY DEF Servers
<1>1. Preparing(w, u) /\ s \in todo[w] /\ UNCHANGED wmsg /\ todo[w] \subseteq {s, t}
  BY DEF PrepareAnswers, Preparing, TypeInv, TypeOK
<1>2. writes'[s][u] = writes[s][u] + 1 /\ writes'[t][u] = writes[t][u]
  BY DEF PrepareAnswers, Prepare, TypeInv, TypeOK, TablesTypeOK
<1>3. writes[s][u] \in Nat /\ writes[t][u] \in Nat
  BY DEF TypeInv, TypeOK, TablesTypeOK
<1>4. \A v \in Workers \ {w} : wpc'[v] = wpc[v] /\ todo'[v] = todo[v]
  BY DEF PrepareAnswers, Answered, Goto, TypeInv, TypeOK
<1>5. /\ IsFiniteSet(Prepared(s, u)) /\ Cardinality(Prepared(s, u)) \in Nat
      /\ IsFiniteSet(Prepared(t, u)) /\ Cardinality(Prepared(t, u)) \in Nat
  BY PreparedFinite
<1>6. writes[s][u] + Cardinality(Prepared(t, u)) = writes[t][u] + Cardinality(Prepared(s, u))
  BY DEF Balance
<1>7. CASE todo[w] = {s}
  <2>1. wpc'[w] = "commit"
    BY <1>7 DEF PrepareAnswers, Answered, Goto, TypeInv, TypeOK
  <2>2. w \in Prepared(t, u) /\ Prepared(t, u)' = Prepared(t, u) \ {w}
    BY <1>1, <1>4, <1>7, <2>1 DEF Prepared, Preparing
  <2>3. Prepared(s, u)' = Prepared(s, u)
    BY <1>1, <1>4, <2>1 DEF Prepared, Preparing
  <2>4. Cardinality(Prepared(t, u)') = Cardinality(Prepared(t, u)) - 1
    BY <1>5, <2>2, FS_RemoveElement
  <2>5. writes'[s][u] + Cardinality(Prepared(t, u)') = writes'[t][u] + Cardinality(Prepared(s, u)')
    BY <1>2, <1>3, <1>5, <1>6, <2>3, <2>4
  <2>6. QED
    BY <2>5 DEF Balance
<1>8. CASE todo[w] # {s}
  <2>1. wpc'[w] = "prepare" /\ t \in todo[w] /\ todo'[w] = {t}
    BY <1>1, <1>8 DEF PrepareAnswers, Answered, Goto, TypeInv, TypeOK
  <2>2. w \notin Prepared(s, u) /\ Prepared(s, u)' = Prepared(s, u) \cup {w}
    BY <1>1, <1>4, <2>1 DEF Prepared, Preparing
  <2>3. Prepared(t, u)' = Prepared(t, u)
    BY <1>1, <1>4, <2>1 DEF Prepared, Preparing
  <2>4. Cardinality(Prepared(s, u)') = Cardinality(Prepared(s, u)) + 1
    BY <1>5, <2>2, FS_AddElement
  <2>5. writes'[s][u] + Cardinality(Prepared(t, u)') = writes'[t][u] + Cardinality(Prepared(s, u)')
    BY <1>2, <1>3, <1>5, <1>6, <2>3, <2>4
  <2>6. QED
    BY <2>5 DEF Balance
<1>9. QED
  BY <1>7, <1>8

\* Every step of a worker that is not a failure keeps the balance.
LEMMA WorkerKeepsBalance ==
  ASSUME TypeInv, NEW w \in Workers, Worker(w), ~Fault, NoLatePrepare,
         \A u \in Uploads : Balance(u)
  PROVE  NoLatePrepare' /\ \A u \in Uploads : Balance(u)'
<1> USE DEF tableVars
<1>1. \A v \in Workers \ {w} : SameJob(v)
  <2>1. ASSUME NEW m \in available, WorkerReceive(w, m) PROVE \A v \in Workers \ {w} : SameJob(v)
    BY <2>1 DEF WorkerReceive, Goto, SameJob, TypeInv, TypeOK
  <2>2. QED
    BY <2>1, WorkerHandlesOwn DEF OwnJob
<1>2. ASSUME NEW u \in Uploads, wpc[w] # "prepare", wpc'[w] # "prepare", UNCHANGED writes
      PROVE  Balance(u)'
  <2>1. \A s \in Servers : Prepared(s, u)' = Prepared(s, u)
    BY <1>1, <1>2 DEF Prepared, Preparing, SameJob
  <2>2. QED
    BY <1>2, <2>1, BalanceFrame
<1>3. ASSUME UNCHANGED <<writes, late>>, wpc[w] # "prepare", wpc'[w] # "prepare"
      PROVE  NoLatePrepare' /\ \A u \in Uploads : Balance(u)'
  BY <1>2, <1>3 DEF NoLatePrepare
<1>4. ASSUME Return(w) PROVE wpc'[w] = "receive"
  BY <1>4 DEF Return, TypeInv, TypeOK
<1>5. ASSUME NEW m \in available, WorkerReceive(w, m)
      PROVE  NoLatePrepare' /\ \A u \in Uploads : Balance(u)'
  BY <1>3, <1>5 DEF WorkerReceive, Goto, TypeInv, TypeOK
<1>6. CASE RLock(w) \/ LedgerSkip(w) \/ AckAnswers(w)
  BY <1>3, <1>6 DEF RLock, LedgerSkip, AckAnswers, Goto, TypeInv, TypeOK
<1>7. CASE LedgerBusy(w) \/ Notify(w)
  BY <1>3, <1>4, <1>7 DEF LedgerBusy, Notify
<1>8. CASE LedgerComplete(w)
  BY <1>3, <1>4, <1>8 DEF LedgerComplete, Goto, TypeInv, TypeOK
<1>9. ASSUME NEW s \in Servers, CommitAnswers(w, s)
      PROVE  NoLatePrepare' /\ \A u \in Uploads : Balance(u)'
  BY <1>3, <1>9 DEF CommitAnswers, Commit, Answered, Goto, TypeInv, TypeOK
<1>10. ASSUME NEW s \in Servers, CommitUnknown(w, s)
       PROVE  NoLatePrepare' /\ \A u \in Uploads : Balance(u)'
  <2>1. UNCHANGED writes /\ wpc[w] = "commit" /\ wpc'[w] = "receive"
    BY <1>4, <1>10 DEF CommitUnknown
  <2>2. NoLatePrepare'
    BY <1>10 DEF CommitUnknown, Abandoned, NoLatePrepare
  <2>3. QED
    BY <1>2, <2>1, <2>2
<1>11. CASE LedgerBegin(w)
  <2>1. UNCHANGED <<writes, late, wmsg>> /\ wpc[w] = "begin" /\ todo'[w] = Servers
    BY <1>11 DEF LedgerBegin, TypeInv, TypeOK
  <2>2. \A s \in Servers, u \in Uploads : Prepared(s, u)' = Prepared(s, u)
    BY <1>1, <2>1 DEF Prepared, Preparing, SameJob
  <2>3. QED
    BY <2>1, <2>2, BalanceFrame DEF NoLatePrepare
<1>12. ASSUME NEW s \in Servers, PrepareAnswers(w, s)
       PROVE  NoLatePrepare' /\ \A u \in Uploads : Balance(u)'
  <2>1. wmsg[w].uuid \in Uploads /\ UNCHANGED <<late, wmsg>>
    BY <1>12 DEF PrepareAnswers, TypeInv, WorkerHasMsg, Msgs
  <2>2. ASSUME NEW u \in Uploads, wmsg[w].uuid # u PROVE Balance(u)'
    <3>1. \A t \in Servers : writes'[t][u] = writes[t][u]
      BY <1>12, <2>1, <2>2 DEF PrepareAnswers, Prepare, TypeInv, TypeOK, TablesTypeOK
    <3>2. \A t \in Servers : Prepared(t, u)' = Prepared(t, u)
      BY <1>1, <2>1, <2>2 DEF Prepared, Preparing, SameJob
    <3>3. QED
      BY <3>1, <3>2, BalanceFrame
  <2>3. QED
    BY <1>12, <2>1, <2>2, PrepareAnswersKeepsBalance DEF NoLatePrepare
<1>13. QED
  BY <1>5, <1>6, <1>7, <1>8, <1>9, <1>10, <1>11, <1>12
  DEF Worker, LedgerBeginStale, LedgerBeginFails, PrepareFails, CommitFails, LedgerCompleteFails,
      AckFails

\* BalanceInv holds in every reachable state.
THEOREM BalanceInvariant == Spec => []BalanceInv
<1>1. Init => BalanceInv
  <2> SUFFICES ASSUME Init PROVE NoLatePrepare /\ \A u \in Uploads : Balance(u)
    BY DEF BalanceInv
  <2>1. \A s \in Servers, u \in Uploads : writes[s][u] = 0 /\ Prepared(s, u) = {}
    BY DEF Init, TablesInit, Prepared, Preparing
  <2>2. QED
    BY <2>1 DEF Init, NoLatePrepare, Balance
<1>2. TypeInv /\ BalanceInv /\ [Next]_vars => BalanceInv'
  <2> SUFFICES ASSUME TypeInv, BalanceInv, [Next]_vars, faults' = 0
               PROVE  NoLatePrepare' /\ \A u \in Uploads : Balance(u)'
    BY DEF BalanceInv
  <2>1. ~Fault /\ NoLatePrepare /\ \A u \in Uploads : Balance(u)
    BY FaultsGrow DEF BalanceInv, Fault, TypeInv, TypeOK
  <2>2. ASSUME UNCHANGED <<writes, workerVars>>, late' \subseteq late
        PROVE  NoLatePrepare' /\ \A u \in Uploads : Balance(u)'
    <3>1. \A s \in Servers, u \in Uploads : Prepared(s, u)' = Prepared(s, u)
      BY <2>2 DEF workerVars, Prepared, Preparing
    <3>2. QED
      BY <2>1, <2>2, <3>1, BalanceFrame DEF NoLatePrepare
  <2>3. CASE Control \/ (\E r \in Runs : Finisher(r)) \/ Timeouts \/ UNCHANGED vars
    BY <2>2, <2>3 DEF Control, OutsideControl, Finisher, LockPublishing, LockGranted, MergeDump,
                      DumpTable, PublishResult, MergeFails, Timeouts, vars, tableVars
  <2>4. ASSUME NEW c \in late, LateCall(c) PROVE NoLatePrepare' /\ \A u \in Uploads : Balance(u)'
    BY <2>1, <2>2, <2>4 DEF LateCall, NoLatePrepare, Commit, tableVars
  <2>5. QED
    BY <2>1, <2>3, <2>4, WorkerKeepsBalance DEF Next
<1>3. QED
  BY <1>1, <1>2, TypeInvariant, PTL DEF Spec

\* With nobody between the two Prepare calls both tables show the same.
LEMMA BalancedTables ==
  ASSUME TypeInv, \A u \in Uploads : Balance(u), \A w \in Workers : ~Reader(w)
  PROVE  Table(0) = Table(1)
<1>1. \A s \in Servers, u \in Uploads : Prepared(s, u) = {}
  BY DEF Prepared, Preparing, Reader
<1>2. Cardinality({}) = 0
  BY FS_EmptySet
<1>3. \A s \in Servers, u \in Uploads : writes[s][u] \in Nat
  BY DEF TypeInv, TypeOK, TablesTypeOK
<1>4. 0 \in Servers /\ 1 \in Servers
  BY DEF Servers
<1>5. \A u \in Uploads : writes[0][u] + 0 = writes[1][u] + 0
  BY <1>1, <1>2, <1>4 DEF Balance
<1>6. \A u \in Uploads : writes[0][u] = writes[1][u]
  BY <1>3, <1>4, <1>5
<1>7. QED
  BY <1>6 DEF Table

\* A dump that waits for its counterpart is still what the table holds.
DumpsCurrent ==
  faults = 0 => \A s \in Servers : dump[s] # NoDump => dump[s] = Table(s)

\* Every published result is readable while no call has failed: the barrier
\* keeps workers out, and each worker that was in had both its answers.  It
\* holds also when redelivery and expired leases apply a write repeatedly.
THEOREM ResultsAreReadable == Spec => []ReadableResult
<1>1. Init => DumpsCurrent /\ ReadableResult
  BY DEF Init, NothingDumped, DumpsCurrent, ReadableResult, EpochIDs
<1>2. TypeInv /\ MergeInv /\ PublishInv /\ BalanceInv /\ DumpsCurrent /\ ReadableResult /\ [Next]_vars
        => DumpsCurrent' /\ ReadableResult'
  <2> SUFFICES ASSUME TypeInv, MergeInv, PublishInv, BalanceInv, DumpsCurrent, ReadableResult,
                      [Next]_vars, faults' = 0
               PROVE  DumpsCurrent' /\ ReadableResult'
    BY DEF DumpsCurrent, ReadableResult
  <2>1. faults = 0 /\ NoLatePrepare /\ \A u \in Uploads : Balance(u)
    BY FaultsGrow DEF BalanceInv
  <2>2. ASSUME UNCHANGED <<writes, dump, results>> PROVE DumpsCurrent' /\ ReadableResult'
    BY <2>1, <2>2 DEF DumpsCurrent, ReadableResult, Table
  <2>3. CASE Control \/ Timeouts \/ UNCHANGED vars
    BY <2>2, <2>3 DEF Control, OutsideControl, Timeouts, vars, tableVars, mergeVars
  <2>4. ASSUME NEW c \in late, LateCall(c) PROVE DumpsCurrent' /\ ReadableResult'
    BY <2>1, <2>2, <2>4 DEF LateCall, NoLatePrepare, Commit, tableVars, mergeVars
  <2>5. ASSUME NEW w \in Workers, Worker(w) PROVE DumpsCurrent' /\ ReadableResult'
    <3>1. UNCHANGED <<dump, results>>
      BY <2>5, WorkerKeepsMergeVars DEF mergeVars
    <3>2. CASE UNCHANGED writes
      BY <2>2, <3>1, <3>2
    <3>3. CASE \E s \in Servers : PrepareAnswers(w, s)
      <4>1. \A s \in Servers : dump[s] = NoDump
        BY <3>3 DEF PrepareAnswers, Reader, PublishInv, Barrier, DumpsInMerge
      <4>2. QED
        BY <2>1, <3>1, <4>1 DEF DumpsCurrent, ReadableResult
    <3>4. QED
      BY <2>5, <3>2, <3>3
      DEF Worker, WorkerReceive, RLock, LedgerBegin, LedgerSkip, LedgerBusy, LedgerBeginStale,
          LedgerBeginFails, PrepareFails, CommitAnswers, Commit, CommitUnknown, CommitFails,
          LedgerComplete, LedgerCompleteFails, AckAnswers, AckFails, Notify, tableVars
  <2>6. ASSUME NEW r \in Runs, Finisher(r) PROVE DumpsCurrent' /\ ReadableResult'
    <3>1. UNCHANGED writes
      BY <2>6 DEF Finisher, LockPublishing, LockGranted, MergeDump, DumpTable, PublishResult,
                  MergeFails, tableVars
    <3>2. CASE LockPublishing(r) \/ LockGranted(r)
      BY <2>2, <3>1, <3>2 DEF LockPublishing, LockGranted, mergeVars
    <3>3. ASSUME NEW s \in Servers, MergeDump(r, s) PROVE DumpsCurrent' /\ ReadableResult'
      <4>1. dump' = [dump EXCEPT ![s] = Table(s)] /\ UNCHANGED results
        BY <3>3 DEF MergeDump, DumpTable
      <4>2. QED
        BY <2>1, <3>1, <4>1 DEF DumpsCurrent, ReadableResult, Table, TypeInv, TypeOK
    <3>4. CASE MergeFails(r)
      BY <2>1, <3>4 DEF MergeFails, NothingDumped, DumpsCurrent, ReadableResult
    <3>5. CASE PublishResult(r)
      <4>1. dump[0] = dump[1]
        <5>1. \A w \in Workers : ~Reader(w)
          BY <3>5 DEF PublishResult, PublishInv, Barrier
        <5>2. dump[0] = Table(0) /\ dump[1] = Table(1)
          BY <2>1, <3>5 DEF PublishResult, Dumped, DumpsCurrent, Servers
        <5>3. QED
          BY <2>1, <5>1, <5>2, BalancedTables
      <4>2. results' = [results EXCEPT ![epoch.id] = dump] /\ dump' = NothingDumped
        BY <3>5 DEF PublishResult, WritePublishedResult
      <4>3. ReadableResult'
        BY <2>1, <4>1, <4>2 DEF ReadableResult, EpochIDs, TypeInv, TypeOK
      <4>4. DumpsCurrent'
        BY <4>2 DEF DumpsCurrent, NothingDumped
      <4>5. QED
        BY <4>3, <4>4
    <3>6. QED
      BY <2>6, <3>2, <3>3, <3>4, <3>5 DEF Finisher
  <2>7. QED
    BY <2>3, <2>4, <2>5, <2>6 DEF Next
<1>3. QED
  BY <1>1, <1>2, TypeInvariant, MergeInvariant, PublishInvariant, BalanceInvariant, PTL DEF Spec

-----------------------------------------------------------------------------
(***************************************************************************)
(* A run that went through Closing, with the memory queue: when it starts  *)
(* to merge the queue is empty, hence all it accepted is committed, hence  *)
(* in both tables, hence in the dumps and in the file.                     *)
(***************************************************************************)

Settling ==
  Backend = "memory" /\ starts \in closed /\ epoch.state \in {"Merging", "Completed"}

\* Every upload accepted in this run is in the set.
AcceptedIn(set) == \A u \in Uploads : acked[u] = starts => u \in set

AcceptedCommitted ==
  \A u \in Uploads : acked[u] = starts => \E m \in Msgs : m.uuid = u /\ Committed(m)

\* Only started runs close, and they do not become Active again.
ClosedRuns ==
  /\ \A r \in closed : r <= starts
  /\ starts \in closed => epoch.state # "Active"

SettledInv == Settling => NoSessions(sessions) /\ AcceptedCommitted

CompleteDumps == Settling => \A s \in Servers : dump[s] # NoDump => AcceptedIn(dump[s])

CompleteResult ==
  Settling => \A r \in Runs : fin[r] = "merged" => AcceptedIn(results[epoch.id][0])

ClosedInv == ClosedRuns /\ SettledInv /\ CompleteDumps /\ CompleteResult /\ ClosedRunIsComplete

\* What is committed shows in both tables.
LEMMA CommittedShows ==
  ASSUME TypeInv, DataInv, OnceInv, Backend = "memory", NEW m \in Msgs, Committed(m), NEW s \in Servers
  PROVE  m.uuid \in Table(s)
<1>1. m.uuid \in Uploads
  BY DEF Msgs
<1>2. writes[s][m.uuid] >= 1
  BY DEF DataInv, CommittedOnBoth
<1>3. writes[s][m.uuid] \in {0, 1}
  BY <1>1 DEF OnceInv, Once, WrittenOnce, OneSource
<1>4. writes[s][m.uuid] = 1
  BY <1>2, <1>3
<1>5. QED
  BY <1>1, <1>4 DEF Table

\* The merge of a run that closed starts with nothing left to process.
Begins ==
  /\ epoch.state = "Closing" /\ epoch'.state = "Merging"
  /\ NoSessions(sessions')
  /\ available' = {} /\ inflight' = {}
  /\ UNCHANGED <<starts, dump>>
  /\ \A r \in Runs : fin'[r] # "merged"

Goes ==
  /\ Settling
  /\ UNCHANGED <<sessions, acked, starts>>
  /\ epoch'.id = epoch.id

\* startMergeIfDrained with the exact Stats of the memory queue.
LEMMA DrainedBegins ==
  ASSUME ControlTypeOK, MergeInv, Settling', NEW av, NEW inf, NEW sess, NEW drained,
         drained \in DrainedReadings(av, inf), StartMergeIfDrained(sess, drained)
  PROVE  \/ UNCHANGED <<epoch, fin>>
         \/ /\ epoch.state = "Closing" /\ epoch'.state = "Merging"
            /\ NoSessions(sess) /\ av = {} /\ inf = {}
            /\ \A r \in Runs : fin'[r] # "merged"
<1>1. CASE epoch.state = "Closing" /\ NoSessions(sess) /\ drained
  <2>1. av = {} /\ inf = {}
    BY <1>1 DEF Settling, DrainedReadings
  <2>2. PICK chosen \in Runs : fin' = ReleaseWaiters(fin, chosen)
    BY <1>1 DEF StartMergeIfDrained
  <2>3. \A r \in Runs : fin[r] # "merged"
    BY <1>1 DEF MergeInv, MergeExclusive, Merger
  <2>4. \A r \in Runs : fin'[r] # "merged"
    BY <2>2, <2>3 DEF ReleaseWaiters
  <2>5. epoch'.state = "Merging"
    BY <1>1 DEF StartMergeIfDrained, ControlTypeOK
  <2>6. QED
    BY <1>1, <2>1, <2>4, <2>5
<1>2. CASE ~(epoch.state = "Closing" /\ NoSessions(sess) /\ drained)
  BY <1>2 DEF StartMergeIfDrained
<1>3. QED
  BY <1>1, <1>2

\* A run settles by beginning its merge, and stays settled.
LEMMA SettlingStep ==
  ASSUME TypeInv, MergeInv, ClosedRuns, SettledInv, [Next]_vars, Settling'
  PROVE  Begins \/ Goes
<1> USE DEF OutsideControl
<1>1. ControlTypeOK
  BY DEF TypeInv, TypeOK
<1>2. ASSUME UNCHANGED <<epoch, sessions, acked, starts, closed>> PROVE Goes
  BY <1>2 DEF Goes, Settling
<1>3. CASE Control
  <2>1. UNCHANGED dump
    BY <1>3 DEF Control, mergeVars
  <2>2. ASSUME NEW id \in RequestIDs, StartEpoch(id) PROVE FALSE
    BY <2>2 DEF StartEpoch, Settling
  <2>3. ASSUME NEW id \in EpochIDs, AbortEpoch(id) PROVE FALSE
    BY <2>3 DEF AbortEpoch, Settling
  <2>4. ASSUME NEW u \in Uploads, Upload1(u) PROVE FALSE
    BY <2>4 DEF Upload1, Settling
  <2>5. ASSUME NEW u \in Uploads, Upload2(u) PROVE FALSE
    <3>1. Settling
      BY <2>5 DEF Upload2, Settling, historyVars
    <3>2. QED
      BY <2>5, <3>1 DEF Upload2, SettledInv, NoSessions
  <2>6. ASSUME NEW u \in Uploads, Upload3(u) PROVE Begins
    <3>1. PICK drained \in DrainedReadings(available', inflight') :
            StartMergeIfDrained(sessions', drained)
      BY <2>6 DEF Upload3
    <3>2. CASE UNCHANGED <<epoch, fin>>
      <4>1. Settling
        BY <2>6, <3>2 DEF Upload3, Settling
      <4>2. QED
        BY <2>6, <4>1 DEF Upload3, SettledInv, NoSessions
    <3>3. UNCHANGED starts
      BY <2>6 DEF Upload3
    <3>4. QED
      BY <1>1, <2>1, <3>1, <3>2, <3>3, DrainedBegins DEF Begins
  <2>7. ASSUME NEW r \in Runs, BeginEpochMerge(r) PROVE Goes
    <3>1. UNCHANGED <<sessions, acked, starts>>
      BY <2>7 DEF BeginEpochMerge
    <3>2. CASE epoch.state = "Active"
      <4>1. starts \notin closed
        BY <3>2 DEF ClosedRuns
      <4>2. QED
        BY <1>1, <2>7, <3>1, <3>2, <4>1 DEF BeginEpochMerge, Settling, ControlTypeOK
    <3>3. CASE epoch.state # "Active"
      BY <1>2, <2>7, <3>1, <3>3 DEF BeginEpochMerge
    <3>4. QED
      BY <3>2, <3>3
  <2>8. ASSUME NEW r \in Runs, CompleteEpochMerge(r, path) PROVE Goes
    <3>1. epoch.state = "Merging"
      BY <2>8 DEF CompleteEpochMerge, MergeInv, MergeExclusive, Merger
    <3>2. epoch'.id = epoch.id /\ UNCHANGED <<sessions, starts, acked, closed>>
      BY <1>1, <2>8 DEF CompleteEpochMerge, ControlTypeOK, historyVars
    <3>3. QED
      BY <3>1, <3>2 DEF Goes, Settling
  <2>9. ASSUME \/ PeerConnections("ready")
               \/ PeerConnections("failed")
               \/ \E u \in Uploads : Upload3Fails(u)
               \/ \E r \in Runs : TimerFires(r)
        PROVE  Goes
    BY <1>2, <2>9 DEF PeerConnections, Upload3Fails, TimerFires, controlVars, historyVars
  <2>10. QED
    BY <1>3, <2>2, <2>3, <2>4, <2>5, <2>6, <2>7, <2>8, <2>9 DEF Control
<1>4. ASSUME NEW w \in Workers, Worker(w) PROVE Begins \/ Goes
  <2>1. CASE UNCHANGED controlVars
    BY <1>2, <2>1 DEF controlVars, historyVars
  <2>2. CASE Notify(w)
    <3>1. UNCHANGED <<sessions, acked, starts, closed, dump, queueVars>>
      BY <2>2 DEF Notify, IngestionQueueDrained, historyVars, mergeVars
    <3>2. PICK drained \in DrainedReadings(available, inflight) :
            StartMergeIfDrained(sessions, drained)
      BY <2>2 DEF Notify, IngestionQueueDrained
    <3>3. CASE UNCHANGED <<epoch, fin>>
      BY <1>2, <3>1, <3>3
    <3>4. QED
      BY <1>1, <3>1, <3>2, <3>3, DrainedBegins DEF Begins, queueVars, NoSessions
  <2>3. QED
    BY <1>4, <2>1, <2>2
    DEF Worker, WorkerReceive, RLock, LedgerBegin, LedgerSkip, LedgerBusy, LedgerBeginStale,
        LedgerBeginFails, PrepareAnswers, PrepareFails, CommitAnswers, CommitUnknown, CommitFails,
        LedgerComplete, LedgerCompleteFails, AckAnswers, AckFails
<1>5. CASE (\E r \in Runs : Finisher(r)) \/ UNCHANGED vars
  BY <1>2, <1>5 DEF Finisher, LockPublishing, LockGranted, MergeDump, PublishResult, MergeFails,
                    FinGoto, controlVars, historyVars, vars
<1>6. CASE Timeouts \/ \E c \in late : LateCall(c)
  BY <1>2, <1>6, EnvironmentEffect DEF controlVars, historyVars
<1>7. QED
  BY <1>3, <1>4, <1>5, <1>6 DEF Next

\* Runs close while they are current, and only a new run is Active again.
LEMMA ClosedRunsStep == TypeOK /\ ClosedRuns /\ [Next]_vars => ClosedRuns'
<1> SUFFICES ASSUME TypeOK, ClosedRuns, [Next]_vars PROVE ClosedRuns'
  OBVIOUS
<1> USE DEF ClosedRuns
<1>1. ControlTypeOK /\ starts \in Nat /\ closed \subseteq Int
  BY ConstantFacts DEF TypeOK, ControlTypeOK
<1>2. ASSUME UNCHANGED <<starts, closed>>, epoch'.state = "Active" => epoch.state = "Active"
      PROVE  ClosedRuns'
  BY <1>2
<1>3. ASSUME NEW sess, NEW drained, StartMergeIfDrained(sess, drained), UNCHANGED <<starts, closed>>
      PROVE  ClosedRuns'
  BY <1>1, <1>2, <1>3, StartMergeEffect DEF ControlTypeOK
<1>4. CASE Control
  <2>1. ASSUME NEW id \in RequestIDs, StartEpoch(id) PROVE ClosedRuns'
    <3>1. starts' = starts + 1 /\ UNCHANGED closed
      BY <2>1 DEF StartEpoch, historyVars
    <3>2. QED
      BY <1>1, <3>1
  <2>2. ASSUME NEW r \in Runs, BeginEpochMerge(r) PROVE ClosedRuns'
    <3>1. CASE epoch.state = "Active" /\ ~NoSessions(sessions)
      <4>1. epoch'.state = "Closing" /\ closed' = closed \cup {starts} /\ UNCHANGED starts
        BY <1>1, <2>2, <3>1 DEF BeginEpochMerge, ControlTypeOK
      <4>2. QED
        BY <1>1, <4>1
    <3>2. CASE ~(epoch.state = "Active" /\ ~NoSessions(sessions))
      BY <1>1, <1>2, <2>2, <3>2 DEF BeginEpochMerge, ControlTypeOK
    <3>3. QED
      BY <3>1, <3>2
  <2>3. ASSUME NEW r \in Runs, CompleteEpochMerge(r, path) PROVE ClosedRuns'
    BY <1>1, <1>2, <2>3 DEF CompleteEpochMerge, ControlTypeOK, historyVars
  <2>4. ASSUME NEW id \in EpochIDs, AbortEpoch(id) PROVE ClosedRuns'
    BY <1>2, <2>4 DEF AbortEpoch
  <2>5. ASSUME NEW u \in Uploads, Upload3(u) PROVE ClosedRuns'
    BY <1>3, <2>5 DEF Upload3
  <2>6. ASSUME \/ PeerConnections("ready")
               \/ PeerConnections("failed")
               \/ \E u \in Uploads : Upload1(u) \/ Upload2(u) \/ Upload3Fails(u)
               \/ \E r \in Runs : TimerFires(r)
        PROVE  ClosedRuns'
    BY <1>2, <2>6 DEF PeerConnections, Upload1, Upload2, Upload3Fails, TimerFires, controlVars,
                      historyVars
  <2>7. QED
    BY <1>4, <2>1, <2>2, <2>3, <2>4, <2>5, <2>6 DEF Control
<1>5. ASSUME NEW w \in Workers, Worker(w) PROVE ClosedRuns'
  BY <1>2, <1>3, <1>5, WorkerEffect DEF controlVars, historyVars, IngestionQueueDrained
<1>6. CASE (\E r \in Runs : Finisher(r)) \/ UNCHANGED vars
  BY <1>2, <1>6 DEF Finisher, LockPublishing, LockGranted, MergeDump, PublishResult, MergeFails,
                    FinGoto, controlVars, historyVars, vars
<1>7. CASE Timeouts \/ \E c \in late : LateCall(c)
  BY <1>2, <1>7, EnvironmentEffect DEF controlVars, historyVars
<1>8. QED
  BY <1>4, <1>5, <1>6, <1>7 DEF Next

\* Results are written by PublishResult only, which makes its finisher merged.
LEMMA ResultsStep ==
  ASSUME ControlTypeOK, MergeInv, [Next]_vars
  PROVE  /\ UNCHANGED results \/ \E r \in Runs : PublishResult(r)
         /\ \A r \in Runs : fin'[r] = "merged" => fin[r] = "merged" \/ PublishResult(r)
<1> DEFINE NewMerged == \A r \in Runs : fin'[r] = "merged" => fin[r] = "merged" \/ PublishResult(r)
<1>1. ASSUME UNCHANGED fin PROVE NewMerged
  BY <1>1
<1>2. ASSUME NEW sess, NEW drained, StartMergeIfDrained(sess, drained) PROVE NewMerged
  BY <1>1, <1>2, StartMergeEffect DEF ReleaseWaiters
<1>3. CASE Control
  <2>1. ASSUME NEW id \in RequestIDs, StartEpoch(id) PROVE NewMerged
    BY <2>1, ConstantFacts DEF StartEpoch, StopTimer, ControlTypeOK, Runs
  <2>2. ASSUME NEW id \in EpochIDs, AbortEpoch(id) PROVE NewMerged
    BY <2>2 DEF AbortEpoch
  <2>3. ASSUME NEW r \in Runs, TimerFires(r) \/ CompleteEpochMerge(r, path) PROVE NewMerged
    BY <2>3 DEF TimerFires, CompleteEpochMerge, ControlTypeOK
  <2>4. ASSUME NEW r \in Runs, BeginEpochMerge(r) PROVE NewMerged
    <3>1. \/ fin' = [StopTimer(fin) EXCEPT ![r] = "waiting"]
          \/ fin' = [StopTimer(fin) EXCEPT ![r] = "run"]
          \/ fin' = [fin EXCEPT ![r] = "waiting"]
          \/ fin' = [fin EXCEPT ![r] = "done"]
      BY <2>4 DEF BeginEpochMerge
    <3>2. QED
      BY <3>1 DEF StopTimer, ControlTypeOK
  <2>5. ASSUME \/ PeerConnections("ready")
               \/ PeerConnections("failed")
               \/ \E u \in Uploads : Upload1(u) \/ Upload2(u) \/ Upload3Fails(u)
        PROVE  NewMerged
    BY <1>1, <2>5 DEF PeerConnections, Upload1, Upload2, Upload3Fails, controlVars
  <2>6. UNCHANGED results
    BY <1>3 DEF Control, OutsideControl, mergeVars
  <2>7. QED
    BY <1>2, <1>3, <2>1, <2>2, <2>3, <2>4, <2>5, <2>6 DEF Control, Upload3
<1>4. ASSUME NEW w \in Workers, Worker(w) PROVE UNCHANGED results /\ NewMerged
  BY <1>1, <1>2, <1>4, WorkerEffect, WorkerKeepsMergeVars
  DEF controlVars, mergeVars, IngestionQueueDrained
<1>5. ASSUME NEW r \in Runs, Finisher(r)
      PROVE  (UNCHANGED results \/ PublishResult(r)) /\ NewMerged
  BY <1>5 DEF Finisher, LockPublishing, LockGranted, MergeDump, PublishResult, MergeFails, FinGoto,
              controlVars, mergeVars, ControlTypeOK
<1>6. CASE Timeouts \/ (\E c \in late : LateCall(c)) \/ UNCHANGED vars
  BY <1>1, <1>6 DEF Timeouts, LateCall, vars, controlVars, mergeVars
<1>7. QED
  BY <1>3, <1>4, <1>5, <1>6 DEF Next

\* An epoch is completed for a finisher whose merge succeeded.
LEMMA CompletesMerged ==
  ASSUME ControlTypeOK, [Next]_vars, epoch.state # "Completed", epoch'.state = "Completed"
  PROVE  UNCHANGED results /\ \E r \in Runs : fin[r] = "merged"
<1>1. ASSUME NEW sess, NEW drained, StartMergeIfDrained(sess, drained) PROVE FALSE
  BY <1>1, StartMergeEffect DEF ControlTypeOK
<1>2. CASE Control
  <2>1. \A id \in RequestIDs : ~StartEpoch(id)
    BY DEF StartEpoch
  <2>2. \A id \in EpochIDs : ~AbortEpoch(id)
    BY DEF AbortEpoch
  <2>3. \A r \in Runs : ~BeginEpochMerge(r)
    BY DEF BeginEpochMerge, ControlTypeOK
  <2>4. \A u \in Uploads : ~Upload3(u)
    BY <1>1 DEF Upload3
  <2>5. ~UNCHANGED epoch
    OBVIOUS
  <2>6. \E r \in Runs : CompleteEpochMerge(r, path)
    BY <1>2, <2>1, <2>2, <2>3, <2>4, <2>5
    DEF Control, PeerConnections, Upload1, Upload2, Upload3Fails, TimerFires, controlVars
  <2>7. QED
    BY <1>2, <2>6 DEF CompleteEpochMerge, Control, OutsideControl, mergeVars
<1>3. ASSUME NEW w \in Workers, Worker(w) PROVE FALSE
  BY <1>1, <1>3, WorkerEffect DEF controlVars, IngestionQueueDrained
<1>4. CASE (\E r \in Runs : Finisher(r)) \/ Timeouts \/ (\E c \in late : LateCall(c)) \/ UNCHANGED vars
  BY <1>4 DEF Finisher, LockPublishing, LockGranted, MergeDump, PublishResult, MergeFails, FinGoto,
              Timeouts, LateCall, vars, controlVars
<1>5. QED
  BY <1>2, <1>3, <1>4 DEF Next

\* Dumps are taken by MergeDump only.
LEMMA DumpsStep ==
  ASSUME TypeInv, [Next]_vars, NEW s \in Servers
  PROVE  dump'[s] = dump[s] \/ dump'[s] = NoDump \/ dump'[s] = Table(s)
<1>1. CASE UNCHANGED dump
  BY <1>1
<1>2. ASSUME NEW r \in Runs, NEW t \in Servers, MergeDump(r, t)
      PROVE  dump'[s] = dump[s] \/ dump'[s] = Table(s)
  BY <1>2 DEF MergeDump, DumpTable, TypeInv, TypeOK
<1>3. ASSUME NEW r \in Runs, PublishResult(r) \/ MergeFails(r) PROVE dump'[s] = NoDump
  BY <1>3 DEF PublishResult, MergeFails, NothingDumped
<1>4. ASSUME NEW w \in Workers, Worker(w) PROVE UNCHANGED dump
  BY <1>4, WorkerKeepsMergeVars DEF mergeVars
<1>5. QED
  BY <1>1, <1>2, <1>3, <1>4
  DEF Next, Control, OutsideControl, Finisher, LockPublishing, LockGranted, Timeouts, LateCall, vars,
      mergeVars

\* ClosedInv is inductive, given what is known of merges, commits and writes.
LEMMA ClosedInvStep ==
  ASSUME TypeInv, MergeInv, SessionInv, DataInv, OnceInv, PublishInv, ClosedInv, [Next]_vars, DataInv'
  PROVE  ClosedInv'
<1>1. ControlTypeOK
  BY DEF TypeInv, TypeOK
<1>2. ClosedRuns'
  BY ClosedRunsStep DEF ClosedInv, TypeInv
<1>3. Settling' => Begins \/ Goes
  BY SettlingStep DEF ClosedInv
<1>4. SettledInv'
  <2>1. CASE Begins
    <3>1. starts # 0
      BY <2>1, ConstantFacts DEF Begins, SessionInv, RunNumbers, Open, Runs
    <3>2. AcceptedCommitted'
      BY <2>1, <3>1 DEF Begins, AcceptedCommitted, DataInv, NoUploadLost
    <3>3. QED
      BY <2>1, <3>2 DEF Begins, SettledInv, NoSessions
  <2>2. CASE Goes
    <3>1. \A m \in Msgs : Committed(m) => Committed(m)'
      BY LedgerStep, CommittedForever DEF TypeInv, TypeOK
    <3>2. QED
      BY <2>2, <3>1 DEF Goes, ClosedInv, SettledInv, AcceptedCommitted, NoSessions
  <2>3. QED
    BY <1>3, <2>1, <2>2 DEF SettledInv
<1>5. CompleteDumps'
  <2>1. CASE Begins
    BY <2>1 DEF Begins, PublishInv, DumpsInMerge, MergeInv, MergeExclusive, Merger, CompleteDumps
  <2>2. CASE Goes
    <3>1. \A s \in Servers : AcceptedIn(Table(s))
      BY <2>2, CommittedShows DEF Goes, Settling, ClosedInv, SettledInv, AcceptedCommitted, AcceptedIn
    <3>2. ASSUME NEW s \in Servers, dump'[s] # NoDump PROVE AcceptedIn(dump[s])'
      BY <2>2, <3>1, <3>2, DumpsStep DEF Goes, ClosedInv, CompleteDumps, AcceptedIn
    <3>3. QED
      BY <3>2 DEF CompleteDumps
  <2>3. QED
    BY <1>3, <2>1, <2>2 DEF CompleteDumps
<1>6. CompleteResult'
  <2>1. CASE Begins
    BY <2>1 DEF Begins, CompleteResult
  <2>2. CASE Goes
    <3>1. ASSUME NEW r \in Runs, PublishResult(r) PROVE AcceptedIn(results[epoch.id][0])'
      <4>1. results'[epoch'.id] = dump
        BY <1>1, <2>2, <3>1 DEF Goes, PublishResult, WritePublishedResult, ControlTypeOK, TypeInv, TypeOK
      <4>2. AcceptedIn(dump[0])
        BY <2>2, <3>1 DEF Goes, PublishResult, Dumped, ClosedInv, CompleteDumps, Servers
      <4>3. QED
        BY <2>2, <4>1, <4>2 DEF Goes, AcceptedIn
    <3>2. ASSUME NEW r \in Runs, fin[r] = "merged", \A q \in Runs : ~PublishResult(q)
          PROVE  AcceptedIn(results[epoch.id][0])'
      <4>1. UNCHANGED results
        BY <1>1, <3>2, ResultsStep
      <4>2. QED
        BY <2>2, <3>2, <4>1 DEF Goes, ClosedInv, CompleteResult, AcceptedIn
    <3>3. QED
      BY <1>1, <3>1, <3>2, ResultsStep DEF CompleteResult
  <2>3. QED
    BY <1>3, <2>1, <2>2 DEF CompleteResult
<1>7. ClosedRunIsComplete'
  <2> SUFFICES ASSUME Settling', epoch'.state = "Completed" PROVE AcceptedIn(results[epoch.id][0])'
    BY DEF ClosedRunIsComplete, Settling, AcceptedIn
  <2>1. Goes
    BY <1>3 DEF Begins
  <2>2. CASE epoch.state = "Completed"
    <3>1. UNCHANGED results
      BY <1>1, <2>2, ResultsStep DEF PublishResult, MergeInv, MergeExclusive, Merger
    <3>2. QED
      BY <2>1, <2>2, <3>1 DEF Goes, Settling, ClosedInv, ClosedRunIsComplete, AcceptedIn
  <2>3. CASE epoch.state # "Completed"
    BY <1>1, <2>1, <2>3, CompletesMerged DEF Goes, ClosedInv, CompleteResult, AcceptedIn
  <2>4. QED
    BY <2>2, <2>3
<1>8. QED
  BY <1>2, <1>4, <1>5, <1>6, <1>7 DEF ClosedInv

\* With the memory queue a run that waited in Closing publishes every upload
\* it accepted, whatever calls fail or come late, however aborts and stale
\* timers interleave, and for any number of uploads, runs and workers.
THEOREM ClosedRunsAreComplete == Spec => []ClosedRunIsComplete
<1>1. Init => ClosedInv
  BY DEF Init, ControlInit, ClosedInv, ClosedRuns, SettledInv, CompleteDumps, CompleteResult, Settling,
         ClosedRunIsComplete
<1>2. TypeInv /\ DataInv /\ [Next]_vars => DataInv'
  BY WorkerKeepsDataInv, OthersKeepDataInv DEF Next
<1>3. /\ TypeInv /\ MergeInv /\ SessionInv /\ DataInv /\ OnceInv /\ PublishInv
      /\ ClosedInv /\ [Next]_vars
      => ClosedInv'
  BY <1>2, ClosedInvStep
<1>4. ClosedInv => ClosedRunIsComplete
  BY DEF ClosedInv
<1>5. QED
  BY <1>1, <1>3, <1>4, TypeInvariant, MergeInvariant, SessionInvariant, DataInvariant, OnceInvariant,
     PublishInvariant, PTL DEF Spec
=============================================================================

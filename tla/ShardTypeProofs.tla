-------------------------- MODULE ShardTypeProofs --------------------------
(***************************************************************************)
(* Type correctness of Shard, for every set of uploads and workers, both   *)
(* queue backends, and every bound on runs, attempts and failures.         *)
(***************************************************************************)
EXTENDS Shard, TLAPS

-----------------------------------------------------------------------------
(***************************************************************************)
(* Type correctness, one lemma per group of actions.                       *)
(***************************************************************************)

\* The messages the control loop builds are messages, and the bounds are
\* naturals.
LEMMA ConstantFacts ==
  /\ MaxStarts \in Nat \ {0}
  /\ MaxEpochID \in Nat \ {0}
  /\ MaxAttempts \in Nat \ {0}
  /\ MaxFaults \in Nat
BY MaxStartsAssumption, MaxEpochIDAssumption, MaxAttemptsAssumption, MaxFaultsAssumption

\* Init satisfies the type invariant.
LEMMA InitTypeOK == Init => TypeOK
BY ConstantFacts
DEF Init, TypeOK, QueueInit, QueueTypeOK, LedgerInit, LedgerTypeOK, LedgerRecord, Attempts,
    TablesInit, TablesTypeOK, ControlInit, ControlTypeOK, EpochStates, FinStates, WorkerPCs,
    NothingDumped, Dumps, Calls

\* startMergeIfDrained keeps the types of what it writes.
LEMMA StartMergeType ==
  ASSUME ControlTypeOK, NEW sess, NEW drained, StartMergeIfDrained(sess, drained)
  PROVE  /\ epoch' \in [id : 0 .. MaxEpochID, state : EpochStates]
         /\ fin' \in [Runs -> FinStates]
BY DEF ControlTypeOK, StartMergeIfDrained, ReleaseWaiters, EpochStates, FinStates

\* Every command of the control loop keeps the type invariant.
LEMMA ControlTypeStep == TypeOK /\ Control => TypeOK'
<1> SUFFICES ASSUME TypeOK, Control PROVE TypeOK'
  OBVIOUS
<1> USE ConstantFacts
<1>1. CASE UNCHANGED <<queueVars, OutsideControl, faults>> /\ ControlTypeOK'
  BY <1>1 DEF TypeOK, QueueTypeOK, LedgerTypeOK, TablesTypeOK, queueVars, OutsideControl,
              tableVars, workerVars, mergeVars
<1>2. ASSUME PeerConnections("ready") \/ PeerConnections("failed")
      PROVE  ControlTypeOK'
  BY <1>2 DEF TypeOK, ControlTypeOK, PeerConnections, historyVars
<1>3. ASSUME NEW id \in RequestIDs, StartEpoch(id)
      PROVE  ControlTypeOK'
  BY <1>3 DEF TypeOK, ControlTypeOK, StartEpoch, StopTimer, historyVars, EpochIDs, EpochStates,
              FinStates, Runs
<1>4. ASSUME NEW id \in EpochIDs, AbortEpoch(id)
      PROVE  ControlTypeOK'
  BY <1>4 DEF TypeOK, ControlTypeOK, AbortEpoch, EpochStates, FinStates, Runs
<1>5. ASSUME NEW u \in Uploads, Upload1(u) \/ Upload2(u)
      PROVE  ControlTypeOK'
  <2>1. CASE Upload1(u)
    BY <2>1 DEF TypeOK, ControlTypeOK, Upload1
  <2>2. CASE Upload2(u)
    BY <2>2 DEF TypeOK, ControlTypeOK, Upload2, historyVars
  <2>3. QED
    BY <1>5, <2>1, <2>2
<1>6. ASSUME NEW r \in Runs, TimerFires(r) \/ BeginEpochMerge(r) \/ CompleteEpochMerge(r, path)
      PROVE  ControlTypeOK'
  <2>1. CASE TimerFires(r)
    BY <2>1 DEF TypeOK, ControlTypeOK, TimerFires, FinStates, historyVars
  <2>2. CASE BeginEpochMerge(r)
    BY <2>2 DEF TypeOK, ControlTypeOK, BeginEpochMerge, StopTimer, EpochStates, FinStates
  <2>3. CASE CompleteEpochMerge(r, path)
    BY <2>3 DEF TypeOK, ControlTypeOK, CompleteEpochMerge, EpochStates, FinStates, historyVars
  <2>4. QED
    BY <1>6, <2>1, <2>2, <2>3
<1>7. ASSUME NEW u \in Uploads, Upload3(u), UNCHANGED <<OutsideControl, faults>>
      PROVE  TypeOK'
  <2>1. PICK drained \in DrainedReadings(available', inflight') :
          StartMergeIfDrained(sessions', drained)
    BY <1>7 DEF Upload3
  <2>2. /\ epoch' \in [id : 0 .. MaxEpochID, state : EpochStates]
        /\ fin' \in [Runs -> FinStates]
    BY <2>1, StartMergeType DEF TypeOK
  <2>3. [uuid |-> u, epoch |-> epoch.id] \in Msgs
    BY <1>7 DEF TypeOK, ControlTypeOK, Upload3, Msgs, EpochIDs
  <2>4. QueueTypeOK'
    BY <1>7, <2>3 DEF TypeOK, QueueTypeOK, Upload3, Enqueue
  <2>5. ControlTypeOK'
    BY <1>7, <2>2 DEF TypeOK, ControlTypeOK, Upload3
  <2>6. QED
    BY <1>7, <2>4, <2>5 DEF TypeOK, LedgerTypeOK, TablesTypeOK, OutsideControl, tableVars,
                            workerVars, mergeVars
<1>8. ASSUME NEW u \in Uploads, Upload3Fails(u), Fault, UNCHANGED OutsideControl
      PROVE  TypeOK'
  <2>1. [uuid |-> u, epoch |-> epoch.id] \in Msgs
    BY <1>8 DEF TypeOK, ControlTypeOK, Upload3Fails, Msgs, EpochIDs
  <2>2. QueueTypeOK'
    BY <1>8, <2>1 DEF TypeOK, QueueTypeOK, Upload3Fails, Enqueue, queueVars
  <2>3. ControlTypeOK'
    BY <1>8 DEF TypeOK, ControlTypeOK, Upload3Fails, controlVars, historyVars
  <2>4. QED
    BY <1>8, <2>2, <2>3 DEF TypeOK, LedgerTypeOK, TablesTypeOK, OutsideControl, tableVars,
                            workerVars, mergeVars, Fault
<1>9. QED
  BY <1>1, <1>2, <1>3, <1>4, <1>5, <1>6, <1>7, <1>8 DEF Control

-----------------------------------------------------------------------------
(***************************************************************************)
(* A worker that is past Receive has a message: this is what makes TypeOK  *)
(* inductive, because Prepare files the uuid of that message.              *)
(***************************************************************************)

WorkerHasMsg == \A w \in Workers : wpc[w] # "receive" => wmsg[w] \in Msgs

TypeInv == TypeOK /\ WorkerHasMsg

\* The ledger operations keep the type of the ledger.
LEMMA LedgerType ==
  ASSUME LedgerTypeOK, NEW m, NEW a
  PROVE  /\ BeginProcessing(m) => LedgerTypeOK'
         /\ CompleteProcessing(m, a) => LedgerTypeOK'
         /\ ProcessingExpires(m) => LedgerTypeOK'
<1> USE ConstantFacts
<1> CASE m \in Msgs
  <2> USE DEF LedgerTypeOK, LedgerRecord, Attempts
  <2>1. ledger[m] \in LedgerRecord
    OBVIOUS
  <2>2. BeginProcessing(m) => LedgerTypeOK'
    BY <2>1 DEF BeginProcessing
  <2>3. ASSUME CompleteProcessing(m, a) PROVE LedgerTypeOK'
    <3>1. ledger' = [ledger EXCEPT ![m] = [ledger[m] EXCEPT !.state = "committed"]]
      BY <2>3 DEF CompleteProcessing
    <3>2. [ledger[m] EXCEPT !.state = "committed"] \in LedgerRecord
      BY <2>1
    <3>3. QED
      BY <3>1, <3>2
  <2>4. ASSUME ProcessingExpires(m) PROVE LedgerTypeOK'
    <3>1. ledger' = [ledger EXCEPT ![m] = [ledger[m] EXCEPT !.expired = TRUE]]
      BY <2>4 DEF ProcessingExpires
    <3>2. [ledger[m] EXCEPT !.expired = TRUE] \in LedgerRecord
      BY <2>1
    <3>3. QED
      BY <3>1, <3>2
  <2>5. QED
    BY <2>2, <2>3, <2>4
<1> CASE m \notin Msgs
  BY DEF LedgerTypeOK, BeginProcessing, CompleteProcessing, ProcessingExpires
<1> QED
  OBVIOUS

\* The table operations keep the types of the tables.
LEMMA TablesType ==
  ASSUME TablesTypeOK, NEW s \in Servers, NEW u \in Uploads
  PROVE  /\ Prepare(s, u) => TablesTypeOK'
         /\ Commit(s, u) => TablesTypeOK'
<1>1. ASSUME Prepare(s, u) PROVE TablesTypeOK'
  <2>1. pending' \in [Servers -> SUBSET Uploads]
    BY <1>1 DEF TablesTypeOK, Prepare
  <2>2. [writes[s] EXCEPT ![u] = @ + 1] \in [Uploads -> Nat]
    BY DEF TablesTypeOK
  <2>3. writes' \in [Servers -> [Uploads -> Nat]]
    BY <1>1, <2>2 DEF TablesTypeOK, Prepare
  <2>4. QED
    BY <2>1, <2>3 DEF TablesTypeOK
<1>2. Commit(s, u) => TablesTypeOK'
  BY DEF TablesTypeOK, Commit
<1>3. QED
  BY <1>1, <1>2

\* The queue operations keep the types of the queue.
LEMMA QueueType ==
  ASSUME QueueTypeOK, NEW m \in Msgs
  PROVE  /\ Receive(m) => QueueTypeOK'
         /\ Ack(m) => QueueTypeOK'
         /\ VisibilityTimeout(m) => QueueTypeOK'
BY DEF QueueTypeOK, Receive, Ack, VisibilityTimeout

\* processIngestionJob returning keeps the types of the worker.
LEMMA ReturnType ==
  ASSUME TypeInv, NEW w \in Workers, Return(w)
  PROVE  /\ wpc' \in [Workers -> WorkerPCs]
         /\ wmsg' \in [Workers -> Msgs \cup {NoMsg}]
         /\ lease' \in [Workers -> Attempts]
         /\ todo' \in [Workers -> SUBSET Servers]
         /\ WorkerHasMsg'
BY ConstantFacts DEF TypeInv, TypeOK, WorkerHasMsg, Return, WorkerPCs, Attempts

\* The calls a failed fan-out leaves behind are calls.
LEMMA AbandonedType ==
  ASSUME TypeInv, NEW w \in Workers, wpc[w] # "receive", NEW S \in SUBSET Servers,
         NEW kind \in {"prepare", "commit"}
  PROVE  Abandoned(w, S, kind) \subseteq Calls
BY DEF TypeInv, TypeOK, WorkerHasMsg, Abandoned, Calls

\* An answered call of a fan-out keeps the types of the worker.
LEMMA AnsweredType ==
  ASSUME TypeInv, NEW w \in Workers, wpc[w] # "receive", NEW s,
         NEW next \in {"commit", "complete"}, Answered(w, s, next), UNCHANGED wmsg
  PROVE  /\ wpc' \in [Workers -> WorkerPCs]
         /\ todo' \in [Workers -> SUBSET Servers]
         /\ WorkerHasMsg'
BY DEF TypeInv, TypeOK, WorkerHasMsg, Answered, Goto, WorkerPCs

\* Every step of a worker keeps the type invariant.
LEMMA WorkerTypeStep ==
  ASSUME TypeInv, NEW w \in Workers, Worker(w)
  PROVE  TypeInv'
<1> USE ConstantFacts
<1> USE DEF queueVars, tableVars, controlVars, historyVars, workerVars, mergeVars
<1> DEFINE Frame == /\ QueueTypeOK' /\ LedgerTypeOK' /\ TablesTypeOK'
                    /\ UNCHANGED <<controlVars, mergeVars>>
                    /\ wpc' \in [Workers -> WorkerPCs]
                    /\ wmsg' \in [Workers -> Msgs \cup {NoMsg}]
                    /\ lease' \in [Workers -> Attempts]
                    /\ todo' \in [Workers -> SUBSET Servers]
                    /\ WorkerHasMsg'
                    /\ late' \subseteq Calls
                    /\ faults' \in 0 .. MaxFaults
<1>1. Frame => TypeInv'
  BY DEF TypeInv, TypeOK, ControlTypeOK
<1>2. UNCHANGED queueVars => QueueTypeOK'
  BY DEF TypeInv, TypeOK, QueueTypeOK
<1>3. UNCHANGED ledger => LedgerTypeOK'
  BY DEF TypeInv, TypeOK, LedgerTypeOK
<1>4. UNCHANGED tableVars => TablesTypeOK'
  BY DEF TypeInv, TypeOK, TablesTypeOK
<1>5. Fault => faults' \in 0 .. MaxFaults
  BY DEF TypeInv, TypeOK, Fault
<1>6. ASSUME NEW m \in available, WorkerReceive(w, m) PROVE TypeInv'
  <2>1. m \in Msgs
    BY DEF TypeInv, TypeOK, QueueTypeOK
  <2>2. QueueTypeOK'
    BY <1>6, <2>1, QueueType DEF TypeInv, TypeOK, WorkerReceive
  <2>3. QED
    BY <1>1, <1>3, <1>4, <1>6, <2>1, <2>2
    DEF WorkerReceive, Goto, TypeInv, TypeOK, WorkerHasMsg, WorkerPCs
<1>7. CASE RLock(w)
  BY <1>1, <1>2, <1>3, <1>4, <1>7 DEF RLock, Goto, TypeInv, TypeOK, WorkerHasMsg, WorkerPCs
<1>8. CASE LedgerBegin(w)
  <2>1. LedgerTypeOK'
    BY <1>8, LedgerType DEF LedgerBegin, TypeInv, TypeOK
  <2>2. lease' \in [Workers -> Attempts]
    BY <1>8 DEF LedgerBegin, BeginProcessing, TypeInv, TypeOK, WorkerHasMsg, LedgerTypeOK,
                LedgerRecord, Attempts
  <2>3. QED
    BY <1>1, <1>2, <1>4, <1>8, <2>1, <2>2
    DEF LedgerBegin, Goto, TypeInv, TypeOK, WorkerHasMsg, WorkerPCs
<1>9. CASE LedgerSkip(w)
  BY <1>1, <1>2, <1>3, <1>4, <1>9 DEF LedgerSkip, Goto, TypeInv, TypeOK, WorkerHasMsg, WorkerPCs
<1>10. CASE LedgerBusy(w)
  BY <1>1, <1>2, <1>3, <1>4, <1>10, ReturnType DEF LedgerBusy, TypeInv, TypeOK
<1>11. CASE LedgerBeginFails(w)
  <2>1. LedgerTypeOK'
    BY <1>3, <1>11, LedgerType DEF LedgerBeginFails, TypeInv, TypeOK
  <2>2. QED
    BY <1>1, <1>2, <1>4, <1>5, <1>11, <2>1, ReturnType DEF LedgerBeginFails, TypeInv, TypeOK
<1>12. ASSUME NEW s \in Servers, PrepareAnswers(w, s) PROVE TypeInv'
  <2>1. wmsg[w].uuid \in Uploads /\ wpc[w] # "receive"
    BY <1>12 DEF PrepareAnswers, TypeInv, WorkerHasMsg, Msgs
  <2>2. TablesTypeOK'
    BY <1>12, <2>1, TablesType DEF PrepareAnswers, TypeInv, TypeOK
  <2>3. QED
    BY <1>1, <1>2, <1>3, <1>12, <2>1, <2>2, AnsweredType DEF PrepareAnswers, TypeInv, TypeOK
<1>13. ASSUME NEW s \in Servers, PrepareFails(w, s) PROVE TypeInv'
  <2>1. late' \subseteq Calls
    BY <1>13, AbandonedType DEF PrepareFails, TypeInv, TypeOK
  <2>2. QED
    BY <1>1, <1>2, <1>3, <1>4, <1>5, <1>13, <2>1, ReturnType DEF PrepareFails, TypeInv, TypeOK
<1>14. ASSUME NEW s \in Servers, CommitAnswers(w, s) PROVE TypeInv'
  <2>1. wmsg[w].uuid \in Uploads /\ wpc[w] # "receive"
    BY <1>14 DEF CommitAnswers, TypeInv, WorkerHasMsg, Msgs
  <2>2. TablesTypeOK'
    BY <1>14, <2>1, TablesType DEF CommitAnswers, TypeInv, TypeOK
  <2>3. QED
    BY <1>1, <1>2, <1>3, <1>14, <2>1, <2>2, AnsweredType DEF CommitAnswers, TypeInv, TypeOK
<1>15. ASSUME NEW s \in Servers, CommitUnknown(w, s) PROVE TypeInv'
  <2>1. late' \subseteq Calls
    BY <1>15, AbandonedType DEF CommitUnknown, TypeInv, TypeOK
  <2>2. QED
    BY <1>1, <1>2, <1>3, <1>4, <1>15, <2>1, ReturnType DEF CommitUnknown, TypeInv, TypeOK
<1>16. ASSUME NEW s \in Servers, CommitFails(w, s) PROVE TypeInv'
  <2>1. late' \subseteq Calls
    BY <1>16, AbandonedType DEF CommitFails, TypeInv, TypeOK
  <2>2. QED
    BY <1>1, <1>2, <1>3, <1>4, <1>5, <1>16, <2>1, ReturnType DEF CommitFails, TypeInv, TypeOK
<1>17. CASE LedgerComplete(w)
  <2>1. CASE CompleteProcessing(wmsg[w], lease[w]) /\ Goto(w, "ack") /\ UNCHANGED <<wmsg, lease, todo>>
    <3>1. LedgerTypeOK'
      BY <2>1, LedgerType DEF TypeInv, TypeOK
    <3>2. QED
      BY <1>1, <1>2, <1>4, <1>17, <2>1, <3>1
      DEF LedgerComplete, Goto, TypeInv, TypeOK, WorkerHasMsg, WorkerPCs
  <2>2. CASE Return(w) /\ UNCHANGED ledger
    BY <1>1, <1>2, <1>3, <1>4, <1>17, <2>2, ReturnType DEF LedgerComplete, TypeInv, TypeOK
  <2>3. QED
    BY <1>17, <2>1, <2>2 DEF LedgerComplete
<1>18. CASE LedgerCompleteFails(w)
  <2>1. LedgerTypeOK'
    BY <1>3, <1>18, LedgerType DEF LedgerCompleteFails, TypeInv, TypeOK
  <2>2. QED
    BY <1>1, <1>2, <1>4, <1>5, <1>18, <2>1, ReturnType DEF LedgerCompleteFails, TypeInv, TypeOK
<1>19. CASE AckAnswers(w)
  <2>1. QueueTypeOK'
    BY <1>19, QueueType DEF AckAnswers, TypeInv, TypeOK, WorkerHasMsg
  <2>2. QED
    BY <1>1, <1>3, <1>4, <1>19, <2>1 DEF AckAnswers, Goto, TypeInv, TypeOK, WorkerHasMsg, WorkerPCs
<1>20. CASE AckFails(w)
  <2>1. QueueTypeOK'
    BY <1>2, <1>20, QueueType DEF AckFails, TypeInv, TypeOK, WorkerHasMsg
  <2>2. QED
    BY <1>1, <1>3, <1>4, <1>5, <1>20, <2>1, ReturnType DEF AckFails, TypeInv, TypeOK
<1>21. CASE Notify(w)
  <2>1. ControlTypeOK'
    <3>1. PICK drained \in DrainedReadings(available, inflight) : StartMergeIfDrained(sessions, drained)
      BY <1>21 DEF Notify, IngestionQueueDrained
    <3>2. /\ epoch' \in [id : 0 .. MaxEpochID, state : EpochStates]
          /\ fin' \in [Runs -> FinStates]
      BY <3>1, StartMergeType DEF TypeInv, TypeOK
    <3>3. QED
      BY <1>21, <3>2 DEF Notify, IngestionQueueDrained, TypeInv, TypeOK, ControlTypeOK
  <2>2. QED
    BY <1>2, <1>3, <1>4, <1>21, <2>1, ReturnType DEF Notify, TypeInv, TypeOK
<1>22. CASE LedgerBeginStale(w)
  BY <1>1, <1>2, <1>3, <1>4, <1>5, <1>22 DEF LedgerBeginStale, Goto, TypeInv, TypeOK, WorkerHasMsg,
                                             WorkerPCs
<1>23. QED
  BY <1>6, <1>7, <1>8, <1>9, <1>10, <1>11, <1>12, <1>13, <1>14, <1>15, <1>16, <1>17, <1>18, <1>19,
     <1>20, <1>21, <1>22 DEF Worker

\* Every step of a finisher keeps the type invariant.
LEMMA FinisherTypeStep ==
  ASSUME TypeInv, NEW r \in Runs, Finisher(r)
  PROVE  TypeInv'
<1> USE ConstantFacts
<1> USE DEF queueVars, tableVars, historyVars, workerVars, mergeVars
<1> DEFINE Merge == /\ dump' \in [Servers -> (SUBSET Uploads) \cup {NoDump}]
                    /\ plain' \in Dumps \cup {NoDump}
                    /\ results' \in [0 .. MaxEpochID -> Dumps \cup {NoDump}]
                    /\ path' \in 0 .. MaxEpochID
<1>1. ASSUME UNCHANGED <<queueVars, ledger, tableVars, workerVars, late>>, ControlTypeOK', Merge,
             faults' \in 0 .. MaxFaults
      PROVE  TypeInv'
  BY <1>1 DEF TypeInv, TypeOK, QueueTypeOK, LedgerTypeOK, TablesTypeOK, WorkerHasMsg
<1>2. \A pc \in FinStates : FinGoto(r, pc) => ControlTypeOK'
  BY DEF FinGoto, TypeInv, TypeOK, ControlTypeOK
<1>3. UNCHANGED mergeVars => Merge
  BY DEF TypeInv, TypeOK
<1>4. CASE LockPublishing(r) \/ LockGranted(r)
  <2>1. ControlTypeOK'
    BY <1>2, <1>4 DEF LockPublishing, LockGranted, FinStates
  <2>2. QED
    BY <1>1, <1>3, <1>4, <2>1 DEF LockPublishing, LockGranted, TypeInv, TypeOK
<1>5. ASSUME NEW s \in Servers, MergeDump(r, s) PROVE TypeInv'
  <2>1. ControlTypeOK'
    BY <1>5 DEF MergeDump, controlVars, TypeInv, TypeOK, ControlTypeOK
  <2>2. Merge
    BY <1>5 DEF MergeDump, TypeInv, TypeOK
  <2>3. QED
    BY <1>1, <1>5, <2>1, <2>2 DEF MergeDump, DumpTable, TypeInv, TypeOK
<1>6. CASE PublishResult(r)
  <2>1. ControlTypeOK'
    BY <1>2, <1>6 DEF PublishResult, FinStates
  <2>2. dump \in Dumps
    BY <1>6 DEF PublishResult, Dumped, Dumps, TypeInv, TypeOK
  <2>3. Merge
    BY <1>6, <2>2 DEF PublishResult, StorePlaintext, WritePublishedResult, NothingDumped, TypeInv, TypeOK, ControlTypeOK
  <2>4. QED
    BY <1>1, <1>6, <2>1, <2>3 DEF PublishResult, TypeInv, TypeOK
<1>7. CASE MergeFails(r)
  <2>1. ControlTypeOK'
    BY <1>2, <1>7 DEF MergeFails, FinStates
  <2>2. Dumped => dump \in Dumps
    BY DEF Dumped, Dumps, TypeInv, TypeOK
  <2>3. Merge
    BY <1>7, <2>2 DEF MergeFails, StorePlaintext, NothingDumped, TypeInv, TypeOK
  <2>4. QED
    BY <1>1, <1>7, <2>1, <2>3 DEF MergeFails, Fault, TypeInv, TypeOK
<1>8. QED
  BY <1>4, <1>5, <1>6, <1>7 DEF Finisher

\* A late call and the passing of time keep the type invariant.
LEMMA EnvironmentTypeStep ==
  TypeInv /\ (Timeouts \/ \E c \in late : LateCall(c)) => TypeInv'
<1> SUFFICES ASSUME TypeInv PROVE (Timeouts \/ \E c \in late : LateCall(c)) => TypeInv'
  OBVIOUS
<1> USE DEF queueVars, tableVars, controlVars, historyVars, workerVars, mergeVars
<1>1. ASSUME UNCHANGED <<controlVars, workerVars, faults, mergeVars>>, late' \subseteq late,
             QueueTypeOK', LedgerTypeOK', TablesTypeOK'
      PROVE  TypeInv'
  BY <1>1 DEF TypeInv, TypeOK, ControlTypeOK, WorkerHasMsg
<1>2. ASSUME NEW c \in late, LateCall(c) PROVE TypeInv'
  <2>1. c.server \in Servers /\ c.msg.uuid \in Uploads
    BY DEF TypeInv, TypeOK, Calls, Msgs
  <2>2. TablesTypeOK'
    BY <1>2, <2>1, TablesType DEF LateCall, TypeInv, TypeOK, TablesTypeOK
  <2>3. QED
    BY <1>1, <1>2, <2>2 DEF LateCall, TypeInv, TypeOK, QueueTypeOK, LedgerTypeOK
<1>3. ASSUME NEW m \in inflight, VisibilityTimeout(m),
             UNCHANGED <<ledger, tableVars, controlVars, workerVars, late, faults, mergeVars>>
      PROVE  TypeInv'
  <2>1. QueueTypeOK'
    BY <1>3, QueueType DEF TypeInv, TypeOK, QueueTypeOK
  <2>2. QED
    BY <1>1, <1>3, <2>1 DEF TypeInv, TypeOK, LedgerTypeOK, TablesTypeOK
<1>4. ASSUME NEW m \in Msgs, ProcessingExpires(m),
             UNCHANGED <<queueVars, tableVars, controlVars, workerVars, late, faults, mergeVars>>
      PROVE  TypeInv'
  <2>1. LedgerTypeOK'
    BY <1>4, LedgerType DEF TypeInv, TypeOK
  <2>2. QED
    BY <1>1, <1>4, <2>1 DEF TypeInv, TypeOK, QueueTypeOK, TablesTypeOK
<1>5. QED
  BY <1>2, <1>3, <1>4 DEF Timeouts

\* The control loop does not touch the workers.
LEMMA ControlKeepsWorkers == Control => UNCHANGED workerVars
BY DEF Control, OutsideControl, workerVars

\* Every step of the system keeps the type invariant.
LEMMA TypeStep == TypeInv /\ [Next]_vars => TypeInv'
<1> SUFFICES ASSUME TypeInv, [Next]_vars PROVE TypeInv'
  OBVIOUS
<1>1. CASE Control
  BY <1>1, ControlTypeStep, ControlKeepsWorkers DEF TypeInv, WorkerHasMsg, workerVars
<1>2. CASE UNCHANGED vars
  BY <1>2 DEF vars, queueVars, tableVars, controlVars, historyVars, workerVars, mergeVars, TypeInv,
              TypeOK, QueueTypeOK, LedgerTypeOK, TablesTypeOK, ControlTypeOK, WorkerHasMsg
<1>3. QED
  BY <1>1, <1>2, WorkerTypeStep, FinisherTypeStep, EnvironmentTypeStep DEF Next

\* Type correctness: Spec => []TypeInv.
THEOREM TypeInvariant == Spec => []TypeInv
<1>1. Init => TypeInv
  BY InitTypeOK DEF Init, TypeInv, WorkerHasMsg
<1>2. QED
  BY <1>1, TypeStep, PTL DEF Spec

\* Every variable of the shard keeps its type: epoch ids, run numbers, attempt
\* numbers and fault counts stay within their bounds, and every message has a
\* positive epoch id, because Enqueue rejects the 0 that AbortEpoch leaves.
THEOREM TypeCorrect == Spec => []TypeOK
BY TypeInvariant, PTL DEF TypeInv
=============================================================================

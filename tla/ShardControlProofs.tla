------------------------ MODULE ShardControlProofs -------------------------
(***************************************************************************)
(* Theorems about the epoch life cycle of Shard: who merges, who waits,    *)
(* which run an upload counts for, and what a completed epoch points to.   *)
(***************************************************************************)
EXTENDS ShardTypeProofs

\* startMergeIfDrained either changes nothing or starts the merge of a
\* Closing epoch without sessions.
LEMMA StartMergeEffect ==
  ASSUME NEW sess, NEW drained, StartMergeIfDrained(sess, drained)
  PROVE  \/ UNCHANGED <<epoch, fin>>
         \/ /\ epoch.state = "Closing"
            /\ NoSessions(sess)
            /\ epoch' = [epoch EXCEPT !.state = "Merging"]
            /\ \E chosen \in Runs :
                 /\ (\E r \in Runs : fin[r] = "waiting") => fin[chosen] = "waiting"
                 /\ fin' = ReleaseWaiters(fin, chosen)
BY DEF StartMergeIfDrained

\* A worker changes the control loop's state only through its notification.
LEMMA WorkerEffect ==
  ASSUME NEW w \in Workers, Worker(w)
  PROVE  UNCHANGED controlVars \/ IngestionQueueDrained
BY DEF Worker, WorkerReceive, RLock, LedgerBegin, LedgerSkip, LedgerBusy, LedgerBeginStale, LedgerBeginFails,
       PrepareAnswers, PrepareFails, CommitAnswers, CommitUnknown, CommitFails, LedgerComplete,
       LedgerCompleteFails, AckAnswers, AckFails, Notify

\* Late calls and time do not change the control loop's state.
LEMMA EnvironmentEffect ==
  Timeouts \/ (\E c \in late : LateCall(c)) => UNCHANGED controlVars
BY DEF Timeouts, LateCall

-----------------------------------------------------------------------------
(***************************************************************************)
(* Merges and waiters                                                      *)
(***************************************************************************)

MergeInv == MergeExclusive /\ ClosingHasWaiter

\* startMergeIfDrained hands the merge to exactly one waiter.
LEMMA StartMergeKeepsMergeInv ==
  ASSUME ControlTypeOK, MergeInv, NEW sess, NEW drained, StartMergeIfDrained(sess, drained)
  PROVE  MergeInv'
<1>1. CASE UNCHANGED <<epoch, fin>>
  BY <1>1 DEF MergeInv, MergeExclusive, ClosingHasWaiter, Merger
<1>2. CASE /\ epoch.state = "Closing"
           /\ epoch' = [epoch EXCEPT !.state = "Merging"]
           /\ \E chosen \in Runs :
                /\ (\E r \in Runs : fin[r] = "waiting") => fin[chosen] = "waiting"
                /\ fin' = ReleaseWaiters(fin, chosen)
  <2>1. PICK chosen \in Runs : fin[chosen] = "waiting" /\ fin' = ReleaseWaiters(fin, chosen)
    BY <1>2 DEF MergeInv, ClosingHasWaiter
  <2>2. epoch'.state = "Merging"
    BY <1>2 DEF ControlTypeOK
  <2>3. \A r \in Runs : ~Merger(r)
    BY <1>2 DEF MergeInv, MergeExclusive
  <2>4. \A r \in Runs : fin'[r] # "waiting" /\ (Merger(r)' => r = chosen)
    BY <2>1, <2>3 DEF ReleaseWaiters, Merger
  <2>5. QED
    BY <2>2, <2>4 DEF MergeInv, MergeExclusive, ClosingHasWaiter
<1>3. QED
  BY <1>1, <1>2, StartMergeEffect

\* Every command of the control loop keeps MergeInv.
LEMMA ControlKeepsMergeInv == ControlTypeOK /\ MergeInv /\ Control => MergeInv'
<1> SUFFICES ASSUME ControlTypeOK, MergeInv, Control PROVE MergeInv'
  OBVIOUS
<1> USE ConstantFacts DEF MergeInv, MergeExclusive, ClosingHasWaiter, Merger
<1>1. ASSUME UNCHANGED <<epoch, fin>> PROVE MergeInv'
  BY <1>1
<1>2. ASSUME NEW id \in RequestIDs, StartEpoch(id) PROVE MergeInv'
  <2>1. \A r \in Runs : fin[r] # "waiting" /\ ~Merger(r)
    BY <1>2 DEF StartEpoch
  <2>2. \A r \in Runs : fin'[r] # "waiting" /\ ~Merger(r)'
    BY <1>2, <2>1 DEF StartEpoch, StopTimer, ControlTypeOK, Runs
  <2>3. QED
    BY <1>2, <2>2 DEF StartEpoch
<1>3. ASSUME NEW id \in EpochIDs, AbortEpoch(id) PROVE MergeInv'
  BY <1>3 DEF AbortEpoch
<1>4. ASSUME NEW r \in Runs, TimerFires(r) PROVE MergeInv'
  BY <1>4 DEF TimerFires, ControlTypeOK
<1>5. ASSUME NEW r \in Runs, BeginEpochMerge(r) PROVE MergeInv'
  <2>1. CASE epoch.state = "Active" /\ ~NoSessions(sessions)
    <3>1. epoch'.state = "Closing" /\ fin' = [StopTimer(fin) EXCEPT ![r] = "waiting"]
      BY <1>5, <2>1 DEF BeginEpochMerge, ControlTypeOK
    <3>2. \A q \in Runs : ~Merger(q)
      BY <2>1
    <3>3. fin'[r] = "waiting" /\ \A q \in Runs : ~Merger(q)'
      BY <3>1, <3>2 DEF StopTimer, ControlTypeOK
    <3>4. QED
      BY <3>1, <3>3
  <2>2. CASE epoch.state = "Active" /\ NoSessions(sessions)
    <3>1. epoch'.state = "Merging" /\ fin' = [StopTimer(fin) EXCEPT ![r] = "run"]
      BY <1>5, <2>2 DEF BeginEpochMerge, ControlTypeOK
    <3>2. \A q \in Runs : ~Merger(q) /\ fin[q] # "waiting"
      BY <2>2
    <3>3. \A q \in Runs : (Merger(q)' => q = r) /\ fin'[q] # "waiting"
      BY <3>1, <3>2 DEF StopTimer, ControlTypeOK
    <3>4. QED
      BY <3>1, <3>3
  <2>3. CASE epoch.state = "Closing"
    BY <1>5, <2>3 DEF BeginEpochMerge, ControlTypeOK
  <2>4. CASE epoch.state \notin {"Active", "Closing"}
    BY <1>5, <2>4 DEF BeginEpochMerge, ControlTypeOK
  <2>5. QED
    BY <2>1, <2>2, <2>3, <2>4
<1>6. ASSUME NEW r \in Runs, CompleteEpochMerge(r, path) PROVE MergeInv'
  <2>1. epoch.state = "Merging" /\ \A q \in Runs : Merger(q) => q = r
    BY <1>6 DEF CompleteEpochMerge
  <2>2. \A q \in Runs : ~Merger(q)' /\ fin'[q] # "waiting"
    BY <1>6, <2>1 DEF CompleteEpochMerge, ControlTypeOK
  <2>3. epoch'.state # "Closing"
    BY <1>6, <2>1 DEF CompleteEpochMerge, ControlTypeOK
  <2>4. QED
    BY <2>2, <2>3
<1>7. ASSUME NEW u \in Uploads, Upload3(u) PROVE MergeInv'
  BY <1>7, StartMergeKeepsMergeInv DEF Upload3
<1>8. QED
  <2>1. ASSUME \/ PeerConnections("ready")
               \/ PeerConnections("failed")
               \/ \E u \in Uploads : Upload1(u) \/ Upload2(u) \/ Upload3Fails(u)
        PROVE  MergeInv'
    BY <1>1, <2>1 DEF PeerConnections, Upload1, Upload2, Upload3Fails, controlVars
  <2>2. QED
    BY <2>1, <1>2, <1>3, <1>4, <1>5, <1>6, <1>7 DEF Control

\* Every step of a finisher keeps MergeInv.
LEMMA FinisherKeepsMergeInv ==
  ASSUME ControlTypeOK, MergeInv, NEW r \in Runs, Finisher(r)
  PROVE  MergeInv'
<1> USE DEF MergeInv, MergeExclusive, ClosingHasWaiter, Merger
<1>1. CASE \E s \in Servers : MergeDump(r, s)
  BY <1>1 DEF MergeDump, controlVars
<1>2. ASSUME NEW pc \in {"lock", "merge", "merged", "failed"}, Merger(r), FinGoto(r, pc)
      PROVE  MergeInv'
  BY <1>2 DEF FinGoto, ControlTypeOK
<1>3. QED
  BY <1>1, <1>2 DEF Finisher, LockPublishing, LockGranted, PublishResult, MergeFails

\* MergeInv is inductive.
LEMMA MergeInvStep == TypeOK /\ MergeInv /\ [Next]_vars => MergeInv'
<1> SUFFICES ASSUME TypeOK, MergeInv, [Next]_vars PROVE MergeInv'
  OBVIOUS
<1>1. ControlTypeOK
  BY DEF TypeOK
<1>2. ASSUME UNCHANGED controlVars PROVE MergeInv'
  BY <1>2 DEF controlVars, MergeInv, MergeExclusive, ClosingHasWaiter, Merger
<1>3. ASSUME IngestionQueueDrained PROVE MergeInv'
  BY <1>1, <1>3, StartMergeKeepsMergeInv DEF IngestionQueueDrained
<1>4. CASE UNCHANGED vars
  BY <1>2, <1>4 DEF vars
<1>5. QED
  BY <1>1, <1>2, <1>3, <1>4, ControlKeepsMergeInv, FinisherKeepsMergeInv, WorkerEffect,
     EnvironmentEffect DEF Next

\* At every moment at most one finishEpoch goroutine merges and publishes,
\* only in the Merging state, and mergeWaiters is non-empty exactly while the
\* epoch is Closing: for any number of epochs, aborts, stale timers, uploads
\* and workers.
THEOREM MergeInvariant == Spec => []MergeInv
<1>1. Init => MergeInv
  BY DEF Init, ControlInit, MergeInv, MergeExclusive, ClosingHasWaiter, Merger
<1>2. QED
  BY <1>1, MergeInvStep, TypeCorrect, PTL DEF Spec

\* No two finishEpoch goroutines merge at once.
THEOREM MergeIsExclusive == Spec => []MergeExclusive
BY MergeInvariant, PTL DEF MergeInv

\* A Closing epoch has a waiter, and nobody waits for any other epoch.
THEOREM ClosingIsAwaited == Spec => []ClosingHasWaiter
BY MergeInvariant, PTL DEF MergeInv

-----------------------------------------------------------------------------
(***************************************************************************)
(* Sessions and runs.  SessionKeepsRun speaks of acknowledged uploads only *)
(* and is not inductive: the sessions still open must belong to the        *)
(* current run, which is then Active or Closing, or to an aborted one.     *)
(***************************************************************************)

Open == {"Active", "Closing"}

SessionOwner ==
  \A u \in Uploads : sessions[u] # "none" =>
    (admitted[u] = starts /\ epoch.state \in Open) \/ admitted[u] \in aborted

RunNumbers ==
  /\ aborted \subseteq Runs
  /\ epoch.state \in Open => starts \in Runs

SessionInv == RunNumbers /\ SessionOwner /\ SessionKeepsRun

\* startMergeIfDrained keeps the owner of every session: it leaves Closing
\* only when there is none.
LEMMA StartMergeKeepsOwners ==
  ASSUME ControlTypeOK, RunNumbers, SessionOwner, NEW sess, NEW drained,
         StartMergeIfDrained(sess, drained), sessions' = sess,
         \A u \in Uploads : sess[u] # "none" => sessions[u] # "none",
         UNCHANGED <<admitted, starts, aborted>>
  PROVE  RunNumbers' /\ SessionOwner'
<1>1. CASE UNCHANGED <<epoch, fin>>
  BY <1>1 DEF RunNumbers, SessionOwner
<1>2. CASE NoSessions(sess) /\ epoch' = [epoch EXCEPT !.state = "Merging"]
  BY <1>2 DEF RunNumbers, SessionOwner, NoSessions, Open, ControlTypeOK
<1>3. QED
  BY <1>1, <1>2, StartMergeEffect

\* Every command of the control loop keeps SessionInv.
LEMMA ControlKeepsSessionInv == ControlTypeOK /\ MergeExclusive /\ SessionInv /\ Control => SessionInv'
<1> SUFFICES ASSUME ControlTypeOK, MergeExclusive, SessionInv, Control PROVE SessionInv'
  OBVIOUS
<1> USE ConstantFacts DEF SessionInv, RunNumbers, SessionOwner, SessionKeepsRun, Open
<1>1. ASSUME UNCHANGED <<epoch, sessions, starts, historyVars>> PROVE SessionInv'
  BY <1>1 DEF historyVars
<1>2. ASSUME NEW id \in RequestIDs, StartEpoch(id) PROVE SessionInv'
  BY <1>2 DEF StartEpoch, ControlTypeOK, Runs, historyVars
<1>3. ASSUME NEW id \in EpochIDs, AbortEpoch(id) PROVE SessionInv'
  BY <1>3 DEF AbortEpoch, ControlTypeOK
<1>4. ASSUME NEW u \in Uploads, Upload1(u) PROVE SessionInv'
  <2>1. starts \in Runs /\ 0 \notin Runs
    BY <1>4 DEF Upload1, Runs
  <2>2. acked[u] = 0
    BY <1>4, <2>1 DEF Upload1
  <2>3. QED
    BY <1>4, <2>2 DEF Upload1, ControlTypeOK
<1>5. ASSUME NEW u \in Uploads, Upload2(u) PROVE SessionInv'
  BY <1>5 DEF Upload2, ControlTypeOK, historyVars
<1>6. ASSUME NEW u \in Uploads, Upload3(u) PROVE SessionInv'
  <2>1. RunNumbers' /\ SessionOwner'
    <3>1. \A v \in Uploads : sessions'[v] # "none" => sessions[v] # "none"
      BY <1>6 DEF Upload3, ControlTypeOK
    <3>2. PICK drained : StartMergeIfDrained(sessions', drained)
      BY <1>6 DEF Upload3
    <3>3. UNCHANGED <<admitted, starts, aborted>>
      BY <1>6 DEF Upload3
    <3>4. QED
      BY <3>1, <3>2, <3>3, StartMergeKeepsOwners
  <2>2. SessionKeepsRun'
    BY <1>6 DEF Upload3, ControlTypeOK
  <2>3. QED
    BY <2>1, <2>2
<1>7. ASSUME NEW r \in Runs, BeginEpochMerge(r) PROVE SessionInv'
  BY <1>7 DEF BeginEpochMerge, NoSessions, ControlTypeOK
<1>8. ASSUME NEW r \in Runs, CompleteEpochMerge(r, path) PROVE SessionInv'
  <2>1. epoch.state = "Merging"
    BY <1>8 DEF CompleteEpochMerge, MergeExclusive, Merger
  <2>2. QED
    BY <1>8, <2>1 DEF CompleteEpochMerge, ControlTypeOK, historyVars
<1>9. QED
  <2>1. ASSUME \/ PeerConnections("ready")
               \/ PeerConnections("failed")
               \/ \E u \in Uploads : Upload3Fails(u)
               \/ \E r \in Runs : TimerFires(r)
        PROVE  SessionInv'
    BY <1>1, <2>1 DEF PeerConnections, Upload3Fails, TimerFires, controlVars
  <2>2. QED
    BY <2>1, <1>2, <1>3, <1>4, <1>5, <1>6, <1>7, <1>8 DEF Control

\* Every step of the system keeps SessionInv.
LEMMA SessionInvStep ==
  TypeOK /\ MergeExclusive /\ SessionInv /\ [Next]_vars => SessionInv'
<1> SUFFICES ASSUME TypeOK, MergeExclusive, SessionInv, [Next]_vars PROVE SessionInv'
  OBVIOUS
<1>1. ControlTypeOK
  BY DEF TypeOK
<1>2. ASSUME UNCHANGED <<epoch, sessions, starts, historyVars>> PROVE SessionInv'
  BY <1>2 DEF SessionInv, RunNumbers, SessionOwner, SessionKeepsRun, Open, historyVars
<1>3. ASSUME IngestionQueueDrained PROVE SessionInv'
  <2>1. RunNumbers' /\ SessionOwner'
    BY <1>1, <1>3, StartMergeKeepsOwners DEF IngestionQueueDrained, SessionInv, historyVars
  <2>2. SessionKeepsRun'
    BY <1>3 DEF IngestionQueueDrained, SessionInv, SessionKeepsRun, historyVars
  <2>3. QED
    BY <2>1, <2>2 DEF SessionInv
<1>4. ASSUME NEW r \in Runs, Finisher(r) PROVE SessionInv'
  BY <1>2, <1>4 DEF Finisher, LockPublishing, LockGranted, MergeDump, PublishResult, MergeFails,
                    FinGoto, controlVars
<1>5. ASSUME UNCHANGED controlVars PROVE SessionInv'
  BY <1>2, <1>5 DEF controlVars
<1>6. QED
  BY <1>1, <1>3, <1>4, <1>5, ControlKeepsSessionInv, WorkerEffect, EnvironmentEffect DEF Next, vars

\* Every open session belongs to the open run or to an aborted one.
THEOREM SessionInvariant == Spec => []SessionInv
<1>1. Init => SessionInv
  BY DEF Init, ControlInit, SessionInv, RunNumbers, SessionOwner, SessionKeepsRun, Open
<1>2. QED
  BY <1>1, SessionInvStep, TypeCorrect, MergeIsExclusive, PTL DEF Spec

\* An upload counts for the run that admitted it, unless an operator aborted
\* that run: neither a late Upload3 nor a stale timer moves it to another one.
THEOREM SessionsKeepTheirRun == Spec => []SessionKeepsRun
BY SessionInvariant, PTL DEF SessionInv

-----------------------------------------------------------------------------
(***************************************************************************)
(* Published results                                                       *)
(***************************************************************************)

\* Between writePublishedResult and completeEpochMerge the file just written
\* is that of the epoch that is still Merging.
MergedHasResult ==
  \A r \in Runs : fin[r] = "merged" => path = epoch.id /\ results[path] # NoDump

ResultInv == MergedHasResult /\ CompletedHasResult

\* ResultInv is inductive, given that merges exclude each other.
LEMMA ResultInvStep ==
  TypeOK /\ MergeInv /\ ResultInv /\ [Next]_vars => ResultInv'
<1> SUFFICES ASSUME TypeOK, MergeInv, ResultInv, [Next]_vars PROVE ResultInv'
  OBVIOUS
<1> USE ConstantFacts DEF ResultInv, MergedHasResult, CompletedHasResult
<1>1. ControlTypeOK /\ MergeExclusive
  BY DEF TypeOK, MergeInv
<1>2. ASSUME UNCHANGED <<lastResult, results, path>>,
             epoch'.state = "Completed" => UNCHANGED epoch,
             \A r \in Runs : fin'[r] = "merged" => fin[r] = "merged" /\ UNCHANGED epoch
      PROVE  ResultInv'
  BY <1>2
<1>3. ASSUME UNCHANGED <<lastResult, results, path>>, NEW sess, NEW drained,
             StartMergeIfDrained(sess, drained)
      PROVE  ResultInv'
  <2>1. CASE UNCHANGED <<epoch, fin>>
    BY <1>2, <1>3, <2>1
  <2>2. ASSUME epoch.state = "Closing", epoch' = [epoch EXCEPT !.state = "Merging"],
               NEW chosen \in Runs, fin' = ReleaseWaiters(fin, chosen)
        PROVE  ResultInv'
    <3>1. \A r \in Runs : fin[r] # "merged"
      BY <1>1, <2>2 DEF MergeExclusive, Merger
    <3>2. \A r \in Runs : fin'[r] # "merged"
      BY <2>2, <3>1 DEF ReleaseWaiters
    <3>3. epoch'.state = "Merging"
      BY <1>1, <2>2 DEF ControlTypeOK
    <3>4. QED
      BY <1>2, <1>3, <3>2, <3>3
  <2>3. QED
    BY <1>3, <2>1, <2>2, StartMergeEffect
<1>4. ASSUME Control PROVE ResultInv'
  <2>1. UNCHANGED <<results, path>>
    BY <1>4 DEF Control, OutsideControl, mergeVars
  <2>2. ASSUME NEW id \in RequestIDs, StartEpoch(id) PROVE ResultInv'
    <3>1. \A r \in Runs : fin[r] # "merged"
      BY <1>1, <2>2 DEF StartEpoch, MergeExclusive, Merger
    <3>2. \A r \in Runs : fin'[r] # "merged"
      BY <1>1, <2>2, <3>1 DEF StartEpoch, StopTimer, ControlTypeOK, Runs
    <3>3. QED
      BY <1>2, <2>1, <2>2, <3>2 DEF StartEpoch
  <2>3. ASSUME NEW id \in EpochIDs, AbortEpoch(id) PROVE ResultInv'
    <3>1. \A r \in Runs : fin[r] # "merged"
      BY <1>1, <2>3 DEF AbortEpoch, MergeExclusive, Merger
    <3>2. QED
      BY <1>2, <2>1, <2>3, <3>1 DEF AbortEpoch
  <2>4. ASSUME NEW r \in Runs, TimerFires(r) PROVE ResultInv'
    BY <1>1, <1>2, <2>1, <2>4 DEF TimerFires, ControlTypeOK
  <2>5. ASSUME NEW r \in Runs, BeginEpochMerge(r) PROVE ResultInv'
    <3>1. CASE epoch.state = "Active"
      <4>1. \A q \in Runs : fin[q] # "merged"
        BY <1>1, <3>1 DEF MergeExclusive, Merger
      <4>2. epoch'.state \in {"Closing", "Merging"} /\ UNCHANGED lastResult
        BY <1>1, <2>5, <3>1 DEF BeginEpochMerge, ControlTypeOK
      <4>3. fin' = [StopTimer(fin) EXCEPT ![r] = "waiting"] \/ fin' = [StopTimer(fin) EXCEPT ![r] = "run"]
        BY <2>5, <3>1 DEF BeginEpochMerge
      <4>4. \A q \in Runs : fin'[q] # "merged"
        BY <4>1, <4>3 DEF StopTimer
      <4>5. QED
        BY <1>2, <2>1, <4>2, <4>4
    <3>2. CASE epoch.state # "Active"
      BY <1>1, <1>2, <2>1, <2>5, <3>2 DEF BeginEpochMerge, ControlTypeOK
    <3>3. QED
      BY <3>1, <3>2
  <2>6. ASSUME NEW r \in Runs, CompleteEpochMerge(r, path) PROVE ResultInv'
    <3>1. epoch.state = "Merging" /\ \A q \in Runs : fin'[q] # "merged"
      BY <1>1, <2>6 DEF CompleteEpochMerge, ControlTypeOK, MergeExclusive, Merger
    <3>2. CASE fin[r] = "merged"
      BY <1>1, <2>1, <2>6, <3>1, <3>2 DEF CompleteEpochMerge, ControlTypeOK
    <3>3. CASE fin[r] = "failed"
      BY <1>2, <2>1, <2>6, <3>1, <3>3 DEF CompleteEpochMerge
    <3>4. QED
      BY <2>6, <3>2, <3>3 DEF CompleteEpochMerge
  <2>7. ASSUME NEW u \in Uploads, Upload3(u) PROVE ResultInv'
    BY <1>3, <2>1, <2>7 DEF Upload3
  <2>8. ASSUME \/ PeerConnections("ready")
               \/ PeerConnections("failed")
               \/ \E u \in Uploads : Upload1(u) \/ Upload2(u) \/ Upload3Fails(u)
        PROVE  ResultInv'
    BY <1>2, <2>1, <2>8 DEF PeerConnections, Upload1, Upload2, Upload3Fails, controlVars
  <2>9. QED
    BY <1>4, <2>2, <2>3, <2>4, <2>5, <2>6, <2>7, <2>8 DEF Control
<1>5. ASSUME NEW w \in Workers, Worker(w) PROVE ResultInv'
  <2>1. UNCHANGED <<results, path>>
    BY <1>5 DEF Worker, WorkerReceive, RLock, LedgerBegin, LedgerSkip, LedgerBusy, LedgerBeginStale, LedgerBeginFails,
                PrepareAnswers, PrepareFails, CommitAnswers, CommitUnknown, CommitFails,
                LedgerComplete, LedgerCompleteFails, AckAnswers, AckFails, Notify, mergeVars
  <2>2. QED
    BY <1>2, <1>3, <1>5, <2>1, WorkerEffect DEF IngestionQueueDrained, controlVars
<1>6. ASSUME NEW r \in Runs, Finisher(r) PROVE ResultInv'
  <2>1. CASE LockPublishing(r) \/ LockGranted(r) \/ MergeFails(r) \/ \E s \in Servers : MergeDump(r, s)
    BY <1>1, <1>2, <2>1 DEF LockPublishing, LockGranted, MergeFails, MergeDump, FinGoto, controlVars,
                            mergeVars, ControlTypeOK
  <2>2. CASE PublishResult(r)
    <3>1. epoch.state = "Merging"
      BY <1>1, <2>2 DEF PublishResult, MergeExclusive, Merger
    <3>2. dump \in [Servers -> SUBSET Uploads]
      BY <2>2 DEF PublishResult, Dumped, TypeOK
    <3>3. dump # NoDump
      BY <3>2, NoDumpAssumption
    <3>4. results'[epoch.id] # NoDump
      BY <1>1, <2>2, <3>3 DEF PublishResult, WritePublishedResult, TypeOK, ControlTypeOK
    <3>5. QED
      BY <2>2, <3>1, <3>4 DEF PublishResult, WritePublishedResult, FinGoto
  <2>3. QED
    BY <1>6, <2>1, <2>2 DEF Finisher
<1>7. ASSUME (Timeouts \/ \E c \in late : LateCall(c)) \/ UNCHANGED vars PROVE ResultInv'
  BY <1>2, <1>7 DEF Timeouts, LateCall, vars, controlVars, mergeVars
<1>8. QED
  BY <1>4, <1>5, <1>6, <1>7 DEF Next

\* Whenever the leader reports an epoch Completed, LastResult names that
\* epoch's file and the file was written, also after failed merges.
THEOREM CompletedIsPublished == Spec => []CompletedHasResult
<1>1. Init => ResultInv
  BY DEF Init, ControlInit, ResultInv, MergedHasResult, CompletedHasResult
<1>2. ResultInv => CompletedHasResult
  BY DEF ResultInv
<1>3. QED
  BY <1>1, <1>2, ResultInvStep, TypeCorrect, MergeInvariant, PTL DEF Spec
=============================================================================

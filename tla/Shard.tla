------------------------------- MODULE Shard -------------------------------
(***************************************************************************)
(* A shard's active pair (db/server.go): the leader's control loop, its    *)
(* ingestion workers, the upload queue and ledger, the tables of the two   *)
(* servers, and the finishEpoch goroutines that merge and publish.         *)
(*                                                                         *)
(* Workers and finishers exclude each other with amPublishingMutex, a Go   *)
(* RWMutex: workers read-lock it, a finisher locks it, and a Lock that is  *)
(* waiting keeps new readers out.                                          *)
(*                                                                         *)
(* Failures (an RPC to a server, the ledger or the queue answers with an   *)
(* error) are counted in faults, up to MaxFaults.  net/rpc gives no answer *)
(* to a call whose connection broke, so the server may execute it still,   *)
(* and a worker returns at the first failure of its fan-out while the call *)
(* to the other server is under way: such calls are "late".                *)
(***************************************************************************)
EXTENDS EpochControl, UploadLedger, SlotTables

CONSTANTS
  Workers,      \* goroutines running processRequest
  MaxFaults,    \* bound: failing calls
  NoMsg,        \* a worker without a message
  NoDump        \* a table not dumped, a result not published

\* Server.Initialize starts a fixed number of them.
ASSUME WorkersAssumption == IsFiniteSet(Workers)
ASSUME MaxFaultsAssumption == MaxFaults \in Nat
ASSUME NoMsgAssumption == NoMsg \notin Msgs
ASSUME NoDumpAssumption ==
  /\ \A t \in SUBSET Uploads : t # NoDump
  /\ \A d \in [Servers -> SUBSET Uploads] : d # NoDump

VARIABLES
  wpc,          \* worker -> program counter in processIngestionJob
  wmsg,         \* worker -> message it processes
  lease,        \* worker -> attempt number of its ledger lease
  todo,         \* worker -> servers whose answer the fan-out still awaits
  late,         \* calls of failed fan-outs that have not reached their server
  faults,       \* number of failures so far
  dump,         \* sendMergeRequest: server -> dumped table
  plain,        \* StorePlaintext: the plaintext held by server 0
  results,      \* epoch id -> content of the published result file
  path          \* epoch id in the name of the file written last, 0 for none

workerVars == <<wpc, wmsg, lease, todo>>
mergeVars == <<dump, plain, results, path>>

vars == <<queueVars, ledger, tableVars, controlVars, workerVars, late, faults, mergeVars>>

WorkerPCs == {"receive", "lock", "begin", "prepare", "commit", "complete", "ack", "notify"}

Calls == [kind : {"prepare", "commit"}, server : Servers, msg : Msgs, attempt : Attempts]

Dumps == [Servers -> SUBSET Uploads]

NothingDumped == [s \in Servers |-> NoDump]

TypeOK ==
  /\ QueueTypeOK
  /\ LedgerTypeOK
  /\ TablesTypeOK
  /\ ControlTypeOK
  /\ wpc \in [Workers -> WorkerPCs]
  /\ wmsg \in [Workers -> Msgs \cup {NoMsg}]
  /\ lease \in [Workers -> Attempts]
  /\ todo \in [Workers -> SUBSET Servers]
  /\ late \subseteq Calls
  /\ faults \in 0 .. MaxFaults
  /\ dump \in [Servers -> (SUBSET Uploads) \cup {NoDump}]
  /\ plain \in Dumps \cup {NoDump}
  /\ results \in [0 .. MaxEpochID -> Dumps \cup {NoDump}]
  /\ path \in 0 .. MaxEpochID

Init ==
  /\ QueueInit
  /\ LedgerInit
  /\ TablesInit
  /\ ControlInit
  /\ wpc = [w \in Workers |-> "receive"]
  /\ wmsg = [w \in Workers |-> NoMsg]
  /\ lease = [w \in Workers |-> 0]
  /\ todo = [w \in Workers |-> {}]
  /\ late = {}
  /\ faults = 0
  /\ dump = NothingDumped
  /\ plain = NoDump
  /\ results = [e \in 0 .. MaxEpochID |-> NoDump]
  /\ path = 0

Goto(w, pc) == wpc' = [wpc EXCEPT ![w] = pc]

\* processIngestionJob returns, which releases the read lock.
Return(w) ==
  /\ wpc' = [wpc EXCEPT ![w] = "receive"]
  /\ wmsg' = [wmsg EXCEPT ![w] = NoMsg]
  /\ lease' = [lease EXCEPT ![w] = 0]
  /\ todo' = [todo EXCEPT ![w] = {}]

Fault ==
  /\ faults < MaxFaults
  /\ faults' = faults + 1

\* A worker that holds the read lock.
Reader(w) == wpc[w] \notin {"receive", "lock"}

-----------------------------------------------------------------------------
(***************************************************************************)
(* Ingestion workers: processRequest and processIngestionJob               *)
(***************************************************************************)

WorkerReceive(w, m) ==
  /\ wpc[w] = "receive"
  /\ Receive(m)
  /\ Goto(w, "lock")
  /\ wmsg' = [wmsg EXCEPT ![w] = m]
  /\ UNCHANGED <<ledger, tableVars, controlVars, lease, todo, late, faults, mergeVars>>

\* Variant: workers do not take part in the publication barrier.
RLock_NoBarrier(w) ==
  /\ wpc[w] = "lock"
  /\ Goto(w, "begin")
  /\ UNCHANGED <<queueVars, ledger, tableVars, controlVars, wmsg, lease, todo, late,
                 faults, mergeVars>>

RLock(w) ==
  /\ wpc[w] = "lock"
  /\ \A r \in Runs : fin[r] \notin {"lock", "merge"}
  /\ Goto(w, "begin")
  /\ UNCHANGED <<queueVars, ledger, tableVars, controlVars, wmsg, lease, todo, late,
                 faults, mergeVars>>

\* The ledger grants a processing lease.
LedgerBegin(w) ==
  /\ wpc[w] = "begin"
  /\ BeginProcessing(wmsg[w])
  /\ Goto(w, "prepare")
  /\ lease' = [lease EXCEPT ![w] = ledger[wmsg[w]].attempt + 1]
  /\ todo' = [todo EXCEPT ![w] = Servers]
  /\ UNCHANGED <<queueVars, tableVars, controlVars, wmsg, late, faults, mergeVars>>

\* Variant: a message that is being processed is taken for a duplicate.
LedgerSkip_WhenBusy(w) ==
  /\ wpc[w] = "begin"
  /\ Committed(wmsg[w]) \/ Busy(wmsg[w])
  /\ Goto(w, "ack")
  /\ UNCHANGED <<queueVars, ledger, tableVars, controlVars, wmsg, lease, todo, late,
                 faults, mergeVars>>

\* AlreadyCommitted: a redelivered message is acked without processing it.
LedgerSkip(w) ==
  /\ wpc[w] = "begin"
  /\ Committed(wmsg[w])
  /\ Goto(w, "ack")
  /\ UNCHANGED <<queueVars, ledger, tableVars, controlVars, wmsg, lease, todo, late,
                 faults, mergeVars>>

LedgerBusy(w) ==
  /\ wpc[w] = "begin"
  /\ Busy(wmsg[w])
  /\ Return(w)
  /\ UNCHANGED <<queueVars, ledger, tableVars, controlVars, late, faults, mergeVars>>

\* The DynamoDB ledger answers with an empty lease and no error, and the
\* worker processes a message that another one processes or has processed.
\* Counted with the failures.
LedgerBeginStale(w) ==
  /\ wpc[w] = "begin"
  /\ ReadsExpiredLease(wmsg[w])
  /\ Fault
  /\ Goto(w, "prepare")
  /\ todo' = [todo EXCEPT ![w] = Servers]
  /\ UNCHANGED <<queueVars, ledger, tableVars, controlVars, wmsg, lease, late, mergeVars>>

\* The DynamoDB ledger fails, before or after it granted the lease.
LedgerBeginFails(w) ==
  /\ Backend = "sqs"
  /\ wpc[w] = "begin"
  /\ BeginProcessing(wmsg[w]) \/ UNCHANGED ledger
  /\ Fault
  /\ Return(w)
  /\ UNCHANGED <<queueVars, tableVars, controlVars, late, mergeVars>>

\* Variant: the worker goes on after the first answer.
Answered_First(w, s, next) ==
  /\ Goto(w, next)
  /\ todo' = [todo EXCEPT ![w] = IF next = "commit" THEN Servers ELSE {}]

\* The fan-out of submitPrepares and submitCommits: server s answers.
Answered(w, s, next) ==
  IF todo[w] = {s}
  THEN /\ Goto(w, next)
       /\ todo' = [todo EXCEPT ![w] = IF next = "commit" THEN Servers ELSE {}]
  ELSE /\ todo' = [todo EXCEPT ![w] = @ \ {s}]
       /\ UNCHANGED wpc

\* The calls of a fan-out to these servers, which nobody waits for any more.
Abandoned(w, servers, kind) ==
  {[kind |-> kind, server |-> s, msg |-> wmsg[w], attempt |-> lease[w]] : s \in servers}

PrepareAnswers(w, s) ==
  /\ wpc[w] = "prepare"
  /\ s \in todo[w]
  /\ Prepare(s, wmsg[w].uuid)
  /\ Answered(w, s, "commit")
  /\ UNCHANGED <<queueVars, ledger, controlVars, wmsg, lease, late, faults, mergeVars>>

\* The call to server s fails, executed or not; the worker returns.
PrepareFails(w, s) ==
  /\ wpc[w] = "prepare"
  /\ s \in todo[w]
  /\ late' = late \cup Abandoned(w, todo[w], "prepare")
  /\ Fault
  /\ Return(w)
  /\ UNCHANGED <<queueVars, ledger, tableVars, controlVars, mergeVars>>

CommitAnswers(w, s) ==
  /\ wpc[w] = "commit"
  /\ s \in todo[w]
  /\ Commit(s, wmsg[w].uuid)
  /\ Answered(w, s, "complete")
  /\ UNCHANGED <<queueVars, ledger, controlVars, wmsg, lease, late, faults, mergeVars>>

\* "Got commit msg for unknown UUID".
CommitUnknown(w, s) ==
  /\ wpc[w] = "commit"
  /\ s \in todo[w]
  /\ wmsg[w].uuid \notin pending[s]
  /\ late' = late \cup Abandoned(w, todo[w] \ {s}, "commit")
  /\ Return(w)
  /\ UNCHANGED <<queueVars, ledger, tableVars, controlVars, faults, mergeVars>>

CommitFails(w, s) ==
  /\ wpc[w] = "commit"
  /\ s \in todo[w]
  /\ late' = late \cup Abandoned(w, todo[w], "commit")
  /\ Fault
  /\ Return(w)
  /\ UNCHANGED <<queueVars, ledger, tableVars, controlVars, mergeVars>>

\* A call without a waiter reaches its server, or is lost.
LateCall(c) ==
  /\ c \in late
  /\ late' = late \ {c}
  /\ \/ c.kind = "prepare" /\ Prepare(c.server, c.msg.uuid)
     \/ c.kind = "commit" /\ Commit(c.server, c.msg.uuid)
     \/ UNCHANGED tableVars
  /\ UNCHANGED <<queueVars, ledger, controlVars, workerVars, faults, mergeVars>>

LedgerComplete(w) ==
  /\ wpc[w] = "complete"
  /\ \/ CompleteProcessing(wmsg[w], lease[w]) /\ Goto(w, "ack") /\ UNCHANGED <<wmsg, lease, todo>>
     \/ ~MayComplete(wmsg[w], lease[w]) /\ Return(w) /\ UNCHANGED ledger
  /\ UNCHANGED <<queueVars, tableVars, controlVars, late, faults, mergeVars>>

LedgerCompleteFails(w) ==
  /\ Backend = "sqs"
  /\ wpc[w] = "complete"
  /\ CompleteProcessing(wmsg[w], lease[w]) \/ UNCHANGED ledger
  /\ Fault
  /\ Return(w)
  /\ UNCHANGED <<queueVars, tableVars, controlVars, late, mergeVars>>

AckAnswers(w) ==
  /\ wpc[w] = "ack"
  /\ Ack(wmsg[w])
  /\ Goto(w, "notify")
  /\ UNCHANGED <<ledger, tableVars, controlVars, wmsg, lease, todo, late, faults, mergeVars>>

\* shouldDemoFailIngestionAckOnce, or SQS DeleteMessage fails (and may have
\* deleted the message all the same).  The control loop is not notified.
AckFails(w) ==
  /\ wpc[w] = "ack"
  /\ (Backend = "sqs" /\ Ack(wmsg[w])) \/ UNCHANGED queueVars
  /\ Fault
  /\ Return(w)
  /\ UNCHANGED <<ledger, tableVars, controlVars, late, mergeVars>>

\* Variant: the control loop is not told.
Notify_Forgotten(w) ==
  /\ wpc[w] = "notify"
  /\ Return(w)
  /\ UNCHANGED <<queueVars, ledger, tableVars, controlVars, late, faults, mergeVars>>

\* notifyIngestionQueueDrained
Notify(w) ==
  /\ wpc[w] = "notify"
  /\ IngestionQueueDrained
  /\ Return(w)
  /\ UNCHANGED <<queueVars, ledger, tableVars, late, faults, mergeVars>>

-----------------------------------------------------------------------------
(***************************************************************************)
(* finishEpoch after beginEpochMerge answered shouldRun                    *)
(***************************************************************************)

FinGoto(r, pc) ==
  /\ fin' = [fin EXCEPT ![r] = pc]
  /\ UNCHANGED <<peerState, epoch, sessions, lastResult, starts, historyVars>>

LockPublishing(r) ==
  /\ fin[r] = "run"
  /\ FinGoto(r, "lock")
  /\ UNCHANGED <<queueVars, ledger, tableVars, workerVars, late, faults, mergeVars>>

LockGranted(r) ==
  /\ fin[r] = "lock"
  /\ \A w \in Workers : ~Reader(w)
  /\ \A q \in Runs : fin[q] # "merge"
  /\ FinGoto(r, "merge")
  /\ UNCHANGED <<queueVars, ledger, tableVars, workerVars, late, faults, mergeVars>>

MergeDump(r, s) ==
  /\ fin[r] = "merge"
  /\ dump[s] = NoDump
  /\ \E reply \in SUBSET Uploads :
       /\ DumpTable(s, reply)
       /\ dump' = [dump EXCEPT ![s] = reply]
  /\ UNCHANGED <<queueVars, ledger, controlVars, workerVars, late, faults, plain, results, path>>

Dumped == \A s \in Servers : dump[s] # NoDump

\* The plaintext is the XOR of the two tables; it is kept as the pair.
StorePlaintext(tables) == plain' = tables

\* The file is named after the epoch id, and replaces one of the same name.
WritePublishedResult(plaintext, id) ==
  /\ results' = [results EXCEPT ![id] = plaintext]
  /\ path' = id

\* The rest of sendMergeRequest: reveal, store and publish; Unlock.
PublishResult(r) ==
  /\ fin[r] = "merge"
  /\ Dumped
  /\ StorePlaintext(dump)
  /\ WritePublishedResult(dump, epoch.id)
  /\ dump' = NothingDumped
  /\ FinGoto(r, "merged")
  /\ UNCHANGED <<queueVars, ledger, tableVars, workerVars, late, faults>>

\* A DumpTable or StorePlaintext call fails, or, with the plaintext stored,
\* writePublishedResult does; Unlock.
MergeFails(r) ==
  /\ fin[r] = "merge"
  /\ (Dumped /\ StorePlaintext(dump)) \/ UNCHANGED plain
  /\ dump' = NothingDumped
  /\ Fault
  /\ FinGoto(r, "failed")
  /\ UNCHANGED <<queueVars, ledger, tableVars, workerVars, late, results, path>>

-----------------------------------------------------------------------------
(***************************************************************************)
(* The system                                                              *)
(***************************************************************************)

\* What a control command leaves alone outside the control loop.
OutsideControl == <<ledger, tableVars, workerVars, late, mergeVars>>

Control ==
  \/ /\ \/ PeerConnections("ready")
        \/ PeerConnections("failed")
        \/ \E id \in RequestIDs : StartEpoch(id)
        \/ \E id \in EpochIDs : AbortEpoch(id)
        \/ \E u \in Uploads : Upload1(u) \/ Upload2(u)
        \/ \E r \in Runs : TimerFires(r) \/ BeginEpochMerge(r) \/ CompleteEpochMerge(r, path)
     /\ UNCHANGED <<queueVars, OutsideControl, faults>>
  \/ /\ \E u \in Uploads : Upload3(u)
     /\ UNCHANGED <<OutsideControl, faults>>
  \/ /\ \E u \in Uploads : Upload3Fails(u)
     /\ Fault
     /\ UNCHANGED OutsideControl

Worker(w) ==
  \/ \E m \in available : WorkerReceive(w, m)
  \/ RLock(w)
  \/ LedgerBegin(w) \/ LedgerSkip(w) \/ LedgerBusy(w) \/ LedgerBeginStale(w) \/ LedgerBeginFails(w)
  \/ \E s \in Servers : PrepareAnswers(w, s) \/ PrepareFails(w, s)
  \/ \E s \in Servers : CommitAnswers(w, s) \/ CommitUnknown(w, s) \/ CommitFails(w, s)
  \/ LedgerComplete(w) \/ LedgerCompleteFails(w)
  \/ AckAnswers(w) \/ AckFails(w) \/ Notify(w)

Finisher(r) ==
  \/ LockPublishing(r) \/ LockGranted(r)
  \/ \E s \in Servers : MergeDump(r, s)
  \/ PublishResult(r) \/ MergeFails(r)

\* Time passes for a message in flight, or for a processing lease.
Timeouts ==
  \/ /\ \E m \in inflight : VisibilityTimeout(m)
     /\ UNCHANGED <<ledger, tableVars, controlVars, workerVars, late, faults, mergeVars>>
  \/ /\ \E m \in Msgs : ProcessingExpires(m)
     /\ UNCHANGED <<queueVars, tableVars, controlVars, workerVars, late, faults, mergeVars>>

Next ==
  \/ Control
  \/ \E w \in Workers : Worker(w)
  \/ \E r \in Runs : Finisher(r)
  \/ \E c \in late : LateCall(c)
  \/ Timeouts

Spec == Init /\ [][Next]_vars

(***************************************************************************)
(* Fairness.  The Go runtime schedules every runnable goroutine, fires a   *)
(* timer that is due, and grants a Lock once the readers are gone.  The    *)
(* clients are assumed to finish the sessions they opened, because the     *)
(* leader never expires one.  Nothing makes an operator start or abort an  *)
(* epoch, and no failure is owed.                                          *)
(***************************************************************************)
WorkerFairness(w) ==
  /\ WF_vars(\E m \in available : WorkerReceive(w, m))
  /\ SF_vars(RLock(w))
  /\ WF_vars(LedgerBegin(w) \/ LedgerSkip(w) \/ LedgerBusy(w))
  /\ WF_vars(\E s \in Servers : PrepareAnswers(w, s) \/ CommitAnswers(w, s))
  /\ WF_vars(LedgerComplete(w) \/ AckAnswers(w) \/ Notify(w))

FinisherFairness(r) ==
  /\ WF_vars((TimerFires(r) \/ BeginEpochMerge(r) \/ CompleteEpochMerge(r, path))
             /\ UNCHANGED <<queueVars, OutsideControl, faults>>)
  /\ WF_vars(LockPublishing(r) \/ LockGranted(r) \/ PublishResult(r))
  /\ WF_vars(\E s \in Servers : MergeDump(r, s))

ClientFairness(u) ==
  /\ WF_vars(sessions[u] = "admitted" /\ Upload2(u) /\ UNCHANGED <<queueVars, OutsideControl, faults>>)
  /\ WF_vars(Upload3(u) /\ UNCHANGED <<OutsideControl, faults>>)

FairSpec ==
  /\ Spec
  /\ \A w \in Workers : WorkerFairness(w)
  /\ \A r \in Runs : FinisherFairness(r)
  /\ \A u \in Uploads : ClientFairness(u)

-----------------------------------------------------------------------------
(***************************************************************************)
(* Properties                                                              *)
(***************************************************************************)

\* A finisher that was told to run the merge and has not reported back.
Merger(r) == fin[r] \in {"run", "lock", "merge", "merged", "failed"}

\* Whatever timers fire, however aborts and restarts interleave with them,
\* at most one finishEpoch goroutine runs a merge, and it does so only while
\* the control loop is in the Merging state (startMergeIfDrained answers
\* shouldRun to one waiter; beginEpochMerge to none unless it was Active).
MergeExclusive ==
  \A r \in Runs : Merger(r) =>
    /\ epoch.state = "Merging"
    /\ \A q \in Runs : Merger(q) => q = r

\* An epoch that is Closing always has a finisher waiting for it, and a
\* finisher waits only for a Closing epoch: no merge is forgotten and no
\* goroutine is left behind by mergeWaiters, also across AbortEpoch.
ClosingHasWaiter ==
  epoch.state = "Closing" <=> \E r \in Runs : fin[r] = "waiting"

\* An upload whose Upload3 succeeded is in the queue, in flight or committed
\* in the ledger: failures, redelivery and expired leases lose none of them.
NoUploadLost ==
  \A u \in Uploads : acked[u] # 0 =>
    \E m \in Msgs : /\ m.uuid = u
                    /\ m \in available \cup inflight \/ Committed(m)

\* A message the ledger calls committed was XORed into the tables of both
\* servers: a duplicate may be skipped without losing the write.
CommittedOnBoth ==
  \A m \in Msgs : Committed(m) => \A s \in Servers : writes[s][m.uuid] >= 1

\* The processing lease of a message has expired at least once.
LeaseExpired(m) == ledger[m].expired \/ ledger[m].attempt > 1

\* However often SQS delivers a message, and whichever workers take it, its
\* write is XORed at most once into a table (the second XOR would erase it),
\* as long as no call failed and no worker outlived its processing lease.
AtMostOnce ==
  \A u \in Uploads :
    faults = 0 /\ (\A m \in Msgs : m.uuid = u => ~LeaseExpired(m))
      => \A s \in Servers : writes[s][u] <= 1

\* Both servers contribute the same writes to every published result; else
\* the XOR of their tables is noise in every row.  Redelivery and expired
\* leases, which apply a write again, do not matter, since a worker waits for
\* both Prepare answers; a call that failed may be missing at one server.
ReadableResult ==
  faults = 0 =>
    \A e \in EpochIDs : results[e] # NoDump => results[e][0] = results[e][1]

\* An upload is queued under the run that admitted it, unless that run was
\* aborted: a session never outlives the epoch that waits for it in Closing.
SessionKeepsRun ==
  \A u \in Uploads : acked[u] # 0 => acked[u] = admitted[u] \/ admitted[u] \in aborted

\* When the epoch is reported Completed, LastResult names the file of this
\* epoch and the file exists.
CompletedHasResult ==
  epoch.state = "Completed" => lastResult = epoch.id /\ results[lastResult] # NoDump

\* An epoch that went through Closing publishes every upload accepted in it.
\* Only with the memory queue, whose Stats are exact; whatever calls fail.
ClosedRunIsComplete ==
  Backend = "memory" /\ epoch.state = "Completed" /\ starts \in closed =>
    \A u \in Uploads : acked[u] = starts => u \in results[epoch.id][0]

\* An epoch whose timer ran out is published or aborted.
EpochEnds ==
  epoch.state \in {"Active", "Closing", "Merging"}
    ~> epoch.state \in {"Completed", "NoActive"}

\* An accepted upload ends up in the tables of both servers.
AckedIsApplied ==
  \A u \in Uploads : acked[u] # 0 ~> \A s \in Servers : u \in Table(s)

\* All uploads accepted in an epoch are published with the epoch's result.
AcceptedIsPublished ==
  epoch.state = "Completed" =>
    \A u \in Uploads : acked[u] = starts => u \in results[epoch.id][0]

\* A write is published with one epoch only.
PublishedOnce ==
  \A e, f \in EpochIDs :
    e # f /\ results[e] # NoDump /\ results[f] # NoDump
      => results[e][0] \cap results[f][0] = {}
=============================================================================

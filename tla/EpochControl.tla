---------------------------- MODULE EpochControl ---------------------------
(***************************************************************************)
(* The control loop of a shard leader (runLeaderControl in db/server.go):  *)
(* one goroutine owns the epoch, the admitted upload sessions and the      *)
(* finishers that wait for the merge, and handles one command at a time.   *)
(* Every operator below is the whole handling of one command.              *)
(*                                                                         *)
(* A "run" is one successful StartEpoch command.  Each run arms one timer  *)
(* and the timer starts one finishEpoch goroutine, the run's finisher, so  *)
(* the timer and the finisher share one program counter, fin[run]:         *)
(*   idle     the run has not been started                                 *)
(*   armed    the timer is pending                                         *)
(*   begin    the timer fired; beginEpochMergeCommand not handled yet      *)
(*   waiting  the reply channel is in mergeWaiters                         *)
(*   run      answered shouldRun = TRUE; about to Lock amPublishingMutex   *)
(*   lock     Lock called and not granted                                  *)
(*   merge    holds the mutex and runs mergeFn                             *)
(*   merged, failed   mergeFn returned; completeEpochMergeCommand pending  *)
(*   done     returned, or the timer was stopped                           *)
(* Rejected commands change nothing and are not actions.  Session hash     *)
(* keys only reject foreign callers and are left out.                      *)
(***************************************************************************)
EXTENDS UploadQueue

CONSTANTS
  MaxStarts,    \* bound: number of StartEpoch commands that succeed
  RequestIDs    \* epoch ids a StartEpoch command may ask for; 0 asks for ++ID

ASSUME MaxStartsAssumption == MaxStarts \in Nat \ {0}
ASSUME RequestIDsAssumption == RequestIDs \subseteq 0 .. MaxEpochID

Runs == 1 .. MaxStarts

VARIABLES
  peerState,    \* peer RPC connections: "connecting", "ready" or "failed"
  epoch,        \* state.epoch: id and state
  sessions,     \* state.accepted: uuid -> none, admitted (args1), challenged (args2)
  fin,          \* run -> program counter of its timer and finisher
  lastResult,   \* state.lastResultPath: id of the epoch it names, 0 for none
  starts,       \* number of runs started
  admitted,     \* history: uuid -> run that admitted it, 0 for none
  acked,        \* history: uuid -> run in which Upload3 succeeded, 0 for none
  aborted,      \* history: runs ended by AbortEpoch
  closed        \* history: runs that went through Closing

historyVars == <<admitted, acked, aborted, closed>>

controlVars ==
  <<peerState, epoch, sessions, fin, lastResult, starts, historyVars>>

EpochStates == {"NoActive", "Active", "Closing", "Merging", "Completed"}

FinStates == {"idle", "armed", "begin", "waiting", "run", "lock", "merge",
              "merged", "failed", "done"}

ControlTypeOK ==
  /\ peerState \in {"connecting", "ready", "failed"}
  /\ epoch \in [id : 0 .. MaxEpochID, state : EpochStates]
  /\ sessions \in [Uploads -> {"none", "admitted", "challenged"}]
  /\ fin \in [Runs -> FinStates]
  /\ lastResult \in 0 .. MaxEpochID
  /\ starts \in 0 .. MaxStarts
  /\ admitted \in [Uploads -> 0 .. MaxStarts]
  /\ acked \in [Uploads -> 0 .. MaxStarts]
  /\ aborted \subseteq 0 .. MaxStarts
  /\ closed \subseteq 0 .. MaxStarts

ControlInit ==
  /\ peerState = "connecting"
  /\ epoch = [id |-> 0, state |-> "NoActive"]
  /\ sessions = [u \in Uploads |-> "none"]
  /\ fin = [r \in Runs |-> "idle"]
  /\ lastResult = 0
  /\ starts = 0
  /\ admitted = [u \in Uploads |-> 0]
  /\ acked = [u \in Uploads |-> 0]
  /\ aborted = {}
  /\ closed = {}

NoSessions(sess) == \A u \in Uploads : sess[u] = "none"

\* epochTimer.Stop: only a timer that has not fired can be stopped, and the
\* last one started is the only one that may still be pending.
StopTimer(f) == [r \in Runs |-> IF f[r] = "armed" THEN "done" ELSE f[r]]

\* Variant: every waiter is told to run the merge.
ReleaseWaiters_AllRun(f, chosen) ==
  [r \in Runs |-> IF f[r] # "waiting" THEN f[r] ELSE "run"]

\* The replies to the merge waiters: exactly one of them runs the merge.
\* Finishers carry no state of their own, so which one is immaterial.
ReleaseWaiters(f, chosen) ==
  [r \in Runs |-> IF f[r] # "waiting" THEN f[r]
                  ELSE IF r = chosen THEN "run" ELSE "done"]

\* Variant: does not wait for the admitted sessions.
StartMergeIfDrained_IgnoresSessions(sess, drained) ==
  IF epoch.state = "Closing" /\ drained
  THEN /\ epoch' = [epoch EXCEPT !.state = "Merging"]
       /\ \E chosen \in Runs :
            /\ fin[chosen] = "waiting"
            /\ fin' = ReleaseWaiters(fin, chosen)
  ELSE UNCHANGED <<epoch, fin>>

\* Variant: does not wait for the queue.
StartMergeIfDrained_IgnoresQueue(sess, drained) ==
  IF epoch.state = "Closing" /\ NoSessions(sess)
  THEN /\ epoch' = [epoch EXCEPT !.state = "Merging"]
       /\ \E chosen \in Runs :
            /\ fin[chosen] = "waiting"
            /\ fin' = ReleaseWaiters(fin, chosen)
  ELSE UNCHANGED <<epoch, fin>>

\* startMergeIfDrained, run on the sessions and the queue as the command
\* leaves them; drained is what the queue's Stats answer.
StartMergeIfDrained(sess, drained) ==
  IF epoch.state = "Closing" /\ NoSessions(sess) /\ drained
  THEN /\ epoch' = [epoch EXCEPT !.state = "Merging"]
       /\ \E chosen \in Runs :
            /\ (\E r \in Runs : fin[r] = "waiting") => fin[chosen] = "waiting"
            /\ fin' = ReleaseWaiters(fin, chosen)
  ELSE UNCHANGED <<epoch, fin>>

-----------------------------------------------------------------------------

\* openConnections ends: updatePeerConnectionStateCommand.
PeerConnections(state) ==
  /\ peerState = "connecting"
  /\ peerState' = state
  /\ UNCHANGED <<epoch, sessions, fin, lastResult, starts, historyVars>>

\* startEpochCommand.  The id may repeat an earlier one: the coordinator
\* reuses the id of a start it had to abort.
StartEpoch(id) ==
  LET next == IF id > 0 THEN id ELSE epoch.id + 1 IN
  /\ peerState = "ready"
  /\ epoch.state \notin {"Active", "Closing", "Merging"}
  /\ starts < MaxStarts
  /\ next \in EpochIDs
  /\ epoch' = [id |-> next, state |-> "Active"]
  /\ starts' = starts + 1
  /\ fin' = [StopTimer(fin) EXCEPT ![starts + 1] = "armed"]
  /\ UNCHANGED <<peerState, sessions, lastResult, historyVars>>

\* upload1Command.  uuids are random, so a new session never reuses one.
Upload1(u) ==
  /\ epoch.state = "Active"
  /\ sessions[u] = "none"
  /\ admitted[u] = 0
  /\ sessions' = [sessions EXCEPT ![u] = "admitted"]
  /\ admitted' = [admitted EXCEPT ![u] = starts]
  /\ UNCHANGED <<peerState, epoch, fin, lastResult, starts, acked, aborted, closed>>

\* upload2Command: whatever the state of the epoch.
Upload2(u) ==
  /\ sessions[u] # "none"
  /\ sessions' = [sessions EXCEPT ![u] = "challenged"]
  /\ UNCHANGED <<peerState, epoch, fin, lastResult, starts, historyVars>>

\* Variant: the epoch id of the message is not validated.
Upload3_NoEpochCheck(u) ==
  /\ sessions[u] = "challenged"
  /\ Enqueue([uuid |-> u, epoch |-> epoch.id])
  /\ sessions' = [sessions EXCEPT ![u] = "none"]
  /\ acked' = [acked EXCEPT ![u] = starts]
  /\ \E drained \in DrainedReadings(available', inflight') :
       StartMergeIfDrained(sessions', drained)
  /\ UNCHANGED <<peerState, lastResult, starts, admitted, aborted, closed>>

\* upload3Command: the message is tagged with the epoch of the moment, which
\* Enqueue requires to be positive, and the session is forgotten.
Upload3(u) ==
  /\ sessions[u] = "challenged"
  /\ epoch.id > 0
  /\ Enqueue([uuid |-> u, epoch |-> epoch.id])
  /\ sessions' = [sessions EXCEPT ![u] = "none"]
  /\ acked' = [acked EXCEPT ![u] = starts]
  /\ \E drained \in DrainedReadings(available', inflight') :
       StartMergeIfDrained(sessions', drained)
  /\ UNCHANGED <<peerState, lastResult, starts, admitted, aborted, closed>>

\* upload3Command when the SQS Enqueue fails: S3 put, standby send or active
\* send.  The active send may have reached the queue although it timed out.
Upload3Fails(u) ==
  /\ Backend = "sqs"
  /\ sessions[u] = "challenged"
  /\ epoch.id > 0
  /\ Enqueue([uuid |-> u, epoch |-> epoch.id]) \/ UNCHANGED queueVars
  /\ UNCHANGED controlVars

\* The runtime starts the finisher of a timer that was not stopped.
TimerFires(r) ==
  /\ fin[r] = "armed"
  /\ fin' = [fin EXCEPT ![r] = "begin"]
  /\ UNCHANGED <<peerState, epoch, sessions, lastResult, starts, historyVars>>

\* beginEpochMergeCommand.  It names no epoch: it closes whichever is active.
\* With no session left the merge starts at once, whatever the queue holds.
BeginEpochMerge(r) ==
  /\ fin[r] = "begin"
  /\ \/ /\ epoch.state = "Active"
        /\ ~NoSessions(sessions)
        /\ epoch' = [epoch EXCEPT !.state = "Closing"]
        /\ fin' = [StopTimer(fin) EXCEPT ![r] = "waiting"]
        /\ closed' = closed \cup {starts}
     \/ /\ epoch.state = "Active"
        /\ NoSessions(sessions)
        /\ epoch' = [epoch EXCEPT !.state = "Merging"]
        /\ fin' = [StopTimer(fin) EXCEPT ![r] = "run"]
        /\ UNCHANGED closed
     \/ /\ epoch.state = "Closing"
        /\ fin' = [fin EXCEPT ![r] = "waiting"]
        /\ UNCHANGED <<epoch, closed>>
     \/ /\ epoch.state \notin {"Active", "Closing"}
        /\ fin' = [fin EXCEPT ![r] = "done"]
        /\ UNCHANGED <<epoch, closed>>
  /\ UNCHANGED <<peerState, sessions, lastResult, starts, admitted, acked, aborted>>

\* Variant: a failed merge completes the epoch too.
CompleteEpochMerge_IgnoresError(r, path) ==
  /\ fin[r] \in {"merged", "failed"}
  /\ epoch' = [epoch EXCEPT !.state = "Completed"]
  /\ lastResult' = path
  /\ fin' = [fin EXCEPT ![r] = "done"]
  /\ UNCHANGED <<peerState, sessions, starts, historyVars>>

\* completeEpochMergeCommand; path names the epoch of the result file.  After
\* an error the epoch stays Merging.
CompleteEpochMerge(r, path) ==
  /\ \/ /\ fin[r] = "merged"
        /\ epoch' = [epoch EXCEPT !.state = "Completed"]
        /\ lastResult' = path
     \/ /\ fin[r] = "failed"
        /\ UNCHANGED <<epoch, lastResult>>
  /\ fin' = [fin EXCEPT ![r] = "done"]
  /\ UNCHANGED <<peerState, sessions, starts, historyVars>>

\* ingestionQueueDrainedCommand.
IngestionQueueDrained ==
  /\ \E drained \in DrainedReadings(available, inflight) :
       StartMergeIfDrained(sessions, drained)
  /\ UNCHANGED <<peerState, sessions, lastResult, starts, historyVars>>

\* Variant: the merge waiters are not released.
AbortEpoch_KeepsWaiters(id) ==
  /\ epoch.id = id
  /\ epoch.state \in {"Active", "Closing"}
  /\ fin' = StopTimer(fin)
  /\ epoch' = [id |-> 0, state |-> "NoActive"]
  /\ aborted' = aborted \cup {starts}
  /\ UNCHANGED <<peerState, sessions, lastResult, starts, admitted, acked, closed>>

\* abortEpochCommand: the sessions of the epoch stay admitted.
AbortEpoch(id) ==
  /\ epoch.id = id
  /\ epoch.state \in {"Active", "Closing"}
  /\ fin' = [r \in Runs |-> IF fin[r] \in {"armed", "waiting"} THEN "done" ELSE fin[r]]
  /\ epoch' = [id |-> 0, state |-> "NoActive"]
  /\ aborted' = aborted \cup {starts}
  /\ UNCHANGED <<peerState, sessions, lastResult, starts, admitted, acked, closed>>
=============================================================================

---------------------------- MODULE UploadQueue ----------------------------
(***************************************************************************)
(* The completed-upload ingestion queue between the leader's control loop  *)
(* and its workers (db/ingestion_queue.go, db/ingestion_sqs.go).           *)
(*                                                                         *)
(* A message is identified by the pair that every consumer tells apart:    *)
(* the upload's uuid and the epoch id it was tagged with.  Payload, route  *)
(* and time stamps are left out.  The memory queue is FIFO and SQS is not; *)
(* no property below depends on the order, so both are sets.  A worker     *)
(* receives one message at a time (defaultIngestionReceiveBatchSize = 1).  *)
(* Two SQS messages with the same pair count as one: what a second copy    *)
(* can do, being received while the first is in flight, redelivery does.   *)
(***************************************************************************)
EXTENDS Naturals, FiniteSets

CONSTANTS
  Uploads,      \* upload uuids (random 63-bit values in the code)
  MaxEpochID,   \* bound: largest epoch id
  Backend       \* "memory" or "sqs"

ASSUME BackendAssumption == Backend \in {"memory", "sqs"}
ASSUME MaxEpochIDAssumption == MaxEpochID \in Nat \ {0}

EpochIDs == 1 .. MaxEpochID

\* CompletedUploadMessage
Msgs == [uuid : Uploads, epoch : EpochIDs]

VARIABLES
  available,    \* messages that Receive may hand out
  inflight      \* received and not yet acked

queueVars == <<available, inflight>>

QueueTypeOK ==
  /\ available \subseteq Msgs
  /\ inflight \subseteq Msgs

QueueInit ==
  /\ available = {}
  /\ inflight = {}

\* Variant: a full queue (capacity 1) drops the message and reports success.
Enqueue_DropsOverflow(m) ==
  /\ available' = IF available = {} THEN {m} ELSE available
  /\ UNCHANGED inflight

\* The message becomes visible to the workers.
Enqueue(m) ==
  /\ available' = available \cup {m}
  /\ UNCHANGED inflight

Receive(m) ==
  /\ m \in available
  /\ available' = available \ {m}
  /\ inflight' = inflight \cup {m}

\* Ack by receipt handle.  SQS deletes the message even if its visibility
\* timeout already made it available again.
Ack(m) ==
  /\ inflight' = inflight \ {m}
  /\ available' = IF m \in inflight THEN available ELSE available \ {m}

\* SQS only: a received message that was not deleted in time is redelivered.
\* The memory queue keeps an unacked message in flight for ever.
VisibilityTimeout(m) ==
  /\ Backend = "sqs"
  /\ m \in inflight
  /\ inflight' = inflight \ {m}
  /\ available' = available \cup {m}

\* What Stats may answer to "depth = 0 and inflight = 0".  The memory queue
\* answers under its mutex.  SQS counts are approximate, and an error of
\* GetQueueAttributes is reported as an empty queue.
DrainedReadings(av, inf) ==
  IF Backend = "memory" THEN {av = {} /\ inf = {}} ELSE BOOLEAN
=============================================================================

---------------------------- MODULE UploadLedger ---------------------------
(***************************************************************************)
(* The completed-upload ledger (db/completed_upload_ledger.go): one record *)
(* per replica, shard, epoch and uuid that leases the processing of a      *)
(* message to one attempt until a TTL runs out, and remembers the commit.  *)
(*                                                                         *)
(* Attempt ids are globally unique strings in the code; they are compared  *)
(* only within one key, so a counter per key tells apart the same ones.    *)
(* The clock is abstracted to the one comparison made with it: whether the *)
(* processing lease has expired.  With the "sqs" backend the ledger is the *)
(* DynamoDB table, else the map in memory.                                 *)
(***************************************************************************)
EXTENDS UploadQueue

CONSTANT MaxAttempts  \* bound: processing leases granted per message

ASSUME MaxAttemptsAssumption == MaxAttempts \in Nat \ {0}

VARIABLE ledger       \* message -> ledger record

Attempts == 0 .. MaxAttempts

LedgerRecord ==
  [state : {"none", "processing", "committed"}, attempt : Attempts, expired : BOOLEAN]

LedgerTypeOK == ledger \in [Msgs -> LedgerRecord]

LedgerInit ==
  ledger = [m \in Msgs |-> [state |-> "none", attempt |-> 0, expired |-> FALSE]]

Committed(m) == ledger[m].state = "committed"

\* BeginProcessing returns errCompletedUploadProcessingBusy.
Busy(m) == ledger[m].state = "processing" /\ ~ledger[m].expired

\* Variant: a live processing lease is ignored.
BeginProcessing_IgnoresBusy(m) ==
  /\ ~Committed(m)
  /\ ledger' = [ledger EXCEPT ![m] =
       [state |-> "processing", attempt |-> 1, expired |-> FALSE]]

\* BeginProcessing grants a new attempt: no record, or an expired lease.
BeginProcessing(m) ==
  /\ ~Committed(m)
  /\ ~Busy(m)
  /\ ledger[m].attempt < MaxAttempts
  /\ ledger' = [ledger EXCEPT ![m] =
       [state |-> "processing", attempt |-> ledger[m].attempt + 1, expired |-> FALSE]]

\* The DynamoDB ledger re-reads the record after its conditional update was
\* refused.  That read is eventually consistent: it may return an earlier
\* version, a lease that has expired since, and BeginProcessing then answers
\* with neither an error nor a lease.  The field expired of a committed
\* record tells whether such a version existed.
ReadsExpiredLease(m) ==
  /\ Backend = "sqs"
  /\ Busy(m) \/ Committed(m)
  /\ ledger[m].attempt > 1 \/ ledger[m].expired

\* Whether CompleteProcessing(m, a) answers without error; attempt 0 is the
\* missing lease.  An attempt that has expired but has not been taken over
\* may still complete.
MayComplete(m, a) ==
  /\ a # 0
  /\ Committed(m) \/ (ledger[m].state = "processing" /\ ledger[m].attempt = a)

CompleteProcessing(m, a) ==
  /\ MayComplete(m, a)
  /\ ledger' = [ledger EXCEPT ![m].state = "committed"]

\* The TTL of a processing lease passes.  Bounded: only while MaxAttempts
\* leaves room for the attempt that may take over.
ProcessingExpires(m) ==
  /\ Busy(m)
  /\ ledger[m].attempt < MaxAttempts
  /\ ledger' = [ledger EXCEPT ![m].expired = TRUE]
=============================================================================

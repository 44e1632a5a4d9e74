--------------------------- MODULE UploadRouting ---------------------------
(***************************************************************************)
(* An upload on its way from a client through a coordinator to the shard   *)
(* that owns its row (client/client.go, Upload1 to Upload3 of              *)
(* coordinator/coordinator.go, the session store of controlstore/).        *)
(*                                                                         *)
(* A client has one call under way at a time, so the handler that serves   *)
(* it is kept in client[k]: at is its place, via the coordinator it runs   *)
(* in, the other fields what it carries from step to step.  A step is one  *)
(* call of the store, of a shard or of the coordinator's actor.            *)
(*                                                                         *)
(* Each of the three calls may go to another coordinator, which is what    *)
(* the shared session store is for; the program in client/ keeps one       *)
(* connection, a special case.  uuids are random: a new one is unused.     *)
(* Hash keys are left out, clients use the one they were given.            *)
(*                                                                         *)
(* Epochs open and close in the order EpochCycle describes: the shards     *)
(* start, the store, the coordinator's count; the count stops, the store   *)
(* completes, the shards close by their own timers.  StartEpoch is asked   *)
(* for the next id, as the program's admin command does.                   *)
(*                                                                         *)
(* A fault is a call that returns an error; a misread one of the reads     *)
(* that getItem of DynamoDB does not ask to be consistent: it returns an   *)
(* old value of the item, or nothing for one just written.                 *)
(***************************************************************************)
EXTENDS Naturals, FiniteSets

CONSTANTS
  Backend,      \* "memory" or "dynamodb": the control and the session store
  Clients,      \* goroutines of the clients in hammer mode
  Coordinators, \* coordinator processes
  Holder,       \* the coordinator that holds the lease
  MaxShards,    \* shards in the inventory
  SeedShards,   \* shards of the first configuration
  MaxEpoch,     \* bound: epoch ids
  MaxRequests,  \* bound: requests of a client
  MaxUuid,      \* bound: uuids drawn
  MaxMishaps    \* bound: faults, misreads, coordinator crashes and shards
                \* that are restarted or promoted, together

ASSUME BackendAssumption == Backend \in {"memory", "dynamodb"}
ASSUME HolderAssumption == Holder \in Coordinators
ASSUME MaxShardsAssumption == MaxShards \in Nat \ {0}
ASSUME SeedAssumption == SeedShards \in 1 .. MaxShards
ASSUME BoundsAssumption ==
  /\ MaxEpoch \in Nat /\ MaxRequests \in Nat /\ MaxUuid \in Nat
  /\ MaxMishaps \in Nat

Shards == 1 .. MaxShards
Uuids == 1 .. MaxUuid
EpochIDs == 0 .. MaxEpoch

VARIABLES
  epoch,    \* the store's epoch: id and state
  count,    \* shards of the configuration in the store
  counts,   \* the numbers of shards it had before
  stored,   \* uuids of the session store
  record,   \* uuid -> epoch and shard of its session, written once
  shard,    \* shard -> epoch id and state of its leader's control loop
  open,     \* shard -> uuids of its sessions
  failed,   \* StartEpoch failed after the store's StartEpoch
  cache,    \* coordinator -> uuids of c.sessions
  clients,  \* coordinator -> shards it has an RPC client for
  metrics,  \* the holder's activeScalingMetrics
  client,   \* client -> its loop and the call under way
  stop,     \* the stop flag of runHammerClients
  uuids,    \* number of uuids drawn
  used,     \* what was used of the bounds
  accepted  \* history: requests the shards put in their queues

storeVars == <<epoch, count, counts, stored, record>>
shardVars == <<shard, open, failed>>
vars == <<storeVars, shardVars, cache, clients, metrics, client, stop, uuids, used, accepted>>

Handling == {"u1_epoch", "u1_config", "u1_put", "u1_shard", "u1_delete", "u1_cache",
             "u2_session", "u2_epoch", "u2_shard",
             "u3_session", "u3_epoch", "u3_shard", "u3_delete", "u3_record"}

Errors == {"none", "no_epoch", "lost", "bogus", "standby", "other"}

NoRecord == [epoch |-> 0, shard |-> 0]

\* The loop of a client and the handler of its call.
ClientRecord ==
  [at : Handling \cup {"idle", "done", "failed"}, via : Coordinators, row : Shards,
   epoch : EpochIDs, uuid : 0 .. MaxUuid, request : 0 .. MaxRequests, error : Errors]

\* An upload in the queue of a shard, with the epoch of its session and of
\* the shard that took it.
AcceptedRecord ==
  [client : Clients, request : 1 .. MaxRequests, uuid : Uuids,
   session : EpochIDs, epoch : EpochIDs]

Used == [faults : 0 .. MaxMishaps, misreads : 0 .. MaxMishaps,
         crashes : 0 .. MaxMishaps, restarts : 0 .. MaxMishaps]

TypeOK ==
  /\ epoch \in [id : EpochIDs, state : {"NoActive", "Active", "Completed"}]
  /\ count \in Shards
  /\ counts \subseteq Shards
  /\ stored \subseteq Uuids
  /\ record \in [Uuids -> [epoch : EpochIDs, shard : 0 .. MaxShards]]
  /\ shard \in [Shards -> [id : EpochIDs, state : {"Standby", "NoActive", "Active", "Closing", "Completed"}]]
  /\ open \in [Shards -> SUBSET Uuids]
  /\ failed \in BOOLEAN
  /\ cache \in [Coordinators -> SUBSET Uuids]
  /\ clients \in [Coordinators -> SUBSET Shards]
  /\ metrics \in [epoch : EpochIDs, count : Nat, on : BOOLEAN]
  /\ client \in [Clients -> ClientRecord]
  /\ stop \in BOOLEAN
  /\ uuids \in 0 .. MaxUuid
  /\ used \in Used
  /\ accepted \subseteq AcceptedRecord

Init ==
  /\ epoch = [id |-> 0, state |-> "NoActive"]
  /\ count = SeedShards
  /\ counts = {}
  /\ stored = {}
  /\ record = [u \in Uuids |-> NoRecord]
  /\ shard = [s \in Shards |-> [id |-> 0, state |-> "NoActive"]]
  /\ open = [s \in Shards |-> {}]
  /\ failed = FALSE
  /\ cache = [c \in Coordinators |-> {}]
  /\ clients = [c \in Coordinators |-> 1 .. SeedShards]
  /\ metrics = [epoch |-> 0, count |-> 0, on |-> FALSE]
  /\ client = [k \in Clients |-> [at |-> "idle", via |-> Holder, row |-> 1, epoch |-> 0,
                                  uuid |-> 0, request |-> 0, error |-> "none"]]
  /\ stop = FALSE
  /\ uuids = 0
  /\ used = [faults |-> 0, misreads |-> 0, crashes |-> 0, restarts |-> 0]
  /\ accepted = {}

-----------------------------------------------------------------------------
(***************************************************************************)
(* The client: runClientLoop, uploadWithCoordinatorRetry, tryUpload        *)
(***************************************************************************)

At(k, place) == client[k].at = place

Goto(k, place) == client' = [client EXCEPT ![k].at = place] /\ UNCHANGED stop

\* The client calls Upload1 of coordinator c for its request.
Calling(c, row, request) ==
  [at |-> "u1_epoch", via |-> c, row |-> row, epoch |-> 0, uuid |-> 0, request |-> request,
   error |-> "none"]

\* Variant: every error is worth another attempt.
Retryable_Any(error) == error # "none"

\* isCoordinatorRetryableError; no upload is answered "Coordinator not active".
Retryable(error) == error = "lost"

\* The call ends with an error.  A retryable one begins the upload anew, under
\* a new uuid; any other ends the goroutine, and the lack of an epoch stops all.
Fails(k, error) ==
  IF Retryable(error)
  THEN /\ \E c \in Coordinators :
            client' = [client EXCEPT ![k] = Calling(c, @.row, @.request)]
       /\ UNCHANGED stop
  ELSE /\ client' = [client EXCEPT ![k].at = "failed", ![k].error = error]
       /\ stop' = (stop \/ error = "no_epoch")

\* Another mishap is within the bound.
Unspent == used.faults + used.misreads + used.crashes + used.restarts < MaxMishaps

\* A call of the store or of a shard returns an error.
Fault ==
  /\ Unspent
  /\ used' = [used EXCEPT !.faults = @ + 1]

NoFault == UNCHANGED used

\* A read of the store returns what is not, or not yet, there.
Misread ==
  /\ Backend = "dynamodb"
  /\ Unspent
  /\ used' = [used EXCEPT !.misreads = @ + 1]

Read(exact) == IF exact THEN NoFault ELSE Misread

\* nextMessage and the first call.  The row stands for the shard that has it;
\* it is drawn from the height the table had when the client was started.
NextRequest(k, s, c) ==
  /\ At(k, "idle")
  /\ ~stop
  /\ client[k].request < MaxRequests
  /\ client' = [client EXCEPT ![k] = Calling(c, s, @.request + 1)]
  /\ UNCHANGED <<storeVars, shardVars, cache, clients, metrics, stop, uuids, used, accepted>>

\* The client was told to stop; bound: it has made its requests.
ClientStops(k) ==
  /\ At(k, "idle")
  /\ stop \/ client[k].request = MaxRequests
  /\ Goto(k, "done")
  /\ UNCHANGED <<storeVars, shardVars, cache, clients, metrics, uuids, used, accepted>>

-----------------------------------------------------------------------------
(***************************************************************************)
(* Upload1                                                                 *)
(***************************************************************************)

\* acceptingEpochFromControlStore: the epoch is active, or one of the states
\* before it was.
Upload1ReadsEpoch(k) ==
  /\ At(k, "u1_epoch")
  /\ \/ /\ \E id \in 1 .. epoch.id :
             /\ Read(epoch = [id |-> id, state |-> "Active"])
             /\ client' = [client EXCEPT ![k].at = "u1_config", ![k].epoch = id]
        /\ UNCHANGED stop
     \/ (Read(epoch.state # "Active") \/ Fault) /\ Fails(k, "no_epoch")
  /\ UNCHANGED <<storeVars, shardVars, cache, clients, metrics, uuids, accepted>>

\* activeShardConfig and routeShard; the row may be outside the table by now,
\* and the shard one that the coordinator has no client for.
Upload1ReadsConfig(k) ==
  LET s == client[k].row IN
  /\ At(k, "u1_config")
  /\ \/ \E seen \in {count} \cup counts :
          /\ Read(seen = count)
          /\ \/ s <= seen /\ s \in clients[client[k].via] /\ Goto(k, "u1_put")
             \/ (s > seen \/ s \notin clients[client[k].via]) /\ Fails(k, "other")
     \/ Fault /\ Fails(k, "other")
  /\ UNCHANGED <<storeVars, shardVars, cache, clients, metrics, uuids, accepted>>

\* Variant: the session is kept in the memory of the coordinator only.
Upload1PutsSession_CacheOnly(k) ==
  /\ At(k, "u1_put")
  /\ uuids < MaxUuid
  /\ uuids' = uuids + 1
  /\ record' = [record EXCEPT ![uuids'] = [epoch |-> client[k].epoch, shard |-> client[k].row]]
  /\ client' = [client EXCEPT ![k].at = "u1_shard", ![k].uuid = uuids']
  /\ NoFault
  /\ UNCHANGED <<epoch, count, counts, stored, shardVars, cache, clients, metrics, stop, accepted>>

\* PutSession under a new uuid.
Upload1PutsSession(k) ==
  /\ At(k, "u1_put")
  /\ uuids < MaxUuid
  /\ uuids' = uuids + 1
  /\ \/ /\ stored' = stored \cup {uuids'}
        /\ record' = [record EXCEPT ![uuids'] = [epoch |-> client[k].epoch, shard |-> client[k].row]]
        /\ client' = [client EXCEPT ![k].at = "u1_shard", ![k].uuid = uuids']
        /\ NoFault
        /\ UNCHANGED stop
     \/ /\ Fault
        /\ \/ /\ stored' = stored \cup {uuids'}
              /\ record' = [record EXCEPT ![uuids'] = [epoch |-> client[k].epoch,
                                                       shard |-> client[k].row]]
           \/ UNCHANGED <<stored, record>>
        /\ Fails(k, "other")
  /\ UNCHANGED <<epoch, count, counts, shardVars, cache, clients, metrics, accepted>>

\* A standby replica takes no uploads; other replicas look further.
Refusal(s, otherwise) == IF shard[s].state = "Standby" THEN "standby" ELSE otherwise

\* The shard admits the session, whatever its epoch is, or has none active.
Upload1AtShard(k) ==
  LET s == client[k].row
      admit == open' = [open EXCEPT ![s] = @ \cup {client[k].uuid}]
  IN
  /\ At(k, "u1_shard")
  /\ \/ shard[s].state = "Active" /\ admit /\ Goto(k, "u1_cache") /\ NoFault
     \/ /\ shard[s].state # "Active"
        /\ client' = [client EXCEPT ![k].at = "u1_delete", ![k].error = Refusal(s, "no_epoch")]
        /\ NoFault
        /\ UNCHANGED <<open, stop>>
     \/ /\ Fault
        /\ (shard[s].state = "Active" /\ admit) \/ UNCHANGED open
        /\ client' = [client EXCEPT ![k].at = "u1_delete", ![k].error = "other"]
        /\ UNCHANGED stop
  /\ UNCHANGED <<storeVars, shard, failed, cache, clients, metrics, uuids, accepted>>

\* The session of a failed Upload1 is deleted; if that fails, it stays.
Upload1DeletesSession(k) ==
  /\ At(k, "u1_delete")
  /\ \/ stored' = stored \ {client[k].uuid} /\ NoFault
     \/ Fault /\ UNCHANGED stored
  /\ Fails(k, client[k].error)
  /\ UNCHANGED <<epoch, count, counts, record, shardVars, cache, clients, metrics, uuids, accepted>>

\* cacheSession and the answer; the client calls Upload2.
Upload1Answers(k) ==
  /\ At(k, "u1_cache")
  /\ cache' = [cache EXCEPT ![client[k].via] = @ \cup {client[k].uuid}]
  /\ \E c \in Coordinators : client' = [client EXCEPT ![k].at = "u2_session", ![k].via = c]
  /\ UNCHANGED <<storeVars, shardVars, clients, metrics, stop, uuids, used, accepted>>

-----------------------------------------------------------------------------
(***************************************************************************)
(* Upload2 and Upload3                                                     *)
(***************************************************************************)

\* cachedOrStoredSession; a failed read is answered like an unknown uuid.  A
\* session that was deleted is not asked for again.
FindsSession(k, from, to) ==
  LET u == client[k].uuid
      c == client[k].via
  IN
  /\ At(k, from)
  /\ \/ u \in cache[c] \cup stored /\ Goto(k, to) /\ NoFault /\ cache' = [cache EXCEPT ![c] = @ \cup {u}]
     \/ u \notin cache[c] \cup stored /\ Fails(k, "bogus") /\ NoFault /\ UNCHANGED cache
     \/ u \notin cache[c] /\ (Fault \/ Misread) /\ Fails(k, "bogus") /\ UNCHANGED cache
  /\ UNCHANGED <<storeVars, shardVars, clients, metrics, uuids, accepted>>

\* Variant: an answer of its own, which the client does not know.
RequiresSessionEpoch_Expired(k, from, to) ==
  LET same == epoch.id > 0 /\ epoch.id = record[client[k].uuid].epoch IN
  /\ At(k, from)
  /\ \/ same /\ Goto(k, to)
     \/ ~same /\ Fails(k, "expired")
  /\ NoFault
  /\ UNCHANGED <<storeVars, shardVars, cache, clients, metrics, uuids, accepted>>

\* currentEpochFromControlStore: the epoch of the session, open or not.  The
\* coordinator needs a client for its shard.
RequiresSessionEpoch(k, from, to) ==
  LET u == client[k].uuid
      reached == record[u].shard \in clients[client[k].via]
  IN
  /\ At(k, from)
  /\ \/ \E seen \in 0 .. epoch.id :
          LET same == seen > 0 /\ seen = record[u].epoch IN
          /\ Read(seen = epoch.id)
          /\ \/ same /\ reached /\ Goto(k, to)
             \/ same /\ ~reached /\ Fails(k, "other")
             \/ ~same /\ Fails(k, "no_epoch")
     \/ Fault /\ Fails(k, "no_epoch")
  /\ UNCHANGED <<storeVars, shardVars, cache, clients, metrics, uuids, accepted>>

\* A shard that does not know the session answers "Bogus UUID", which the
\* coordinator makes "Shard session lost".
Upload2AtShard(k) ==
  LET s == record[client[k].uuid].shard
      known == client[k].uuid \in open[s]
  IN
  /\ At(k, "u2_shard")
  /\ \/ /\ known
        /\ \E c \in Coordinators : client' = [client EXCEPT ![k].at = "u3_session", ![k].via = c]
        /\ NoFault
        /\ UNCHANGED stop
     \/ ~known /\ Fails(k, Refusal(s, "lost")) /\ NoFault
     \/ Fault /\ Fails(k, "other")
  /\ UNCHANGED <<storeVars, shardVars, cache, clients, metrics, uuids, accepted>>

\* The message is enqueued under the epoch of the shard, the session is
\* forgotten.  An error may leave the message in the queue, and with it the
\* session (the queue's answer was lost) or without (the shard's was).
Upload3AtShard(k) ==
  LET u == client[k].uuid
      s == record[u].shard
      known == u \in open[s]
      forget == open' = [open EXCEPT ![s] = @ \ {u}]
      enqueue == accepted' = accepted \cup
                   {[client |-> k, request |-> client[k].request, uuid |-> u,
                     session |-> record[u].epoch, epoch |-> shard[s].id]}
  IN
  /\ At(k, "u3_shard")
  /\ \/ known /\ enqueue /\ forget /\ Goto(k, "u3_delete") /\ NoFault
     \/ ~known /\ Fails(k, Refusal(s, "lost")) /\ NoFault /\ UNCHANGED <<open, accepted>>
     \/ /\ Fault
        /\ \/ known /\ enqueue /\ (forget \/ UNCHANGED open)
           \/ UNCHANGED <<open, accepted>>
        /\ Fails(k, "other")
  /\ UNCHANGED <<storeVars, shard, failed, cache, clients, metrics, uuids>>

\* DeleteSession; a missing session is no error.
Upload3DeletesSession(k) ==
  /\ At(k, "u3_delete")
  /\ \/ stored' = stored \ {client[k].uuid} /\ Goto(k, "u3_record") /\ NoFault
     \/ /\ Fault
        /\ stored' = stored \ {client[k].uuid} \/ UNCHANGED stored
        /\ Fails(k, "other")
  /\ UNCHANGED <<epoch, count, counts, record, shardVars, cache, clients, metrics, uuids, accepted>>

\* Variant: the epoch of the session is not compared.
RecordUpload3Success_AnyEpoch(k) ==
  /\ At(k, "u3_record")
  /\ cache' = [cache EXCEPT ![client[k].via] = @ \ {client[k].uuid}]
  /\ metrics' = IF client[k].via = Holder /\ metrics.on
                THEN [metrics EXCEPT !.count = @ + 1] ELSE metrics
  /\ Goto(k, "idle")
  /\ UNCHANGED <<storeVars, shardVars, clients, uuids, used, accepted>>

\* recordUpload3Success.  Only the coordinator that answers Upload3 forgets
\* the session; only the one that started the epoch counts.
RecordUpload3Success(k) ==
  /\ At(k, "u3_record")
  /\ cache' = [cache EXCEPT ![client[k].via] = @ \ {client[k].uuid}]
  /\ metrics' = IF /\ client[k].via = Holder
                   /\ metrics.on
                   /\ metrics.epoch = record[client[k].uuid].epoch
                THEN [metrics EXCEPT !.count = @ + 1] ELSE metrics
  /\ Goto(k, "idle")
  /\ UNCHANGED <<storeVars, shardVars, clients, uuids, used, accepted>>

Upload1(k) ==
  \/ Upload1ReadsEpoch(k) \/ Upload1ReadsConfig(k) \/ Upload1PutsSession(k)
  \/ Upload1AtShard(k) \/ Upload1DeletesSession(k) \/ Upload1Answers(k)

Upload2(k) ==
  \/ FindsSession(k, "u2_session", "u2_epoch")
  \/ RequiresSessionEpoch(k, "u2_epoch", "u2_shard")
  \/ Upload2AtShard(k)

Upload3(k) ==
  \/ FindsSession(k, "u3_session", "u3_epoch")
  \/ RequiresSessionEpoch(k, "u3_epoch", "u3_shard")
  \/ Upload3AtShard(k) \/ Upload3DeletesSession(k) \/ RecordUpload3Success(k)

-----------------------------------------------------------------------------
(***************************************************************************)
(* Epochs, configurations, crashes                                         *)
(***************************************************************************)

\* StartEpoch may be called: no epoch is open, or only in the store.
MayStart == (epoch.state # "Active" \/ failed) /\ ~metrics.on

\* StartEpoch of the coordinator has shard s start the next epoch.
ShardStarts(s) ==
  /\ MayStart
  /\ epoch.id < MaxEpoch
  /\ s <= count
  /\ shard[s].state \in {"Standby", "NoActive", "Completed"}
  /\ shard[s].id <= epoch.id
  /\ shard' = [shard EXCEPT ![s] = [id |-> epoch.id + 1, state |-> "Active"]]
  /\ UNCHANGED <<storeVars, open, failed, cache, clients, metrics, client, stop, uuids, used, accepted>>

\* abortStarted, before the store's StartEpoch or after; the shard keeps its
\* sessions.
ShardAborts(s) ==
  /\ \/ MayStart /\ shard[s].id = epoch.id + 1 /\ Fault
     \/ failed /\ shard[s].id = epoch.id /\ NoFault
  /\ shard[s].state \in {"Active", "Closing"}
  /\ shard' = [shard EXCEPT ![s] = [id |-> 0, state |-> "NoActive"]]
  /\ UNCHANGED <<storeVars, open, failed, cache, clients, metrics, client, stop, uuids, accepted>>

\* All shards have started: StartEpoch of the store.  DynamoDB keeps an epoch
\* that is open.
StoreStarts ==
  /\ MayStart
  /\ epoch.state = "Active" => Backend = "memory"
  /\ epoch.id < MaxEpoch
  /\ \A s \in 1 .. count : shard[s].id = epoch.id + 1
  /\ epoch' = [id |-> epoch.id + 1, state |-> "Active"]
  /\ failed' = FALSE
  /\ UNCHANGED <<count, counts, stored, record, shard, open, cache, clients, metrics, client, stop,
                 uuids, used, accepted>>

\* transitionEpochCycleStarted returns an error: the epoch stays open in the
\* store and is not counted.
StartFails ==
  /\ epoch.state = "Active"
  /\ metrics.epoch < epoch.id
  /\ ~failed
  /\ Fault
  /\ failed' = TRUE
  /\ UNCHANGED <<storeVars, shard, open, cache, clients, metrics, client, stop, uuids, accepted>>

\* commitStartedEpoch and commitCompletedEpoch, as far as the count goes.
CountStarts ==
  /\ epoch.state = "Active"
  /\ metrics.epoch < epoch.id
  /\ ~failed
  /\ metrics' = [epoch |-> epoch.id, count |-> 0, on |-> TRUE]
  /\ UNCHANGED <<storeVars, shardVars, cache, clients, client, stop, uuids, used, accepted>>

CountEnds ==
  /\ metrics.on
  /\ metrics' = [metrics EXCEPT !.on = FALSE]
  /\ UNCHANGED <<storeVars, shardVars, cache, clients, client, stop, uuids, used, accepted>>

\* CompleteEpoch of the store.
StoreCompletes ==
  /\ epoch.state = "Active"
  /\ metrics.epoch = epoch.id
  /\ ~metrics.on
  /\ epoch' = [epoch EXCEPT !.state = "Completed"]
  /\ UNCHANGED <<count, counts, stored, record, shardVars, cache, clients, metrics, client, stop,
                 uuids, used, accepted>>

\* A shard's timer, and the merge once its sessions are finished.
ShardCloses(s) ==
  /\ shard[s].state \in {"Active", "Closing"}
  /\ shard' = [shard EXCEPT ![s].state = IF open[s] = {} THEN "Completed" ELSE "Closing"]
  /\ UNCHANGED <<storeVars, open, failed, cache, clients, metrics, client, stop, uuids, used, accepted>>

\* The holder applies a recommendation between epochs; it dials the shards it
\* adds, the other coordinators do not.
Rescale(n) ==
  /\ epoch.state = "Completed"
  /\ \A s \in Shards : shard[s].id <= epoch.id
  /\ count' = n
  /\ counts' = counts \cup {count}
  /\ clients' = [clients EXCEPT ![Holder] = @ \cup 1 .. n]
  /\ UNCHANGED <<epoch, stored, record, shardVars, cache, metrics, client, stop, uuids, used, accepted>>

\* The connections of its clients break: an error no client retries.  The
\* process that follows dials the shards of the configuration.
Crash(c) ==
  LET served(k) == client[k].via = c /\ client[k].at \in Handling IN
  /\ Unspent
  /\ used' = [used EXCEPT !.crashes = @ + 1]
  /\ clients' = [clients EXCEPT ![c] = 1 .. count]
  /\ cache' = [cache EXCEPT ![c] = {}]
  /\ metrics' = IF c = Holder THEN [metrics EXCEPT !.on = FALSE] ELSE metrics
  /\ client' = [k \in Clients |->
       IF served(k) THEN [client[k] EXCEPT !.at = "failed", !.error = "other"] ELSE client[k]]
  /\ UNCHANGED <<storeVars, shardVars, stop, uuids, accepted>>

\* The leader of a shard is replaced: restarted, or by a promotion of the
\* standby, which stays one until the next epoch.  The sessions are gone.
ShardReplaced(s, state) ==
  /\ Unspent
  /\ used' = [used EXCEPT !.restarts = @ + 1]
  /\ open' = [open EXCEPT ![s] = {}]
  /\ shard' = [shard EXCEPT ![s] = [id |-> 0, state |-> state]]
  /\ UNCHANGED <<storeVars, failed, cache, clients, metrics, client, stop, uuids, accepted>>

EpochSteps ==
  \/ StoreStarts \/ StartFails \/ CountStarts \/ CountEnds \/ StoreCompletes
  \/ \E s \in Shards : ShardStarts(s) \/ ShardAborts(s) \/ ShardCloses(s)

Next ==
  \/ EpochSteps
  \/ \E n \in Shards : Rescale(n)
  \/ \E c \in Coordinators : Crash(c)
  \/ \E s \in Shards, state \in {"Standby", "NoActive"} : ShardReplaced(s, state)
  \/ \E k \in Clients :
       \/ \E s \in Shards, c \in Coordinators : NextRequest(k, s, c)
       \/ ClientStops(k) \/ Upload1(k) \/ Upload2(k) \/ Upload3(k)

Spec == Init /\ [][Next]_vars

(***************************************************************************)
(* Fairness: a handler that was called runs on and clients go on with      *)
(* their loop.  Epochs are owed nothing.                                   *)
(***************************************************************************)
FairSpec ==
  /\ Spec
  /\ \A k \in Clients : WF_vars(ClientStops(k) \/ Upload1(k) \/ Upload2(k) \/ Upload3(k))

-----------------------------------------------------------------------------
(***************************************************************************)
(* Properties                                                              *)
(***************************************************************************)

\* However calls fail, however often the client begins an upload anew and
\* whichever coordinators serve it, a request reaches the queues of the
\* shards at most once.
AcceptedOnce ==
  \A a, b \in accepted : a.client = b.client /\ a.request = b.request => a = b

\* No read of the control or session store was old.
ExactReads == used.misreads = 0

\* A session that Upload1 gave out is known to every coordinator until the
\* upload is over, also after the coordinator that gave it out crashed.  (A
\* read of the session that fails is answered "Bogus UUID" too; and so is
\* one that DynamoDB answers from before the session was put, as the code
\* does not ask for a consistent read: hence ExactReads.)
NoBogusUUID ==
  used.faults = 0 /\ ExactReads => \A k \in Clients : client[k].error # "bogus"

\* The load the recommendation is computed from counts uploads that a shard
\* accepted in that epoch, each of them once.  (With an old configuration an
\* upload of the epoch may be routed to a shard that is not in it any more and
\* still closes the one before.)
NeverOvercounted ==
  ExactReads =>
    metrics.count <= Cardinality({a \in accepted : a.epoch = metrics.epoch})

\* Every request ends: no client goes round in circles.
RequestsEnd ==
  \A k \in Clients : client[k].at = "u1_epoch" ~> client[k].at \in {"idle", "done", "failed"}
=============================================================================

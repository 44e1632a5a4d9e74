---------------------------- MODULE ControlStore ----------------------------
(***************************************************************************)
(* The control store shared by the coordinators and the autoscaler         *)
(* (controlstore/memory.go, dynamodb.go, epoch_cycle.go), except for the   *)
(* lease, which CoordinatorLease models, and the sessions of UploadRouting.*)
(*                                                                         *)
(* Every call of the ControlStore interface that writes is one operator:   *)
(* XAllowed is the condition under which the call succeeds and X its       *)
(* effect.  "accepting" is not a variable of its own: StartEpoch and       *)
(* CompleteEpoch write it together with the state, and it is true exactly  *)
(* when the state is Active.                                               *)
(*                                                                         *)
(* The memory store is read exactly.  getItem of DynamoDB asks for no      *)
(* consistent read: it may return any value the item had before, and       *)
(* nothing for an item just written.  A read that fails is, where the code *)
(* hides the error, taken for an item that does not exist (cycle idle,     *)
(* epoch 0, version 1): the first of its former values.                    *)
(*                                                                         *)
(* Of a shard config the model keeps the version, the number of shards and *)
(* the shards whose active and standby pair are swapped; of a              *)
(* recommendation its epoch, the version it was made for and the two shard *)
(* counts (equal: action keep).  Of the epoch cycle only the state is ever *)
(* read.                                                                   *)
(***************************************************************************)
EXTENDS Naturals, FiniteSets

CONSTANTS
  Backend,    \* "memory" or "dynamodb"
  MaxShards,  \* shards in the coordinators' inventory
  SeedShards, \* shards of the seed configuration (-initial-active-shards)
  MaxEpoch,   \* bound: epoch ids
  MaxVersion  \* bound: shard config versions

ASSUME BackendAssumption == Backend \in {"memory", "dynamodb"}
ASSUME MaxShardsAssumption == MaxShards \in Nat \ {0}
ASSUME SeedAssumption == SeedShards \in 1 .. MaxShards
ASSUME MaxEpochAssumption == MaxEpoch \in Nat
ASSUME MaxVersionAssumption == MaxVersion \in Nat \ {0}

Shards == 1 .. MaxShards
EpochIDs == 0 .. MaxEpoch
Versions == 1 .. MaxVersion

VARIABLES
  epoch,    \* item "epoch": id and state; id 0 while there is none
  config,   \* item "shard-config"
  snapshot, \* epoch id -> item "shard-config#epoch#id", or NoConfig
  scaling,  \* epochs that have an item "scaling#epoch#id"
  latest,   \* item "scaling#latest"; epoch 0 while there is none
  cycle,    \* state of item "epoch-cycle"
  former    \* the values that epoch, config, latest and cycle had before

storeVars == <<epoch, config, snapshot, scaling, latest, cycle, former>>

EpochRecord == [id : EpochIDs, state : {"NoActive", "Active", "Completed"}]

CycleStates == {"idle", "active", "completed", "recommendation_ready",
                "scaling_in_progress", "scaling_applied", "scaling_skipped",
                "ready_for_next_epoch", "failed"}

ConfigRecord == [version : Versions, count : Shards, swapped : SUBSET Shards]

NoConfig == [version |-> 0, count |-> 0, swapped |-> {}]

Recommendation == [epoch : EpochIDs, version : 0 .. MaxVersion,
                   count : 0 .. MaxShards, target : 0 .. MaxShards]

NoRecommendation == [epoch |-> 0, version |-> 0, count |-> 0, target |-> 0]

StoreTypeOK ==
  /\ epoch \in EpochRecord
  /\ config \in ConfigRecord
  /\ snapshot \in [1 .. MaxEpoch -> ConfigRecord \cup {NoConfig}]
  /\ scaling \subseteq 1 .. MaxEpoch
  /\ latest \in Recommendation
  /\ cycle \in CycleStates
  /\ former \in [epoch : SUBSET EpochRecord, config : SUBSET ConfigRecord,
                 latest : SUBSET Recommendation, cycle : SUBSET CycleStates]

\* ensureShardConfig has written the seed.
StoreInit ==
  /\ epoch = [id |-> 0, state |-> "NoActive"]
  /\ config = [version |-> 1, count |-> SeedShards, swapped |-> {}]
  /\ snapshot = [e \in 1 .. MaxEpoch |-> NoConfig]
  /\ scaling = {}
  /\ latest = NoRecommendation
  /\ cycle = "idle"
  /\ former = [epoch |-> {}, config |-> {}, latest |-> {}, cycle |-> {}]

-----------------------------------------------------------------------------
(***************************************************************************)
(* The epoch and its cycle                                                 *)
(***************************************************************************)

\* The last epoch is settled: the states an epoch starts from.
Settled == {"idle", "scaling_applied", "scaling_skipped", "ready_for_next_epoch"}

ValidEpochCycleTransition(from, to) ==
  \/ from = to
  \/ from \in Settled /\ to = "active"
  \/ from = "active" /\ to \in {"completed", "recommendation_ready", "failed"}
  \/ from = "completed" /\ to \in {"recommendation_ready", "failed"}
  \/ from = "recommendation_ready" /\ to \in {"scaling_in_progress", "failed"}
  \/ from = "scaling_in_progress" /\ to \in {"scaling_applied", "scaling_skipped", "failed"}
  \/ from = "failed" /\ to = "ready_for_next_epoch"

\* PutEpochCycleTransition compares the state, and nothing else, with from.
PutEpochCycleTransitionAllowed(from, to) ==
  cycle = from /\ ValidEpochCycleTransition(from, to)

\* Before its conditional write, DynamoDB's compares from with a read of its
\* own: an old value has the transition refused.
PutEpochCycleTransitionMisled(from) == former.cycle \ {from} # {}

PutEpochCycleTransition(to) ==
  /\ cycle' = to
  /\ former' = [former EXCEPT !.cycle = @ \cup {cycle}]

\* DynamoDB starts an epoch over a completed one or over itself.
StartEpochAllowed(id) ==
  \/ Backend = "memory"
  \/ epoch.id \in {0, id}
  \/ epoch.state # "Active"

\* The memory store also rewrites the version of the shard config.
StoreStartEpoch(id, version) ==
  /\ epoch' = [id |-> id, state |-> "Active"]
  /\ former' = [former EXCEPT !.epoch = @ \cup {epoch}]
  /\ config' = IF Backend = "memory" THEN [config EXCEPT !.version = version] ELSE config

CompleteEpochAllowed(id) == epoch.id = id

StoreCompleteEpoch ==
  /\ epoch' = [epoch EXCEPT !.state = "Completed"]
  /\ former' = [former EXCEPT !.epoch = @ \cup {epoch}]

-----------------------------------------------------------------------------
(***************************************************************************)
(* Shard configurations and recommendations                                *)
(***************************************************************************)

\* A configuration of the version in the store is accepted, too.
PutShardConfigAllowed(cfg) == cfg.version >= config.version

PutShardConfig(cfg) ==
  /\ config' = cfg
  /\ former' = [former EXCEPT !.config = @ \cup {config}]

PutEpochShardConfigAllowed(id, cfg) == snapshot[id] \in {NoConfig, cfg}

\* The record of an epoch is immutable, and every attempt to write it has a
\* creation time of its own.
PutScalingAllowed(id) == id \notin scaling

\* PutScalingRecommendation: the record of the epoch, then scaling#latest
\* unless that is of a later epoch.
PutScaling(rec) ==
  /\ scaling' = scaling \cup {rec.epoch}
  /\ latest' = IF rec.epoch >= latest.epoch THEN rec ELSE latest
  /\ former' = [former EXCEPT !.latest = @ \cup {latest}]
=============================================================================

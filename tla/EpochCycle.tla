----------------------------- MODULE EpochCycle -----------------------------
(***************************************************************************)
(* Epochs and scaling between epochs (coordinator/coordinator.go,          *)
(* coordinator_actor.go, epoch_cycle.go, scaling_apply.go,                 *)
(* shard_promotion.go, autoscaler/): StartEpoch with its fan-out to the    *)
(* shards, the timer that completes an epoch, the RPCs that apply or skip  *)
(* a scaling recommendation or promote a standby, and the autoscaler.      *)
(*                                                                         *)
(* call[c][t] is one handler running in coordinator c: at is its place,    *)
(* the other fields what it carries from step to step.  A step is one call *)
(* of the store, of a shard or of the coordinator's actor.  Handlers of    *)
(* all coordinators interleave.                                            *)
(*                                                                         *)
(* holder is the coordinator whose requireCoordinatorLease succeeds;       *)
(* CoordinatorLease models how it changes.  A fault is a store or shard    *)
(* call that returns an error, with or without having had its effect; a    *)
(* misread one that returns something else than what the store holds.      *)
(***************************************************************************)
EXTENDS ControlStore

CONSTANTS
  Coordinators, \* coordinator processes
  StartRpcs, ApplyRpcs, SkipRpcs, PromoteRpcs, \* handlers for these calls
  AutoRpcs,     \* handlers for the calls of the autoscaler
  Timer,        \* the goroutine of the epoch timer
  AutoTarget,   \* the coordinator the autoscaler calls
  RequestIDs,   \* epoch ids a caller of StartEpoch may ask for; 0 for none
  MaxStarts,    \* bound: calls of StartEpoch
  MaxMishaps    \* bound: faults, misreads, calls the autoscaler gives up,
                \* changes of the lease holder and crashes, together

Rpcs == StartRpcs \cup ApplyRpcs \cup SkipRpcs \cup PromoteRpcs \cup AutoRpcs
Threads == Rpcs \cup {Timer}

ASSUME ThreadsAssumption ==
  /\ Timer \notin Rpcs
  /\ AutoRpcs \cap (StartRpcs \cup ApplyRpcs \cup SkipRpcs \cup PromoteRpcs) = {}
  /\ AutoTarget \in Coordinators
ASSUME RequestsAssumption == RequestIDs \subseteq EpochIDs
ASSUME BoundsAssumption == MaxStarts \in Nat /\ MaxMishaps \in Nat

VARIABLES
  shard,     \* shard -> epoch id and state of its leader's control loop
  holder,    \* coordinator that holds the lease
  local,     \* coordinator -> its epoch (c.epoch, c.activeScalingMetrics)
  timer,     \* coordinator -> the epoch timer is armed
  clients,   \* coordinator -> shards it has an RPC client for
  call,      \* coordinator -> thread -> handler
  auto,      \* the autoscaler
  used,      \* what was used of the bounds
  committed, \* history: <<epoch id, config>> of successful StartEpoch calls
  ran,       \* history: shard -> epoch ids it was started in
  applied    \* history: <<recommendation, config>> of applied recommendations

cycleVars == <<shard, holder, local, timer, clients, call, auto, used>>
historyVars == <<committed, ran, applied>>
vars == <<storeVars, cycleVars, historyVars>>

Places ==
  {"idle", "ok", "err",
   "start_cycle", "start_decide", "start_config", "start_shards",
   "start_snapshot", "start_store", "start_from", "start_active", "start_commit", "abort",
   "done_decide", "done_lease", "done_commit", "done_store", "done_version", "done_scaling",
   "done_ready", "done_failed", "skip_begin", "skip_end",
   "apply_config", "apply_epoch", "apply_latest", "apply_cycle", "apply_begin",
   "apply_connect", "apply_put", "apply_end", "apply_failed",
   "skip_cycle", "skip_epoch", "promote_config", "promote_put"}

Idle == [at |-> "idle", id |-> 0, cfg |-> NoConfig, rec |-> NoRecommendation,
         from |-> "idle", started |-> {}, dry |-> FALSE]

AutoPlaces == {"idle", "latest", "config", "epoch", "begin", "dry", "dry_wait", "apply",
               "apply_wait", "skip_begin", "skip_end", "failed_ready", "failed"}

Used == [starts : 0 .. MaxStarts, faults : 0 .. MaxMishaps, misreads : 0 .. MaxMishaps,
         timeouts : 0 .. MaxMishaps, takeovers : 0 .. MaxMishaps, crashes : 0 .. MaxMishaps]

TypeOK ==
  /\ StoreTypeOK
  /\ shard \in [Shards -> [id : EpochIDs, state : {"NoActive", "Active", "Merging", "Completed"}]]
  /\ holder \in Coordinators
  /\ local \in [Coordinators -> [id : EpochIDs, state : {"NoActive", "Active", "Completed"},
                                 count : 0 .. MaxShards]]
  /\ timer \in [Coordinators -> BOOLEAN]
  /\ clients \in [Coordinators -> SUBSET Shards]
  /\ call \in [Coordinators -> [Threads ->
       [at : Places, id : EpochIDs, cfg : ConfigRecord \cup {NoConfig}, rec : Recommendation,
        from : CycleStates, started : SUBSET Shards, dry : BOOLEAN]]]
  /\ auto \in [at : AutoPlaces, rec : Recommendation, rpc : AutoRpcs \cup {Timer}]
  /\ used \in Used
  /\ committed \subseteq (1 .. MaxEpoch) \X ConfigRecord
  /\ ran \in [Shards -> SUBSET (1 .. MaxEpoch)]
  /\ applied \subseteq Recommendation \X ConfigRecord

NoLocalEpoch == [id |-> 0, state |-> "NoActive", count |-> 0]

\* connectShards dialled the shards of the configuration.
Init ==
  /\ StoreInit
  /\ shard = [s \in Shards |-> [id |-> 0, state |-> "NoActive"]]
  /\ holder = AutoTarget
  /\ local = [c \in Coordinators |-> NoLocalEpoch]
  /\ timer = [c \in Coordinators |-> FALSE]
  /\ clients = [c \in Coordinators |-> 1 .. SeedShards]
  /\ call = [c \in Coordinators |-> [t \in Threads |-> Idle]]
  /\ auto = [at |-> "idle", rec |-> NoRecommendation, rpc |-> Timer]
  /\ used = [starts |-> 0, faults |-> 0, misreads |-> 0, timeouts |-> 0,
             takeovers |-> 0, crashes |-> 0]
  /\ committed = {}
  /\ ran = [s \in Shards |-> {}]
  /\ applied = {}

-----------------------------------------------------------------------------
(***************************************************************************)
(* Moves of a handler                                                      *)
(***************************************************************************)

At(c, t, place) == call[c][t].at = place

Goto(c, t, place) == call' = [call EXCEPT ![c][t].at = place]

\* The autoscaler waits for the answer of this handler.
Awaited(c, t) == c = AutoTarget /\ t \in AutoRpcs /\ auto.rpc = t

\* The handler returns.  Only the autoscaler, if it still waits, is told.
Return(c, t, answer) ==
  call' = [call EXCEPT ![c][t] = IF Awaited(c, t) THEN [Idle EXCEPT !.at = answer] ELSE Idle]

\* Another mishap is within the bound.
Unspent ==
  used.faults + used.misreads + used.timeouts + used.takeovers + used.crashes < MaxMishaps

Fault ==
  /\ Unspent
  /\ used' = [used EXCEPT !.faults = @ + 1]

NoFault == UNCHANGED used

Misread ==
  /\ Backend = "dynamodb"
  /\ Unspent
  /\ used' = [used EXCEPT !.misreads = @ + 1]

\* A read returns seen where the store holds item.
Sees(seen, item) == IF seen = item THEN NoFault ELSE Misread

-----------------------------------------------------------------------------
(***************************************************************************)
(* StartEpoch                                                              *)
(***************************************************************************)

\* The caller asks for epoch id, or for the next one; the lease is required.
StartEpoch(c, t, id) ==
  /\ t \in StartRpcs
  /\ At(c, t, "idle")
  /\ used.starts < MaxStarts
  /\ holder = c
  /\ used' = [used EXCEPT !.starts = @ + 1]
  /\ call' = [call EXCEPT ![c][t] = [Idle EXCEPT !.at = "start_cycle", !.id = id]]
  /\ UNCHANGED <<storeVars, shard, holder, local, timer, clients, auto, historyVars>>

\* Variant: any state of the cycle will do.
RequireEpochCycleAllowsStart_Ungated(c, t) ==
  /\ At(c, t, "start_cycle")
  /\ Goto(c, t, "start_decide")
  /\ UNCHANGED <<storeVars, shard, holder, local, timer, clients, auto, used, historyVars>>

RequireEpochCycleAllowsStart(c, t) ==
  /\ At(c, t, "start_cycle")
  /\ \E seen \in {cycle} \cup former.cycle :
       /\ Sees(seen, cycle)
       /\ \/ seen \in Settled /\ Goto(c, t, "start_decide")
          \/ seen \notin Settled /\ Return(c, t, "err")
  /\ UNCHANGED <<storeVars, shard, holder, local, timer, clients, auto, historyVars>>

\* CurrentEpoch and startEpochDecision.
StartEpochDecision(c, t) ==
  /\ At(c, t, "start_decide")
  /\ \E seen \in {epoch} \cup former.epoch :
       LET last == IF seen.id > local[c].id THEN seen.id ELSE local[c].id
           asked == call[c][t].id
           next == IF asked > 0 THEN asked ELSE last + 1
       IN
       /\ Sees(seen, epoch)
       /\ \/ /\ local[c].state # "Active"
             /\ next <= MaxEpoch
             /\ call' = [call EXCEPT ![c][t].at = "start_config", ![c][t].id = next]
          \/ /\ local[c].state = "Active" \/ next > MaxEpoch
             /\ Return(c, t, "err")
  /\ UNCHANGED <<storeVars, shard, holder, local, timer, clients, auto, historyVars>>

\* activeShardConfig.
StartReadsConfig(c, t) ==
  /\ At(c, t, "start_config")
  /\ \/ \E seen \in {config} \cup former.config :
          /\ Sees(seen, config)
          /\ call' = [call EXCEPT ![c][t].at = "start_shards", ![c][t].cfg = seen]
     \/ Fault /\ Return(c, t, "err")
  /\ UNCHANGED <<storeVars, shard, holder, local, timer, clients, auto, historyVars>>

\* The shard the fan-out is at.
NextShard(c, t) == Cardinality(call[c][t].started) + 1

ShardFree(s) == shard[s].state \in {"NoActive", "Completed"}

\* The leader of shard s runs startEpochCommand; any id will do.
ShardStarts(s, id) ==
  /\ ShardFree(s)
  /\ shard' = [shard EXCEPT ![s] = [id |-> id, state |-> "Active"]]
  /\ ran' = [ran EXCEPT ![s] = @ \cup {id}]

\* Variant: a shard that refuses the epoch is passed over.
StartShard_IgnoresRefusal(c, t) ==
  LET s == NextShard(c, t) IN
  /\ At(c, t, "start_shards")
  /\ s <= call[c][t].cfg.count
  /\ ShardStarts(s, call[c][t].id) \/ (~ShardFree(s) /\ UNCHANGED <<shard, ran>>)
  /\ call' = [call EXCEPT ![c][t].started = @ \cup {s}]
  /\ UNCHANGED <<storeVars, holder, local, timer, clients, auto, used, committed, applied>>

\* One round of the fan-out: the shard starts, or the call cannot go on.
\* The reply names the same epoch as the first one.
StartShard(c, t) ==
  LET s == NextShard(c, t) IN
  /\ At(c, t, "start_shards")
  /\ s <= call[c][t].cfg.count
  /\ \/ /\ s \in clients[c]
        /\ ShardStarts(s, call[c][t].id)
        /\ call' = [call EXCEPT ![c][t].started = @ \cup {s}]
        /\ NoFault
     \/ /\ s \notin clients[c] \/ ~ShardFree(s)
        /\ Goto(c, t, "abort")
        /\ NoFault
        /\ UNCHANGED <<shard, ran>>
     \/ /\ s \in clients[c]
        /\ Fault
        /\ ShardStarts(s, call[c][t].id) \/ UNCHANGED <<shard, ran>>
        /\ Goto(c, t, "abort")
  /\ UNCHANGED <<storeVars, holder, local, timer, clients, auto, committed, applied>>

\* The fan-out is complete; the lease is required again.
StartRequiresLease(c, t) ==
  /\ At(c, t, "start_shards")
  /\ NextShard(c, t) > call[c][t].cfg.count
  /\ Goto(c, t, IF holder = c THEN "start_snapshot" ELSE "abort")
  /\ UNCHANGED <<storeVars, shard, holder, local, timer, clients, auto, used, historyVars>>

StartPutsSnapshot(c, t) ==
  LET id == call[c][t].id
      cfg == call[c][t].cfg
      put == snapshot' = [snapshot EXCEPT ![id] = cfg]
  IN
  /\ At(c, t, "start_snapshot")
  /\ \/ PutEpochShardConfigAllowed(id, cfg) /\ put /\ Goto(c, t, "start_store") /\ NoFault
     \/ /\ ~PutEpochShardConfigAllowed(id, cfg)
        /\ Goto(c, t, "abort")
        /\ NoFault
        /\ UNCHANGED snapshot
     \/ /\ Fault
        /\ (PutEpochShardConfigAllowed(id, cfg) /\ put) \/ UNCHANGED snapshot
        /\ Goto(c, t, "abort")
  /\ UNCHANGED <<epoch, config, scaling, latest, cycle,
                 former, shard, holder, local, timer, clients, auto, historyVars>>

StartWritesStore(c, t) ==
  LET id == call[c][t].id
      put == StoreStartEpoch(id, call[c][t].cfg.version)
  IN
  /\ At(c, t, "start_store")
  /\ \/ StartEpochAllowed(id) /\ put /\ Goto(c, t, "start_from") /\ NoFault
     \/ /\ ~StartEpochAllowed(id)
        /\ Goto(c, t, "abort")
        /\ NoFault
        /\ UNCHANGED <<epoch, config, former>>
     \/ /\ Fault
        /\ (StartEpochAllowed(id) /\ put) \/ UNCHANGED <<epoch, config, former>>
        /\ Goto(c, t, "abort")
  /\ UNCHANGED <<snapshot, scaling, latest, cycle,
                 shard, holder, local, timer, clients, auto, historyVars>>

\* transitionEpochCycleStarted reads the state it moves from,
StartReadsCycle(c, t) ==
  /\ At(c, t, "start_from")
  /\ \E seen \in {cycle} \cup former.cycle :
       /\ Sees(seen, cycle)
       /\ call' = [call EXCEPT ![c][t].at = "start_active", ![c][t].from = seen]
  /\ UNCHANGED <<storeVars, shard, holder, local, timer, clients, auto, historyVars>>

\* A transition of the cycle is written: done follows, or refused.
CyclePut(from, to, done, refused) ==
  LET allowed == PutEpochCycleTransitionAllowed(from, to) IN
  /\ \/ allowed /\ PutEpochCycleTransition(to) /\ done /\ NoFault
     \/ ~allowed /\ refused /\ NoFault /\ UNCHANGED <<cycle, former>>
     \/ PutEpochCycleTransitionMisled(from) /\ refused /\ Misread /\ UNCHANGED <<cycle, former>>
     \/ /\ Fault
        /\ (allowed /\ PutEpochCycleTransition(to)) \/ UNCHANGED <<cycle, former>>
        /\ refused
  /\ UNCHANGED <<epoch, config, snapshot, scaling, latest,
                 shard, holder, local, timer, clients, historyVars>>

\* ... by a handler.
CycleStep(from, to, done, refused) == CyclePut(from, to, done, refused) /\ UNCHANGED auto

\* ... and writes the transition.
StartActivatesCycle(c, t) ==
  /\ At(c, t, "start_active")
  /\ CycleStep(call[c][t].from, "active", Goto(c, t, "start_commit"), Goto(c, t, "abort"))

\* commitStartedEpoch.
CommitStartedEpoch(c, t) ==
  LET id == call[c][t].id
      cfg == call[c][t].cfg
  IN
  /\ At(c, t, "start_commit")
  /\ local' = [local EXCEPT ![c] = [id |-> id, state |-> "Active", count |-> cfg.count]]
  /\ timer' = [timer EXCEPT ![c] = TRUE]
  /\ committed' = committed \cup {<<id, cfg>>}
  /\ Return(c, t, "ok")
  /\ UNCHANGED <<storeVars, shard, holder, clients, auto, used, ran, applied>>

\* abortStarted, shard by shard.  The store keeps what was written.
AbortStarted(c, t) ==
  LET started == call[c][t].started
      s == CHOOSE x \in started : \A y \in started : x <= y
      matches == shard[s].id = call[c][t].id /\ shard[s].state = "Active"
  IN
  /\ At(c, t, "abort")
  /\ \/ /\ started = {}
        /\ Return(c, t, "err")
        /\ NoFault
        /\ UNCHANGED shard
     \/ /\ started # {}
        /\ call' = [call EXCEPT ![c][t].started = @ \ {s}]
        /\ \/ /\ matches
              /\ shard' = [shard EXCEPT ![s] = [id |-> 0, state |-> "NoActive"]]
              /\ NoFault
           \/ ~matches /\ NoFault /\ UNCHANGED shard
           \/ Fault /\ UNCHANGED shard
  /\ UNCHANGED <<storeVars, holder, local, timer, clients, auto, historyVars>>

\* A shard's own timer ends its epoch; the merge follows.
ShardEpochEnds(s) ==
  /\ \/ shard[s].state = "Active" /\ shard' = [shard EXCEPT ![s].state = "Merging"]
     \/ shard[s].state = "Merging" /\ shard' = [shard EXCEPT ![s].state = "Completed"]
  /\ UNCHANGED <<storeVars, holder, local, timer, clients, call, auto, used, historyVars>>

StartSteps(c, t) ==
  \/ RequireEpochCycleAllowsStart(c, t) \/ StartEpochDecision(c, t) \/ StartReadsConfig(c, t)
  \/ StartShard(c, t) \/ StartRequiresLease(c, t) \/ StartPutsSnapshot(c, t)
  \/ StartWritesStore(c, t) \/ StartReadsCycle(c, t) \/ StartActivatesCycle(c, t)
  \/ CommitStartedEpoch(c, t) \/ AbortStarted(c, t)

-----------------------------------------------------------------------------
(***************************************************************************)
(* completeEpoch, run by the epoch timer                                   *)
(***************************************************************************)

\* The timer fires; bound: one completion at a time in a coordinator.
TimerFires(c) ==
  /\ timer[c]
  /\ At(c, Timer, "idle")
  /\ timer' = [timer EXCEPT ![c] = FALSE]
  /\ call' = [call EXCEPT ![c][Timer] = [Idle EXCEPT !.at = "done_decide"]]
  /\ UNCHANGED <<storeVars, shard, holder, local, clients, auto, used, historyVars>>

CompleteEpochDecision(c) ==
  /\ At(c, Timer, "done_decide")
  /\ \/ /\ local[c].state = "Active"
        /\ call' = [call EXCEPT ![c][Timer].at = "done_lease", ![c][Timer].id = local[c].id]
     \/ local[c].state # "Active" /\ Return(c, Timer, "err")
  /\ UNCHANGED <<storeVars, shard, holder, local, timer, clients, auto, used, historyVars>>

\* Without the lease the completion is skipped; the timer is not set again.
CompleteRequiresLease(c) ==
  /\ At(c, Timer, "done_lease")
  /\ \/ holder = c /\ Goto(c, Timer, "done_commit")
     \/ holder # c /\ Return(c, Timer, "err")
  /\ UNCHANGED <<storeVars, shard, holder, local, timer, clients, auto, used, historyVars>>

\* commitCompletedEpoch: the load decides the recommended shard count, see
\* DatasetScale.
CommitCompletedEpoch(c) ==
  LET id == call[c][Timer].id
      current == local[c].state = "Active" /\ local[c].id = id
  IN
  /\ At(c, Timer, "done_commit")
  /\ \/ /\ current
        /\ local' = [local EXCEPT ![c].state = "Completed"]
        /\ \E target \in Shards :
             call' = [call EXCEPT ![c][Timer].at = "done_store",
                        ![c][Timer].rec = [epoch |-> id, version |-> 0,
                                           count |-> local[c].count, target |-> target]]
     \/ ~current /\ Return(c, Timer, "err") /\ UNCHANGED local
  /\ UNCHANGED <<storeVars, shard, holder, timer, clients, auto, used, historyVars>>

CompleteWritesStore(c) ==
  LET allowed == CompleteEpochAllowed(call[c][Timer].id) IN
  /\ At(c, Timer, "done_store")
  /\ \/ allowed /\ StoreCompleteEpoch /\ Goto(c, Timer, "done_version") /\ NoFault
     \/ ~allowed /\ Return(c, Timer, "err") /\ NoFault /\ UNCHANGED <<epoch, former>>
     \/ /\ Fault
        /\ (allowed /\ StoreCompleteEpoch) \/ UNCHANGED <<epoch, former>>
        /\ Return(c, Timer, "err")
  /\ UNCHANGED <<config, snapshot, scaling, latest, cycle,
                 shard, holder, local, timer, clients, auto, historyVars>>

\* currentShardConfigVersion: the version of the moment, not the epoch's.
CompleteReadsVersion(c) ==
  /\ At(c, Timer, "done_version")
  /\ \E seen \in {config} \cup former.config :
       /\ Sees(seen, config)
       /\ call' = [call EXCEPT ![c][Timer].at = "done_scaling",
                     ![c][Timer].rec = [call[c][Timer].rec EXCEPT !.version = seen.version]]
  /\ UNCHANGED <<storeVars, shard, holder, local, timer, clients, auto, historyVars>>

\* PutScalingRecommendation; a fault may leave the first of its two items.
CompletePutsScaling(c) ==
  LET rec == call[c][Timer].rec
      allowed == PutScalingAllowed(rec.epoch)
  IN
  /\ At(c, Timer, "done_scaling")
  /\ \/ allowed /\ PutScaling(rec) /\ Goto(c, Timer, "done_ready") /\ NoFault
     \/ ~allowed /\ Goto(c, Timer, "done_failed") /\ NoFault /\ UNCHANGED <<scaling, latest, former>>
     \/ /\ Fault
        /\ \/ allowed /\ PutScaling(rec)
           \/ allowed /\ scaling' = scaling \cup {rec.epoch} /\ UNCHANGED <<latest, former>>
           \/ UNCHANGED <<scaling, latest, former>>
        /\ Goto(c, Timer, "done_failed")
  /\ UNCHANGED <<epoch, config, snapshot, cycle,
                 shard, holder, local, timer, clients, auto, historyVars>>

CompleteFailsCycle(c) ==
  /\ At(c, Timer, "done_failed")
  /\ CycleStep("active", "failed", Return(c, Timer, "err"), Return(c, Timer, "err"))

\* The recommendation is ready; a recommendation to keep is skipped at once.
CompleteReadiesCycle(c) ==
  LET rec == call[c][Timer].rec IN
  /\ At(c, Timer, "done_ready")
  /\ CycleStep("active", "recommendation_ready",
               IF rec.target = rec.count THEN Goto(c, Timer, "skip_begin")
                                         ELSE Return(c, Timer, "ok"),
               Return(c, Timer, "err"))

\* transitionEpochCycleScalingSkipped, also used by SkipScalingRecommendation.
SkipBegins(c, t) ==
  /\ At(c, t, "skip_begin")
  /\ CycleStep("recommendation_ready", "scaling_in_progress",
               Goto(c, t, "skip_end"), Return(c, t, "err"))

SkipEnds(c, t) ==
  /\ At(c, t, "skip_end")
  /\ CycleStep("scaling_in_progress", "scaling_skipped",
               Return(c, t, "ok"), Return(c, t, "err"))

CompleteSteps(c) ==
  \/ CompleteEpochDecision(c) \/ CompleteRequiresLease(c) \/ CommitCompletedEpoch(c)
  \/ CompleteWritesStore(c) \/ CompleteReadsVersion(c) \/ CompletePutsScaling(c)
  \/ CompleteFailsCycle(c) \/ CompleteReadiesCycle(c)

-----------------------------------------------------------------------------
(***************************************************************************)
(* ApplyScalingRecommendation, SkipScalingRecommendation and               *)
(* PromoteShardStandby                                                     *)
(***************************************************************************)

\* The lease is required.
Apply(c, t, dry) ==
  /\ At(c, t, "idle")
  /\ holder = c
  /\ call' = [call EXCEPT ![c][t] = [Idle EXCEPT !.at = "apply_config", !.dry = dry]]

ApplyScalingRecommendation(c, t) ==
  /\ t \in ApplyRpcs
  /\ Apply(c, t, FALSE)
  /\ UNCHANGED <<storeVars, shard, holder, local, timer, clients, auto, used, historyVars>>

\* evaluateScalingApply reads the configuration,
ApplyReadsConfig(c, t) ==
  /\ At(c, t, "apply_config")
  /\ \/ \E seen \in {config} \cup former.config :
          /\ Sees(seen, config)
          /\ call' = [call EXCEPT ![c][t].at = "apply_epoch", ![c][t].cfg = seen]
     \/ Fault /\ Return(c, t, "err")
  /\ UNCHANGED <<storeVars, shard, holder, local, timer, clients, auto, historyVars>>

\* the epoch, and with a second read whether it is accepting, which comes to
\* the same,
ApplyReadsEpoch(c, t) ==
  /\ At(c, t, "apply_epoch")
  /\ \E seen \in {epoch} \cup former.epoch :
       /\ Sees(seen, epoch)
       /\ \/ seen.state # "Active" /\ Goto(c, t, "apply_latest")
          \/ seen.state = "Active" /\ Return(c, t, "err")
  /\ UNCHANGED <<storeVars, shard, holder, local, timer, clients, auto, historyVars>>

\* Variant: the proposal keeps the version.
Proposed_SameVersion(rec, cfg) == [cfg EXCEPT !.count = rec.target]

\* Variant: the version of the proposal is not set.
Proposed_Unversioned(rec, cfg) == [version |-> 0, count |-> rec.target, swapped |-> {}]

\* The configuration a recommendation proposes in place of cfg: the first
\* shards of the inventory, with the pairs as the inventory has them.
Proposed(rec, cfg) == [version |-> cfg.version + 1, count |-> rec.target, swapped |-> {}]

\* Variant: the recommendation may be for another configuration.
ApplyReadsLatest_AnyVersion(c, t) ==
  LET cfg == call[c][t].cfg
      applicable == latest.epoch > 0 /\ latest.target # cfg.count /\ cfg.version < MaxVersion
  IN
  /\ At(c, t, "apply_latest")
  /\ \/ /\ applicable
        /\ call' = [call EXCEPT ![c][t].at = "apply_cycle", ![c][t].rec = latest,
                                ![c][t].cfg = Proposed(latest, cfg)]
     \/ ~applicable /\ Return(c, t, "err")
  /\ UNCHANGED <<storeVars, shard, holder, local, timer, clients, auto, used, historyVars>>

\* and the recommendation, which must be for that configuration and change
\* it.  A dry run ends here.
ApplyReadsLatest(c, t) ==
  LET cfg == call[c][t].cfg
      applicable(rec) == /\ rec.epoch > 0
                         /\ rec.version = cfg.version
                         /\ rec.target # rec.count
                         /\ rec.target # cfg.count
                         /\ cfg.version < MaxVersion
  IN
  /\ At(c, t, "apply_latest")
  /\ \/ \E seen \in {latest} \cup former.latest :
          /\ Sees(seen, latest)
          /\ \/ /\ applicable(seen)
                /\ ~call[c][t].dry
                /\ call' = [call EXCEPT ![c][t].at = "apply_cycle", ![c][t].rec = seen,
                                        ![c][t].cfg = Proposed(seen, cfg)]
             \/ applicable(seen) /\ call[c][t].dry /\ Return(c, t, "ok")
             \/ ~applicable(seen) /\ Return(c, t, "err")
     \/ Fault /\ Return(c, t, "err")
  /\ UNCHANGED <<storeVars, shard, holder, local, timer, clients, auto, historyVars>>

\* epochCycleState: whoever set scaling_in_progress.
ApplyReadsCycle(c, t) ==
  /\ At(c, t, "apply_cycle")
  /\ \E seen \in {cycle} \cup former.cycle :
       /\ Sees(seen, cycle)
       /\ \/ seen = "recommendation_ready" /\ Goto(c, t, "apply_begin")
          \/ seen = "scaling_in_progress" /\ Goto(c, t, "apply_connect")
          \/ seen \notin {"recommendation_ready", "scaling_in_progress"} /\ Return(c, t, "err")
  /\ UNCHANGED <<storeVars, shard, holder, local, timer, clients, auto, historyVars>>

ApplyBegins(c, t) ==
  /\ At(c, t, "apply_begin")
  /\ CycleStep("recommendation_ready", "scaling_in_progress",
               Goto(c, t, "apply_connect"), Return(c, t, "err"))

\* Variant: the shards of the new configuration are not dialled.
ApplyConnects_Later(c, t) ==
  /\ At(c, t, "apply_connect")
  /\ Goto(c, t, "apply_put")
  /\ UNCHANGED <<storeVars, shard, holder, local, timer, clients, auto, used, historyVars>>

\* connectShardConfig.
ApplyConnects(c, t) ==
  /\ At(c, t, "apply_connect")
  /\ \/ /\ clients' = [clients EXCEPT ![c] = @ \cup 1 .. call[c][t].cfg.count]
        /\ Goto(c, t, "apply_put")
        /\ NoFault
     \/ Fault /\ Goto(c, t, "apply_failed") /\ UNCHANGED clients
  /\ UNCHANGED <<storeVars, shard, holder, local, timer, auto, historyVars>>

ApplyPutsConfig(c, t) ==
  LET cfg == call[c][t].cfg
      put == /\ PutShardConfig(cfg)
             /\ applied' = applied \cup {<<call[c][t].rec, cfg>>}
  IN
  /\ At(c, t, "apply_put")
  /\ \/ PutShardConfigAllowed(cfg) /\ put /\ Goto(c, t, "apply_end") /\ NoFault
     \/ /\ ~PutShardConfigAllowed(cfg)
        /\ Goto(c, t, "apply_failed")
        /\ NoFault
        /\ UNCHANGED <<config, former, applied>>
     \/ /\ Fault
        /\ (PutShardConfigAllowed(cfg) /\ put) \/ UNCHANGED <<config, former, applied>>
        /\ Goto(c, t, "apply_failed")
  /\ UNCHANGED <<epoch, snapshot, scaling, latest, cycle,
                 shard, holder, local, timer, clients, auto, committed, ran>>

\* Variant: the cycle is not moved on.
ApplyEnds_Silent(c, t) ==
  /\ At(c, t, "apply_end")
  /\ Return(c, t, "ok")
  /\ UNCHANGED <<storeVars, shard, holder, local, timer, clients, auto, used, historyVars>>

ApplyEnds(c, t) ==
  /\ At(c, t, "apply_end")
  /\ CycleStep("scaling_in_progress", "scaling_applied",
               Return(c, t, "ok"), Return(c, t, "err"))

ApplyFailsCycle(c, t) ==
  /\ At(c, t, "apply_failed")
  /\ CycleStep("scaling_in_progress", "failed", Return(c, t, "err"), Return(c, t, "err"))

ApplySteps(c, t) ==
  \/ ApplyReadsConfig(c, t) \/ ApplyReadsEpoch(c, t) \/ ApplyReadsLatest(c, t)
  \/ ApplyReadsCycle(c, t) \/ ApplyBegins(c, t) \/ ApplyConnects(c, t)
  \/ ApplyPutsConfig(c, t) \/ ApplyEnds(c, t) \/ ApplyFailsCycle(c, t)

\* SkipScalingRecommendation: the lease is required.
SkipScalingRecommendation(c, t) ==
  /\ t \in SkipRpcs
  /\ At(c, t, "idle")
  /\ holder = c
  /\ call' = [call EXCEPT ![c][t] = [Idle EXCEPT !.at = "skip_cycle"]]
  /\ UNCHANGED <<storeVars, shard, holder, local, timer, clients, auto, used, historyVars>>

SkipReadsCycle(c, t) ==
  /\ At(c, t, "skip_cycle")
  /\ \E seen \in {cycle} \cup former.cycle :
       /\ Sees(seen, cycle)
       /\ \/ seen = "recommendation_ready" /\ Goto(c, t, "skip_epoch")
          \/ seen # "recommendation_ready" /\ Return(c, t, "err")
  /\ UNCHANGED <<storeVars, shard, holder, local, timer, clients, auto, historyVars>>

\* The epoch must be over and a recommendation must exist; one just written
\* may not be seen yet.
SkipReadsEpoch(c, t) ==
  /\ At(c, t, "skip_epoch")
  /\ \/ \E seen \in {epoch} \cup former.epoch :
          /\ Sees(seen, epoch)
          /\ \/ seen.state # "Active" /\ latest.epoch > 0 /\ Goto(c, t, "skip_begin")
             \/ (seen.state = "Active" \/ latest.epoch = 0) /\ Return(c, t, "err")
     \/ (Fault \/ Misread) /\ Return(c, t, "err")
  /\ UNCHANGED <<storeVars, shard, holder, local, timer, clients, auto, historyVars>>

\* PromoteShardStandby and the automatic promotion: the lease is required and
\* the standby of some shard is fit to take over, see Promotion.
PromoteShardStandby(c, t) ==
  /\ t \in PromoteRpcs
  /\ At(c, t, "idle")
  /\ holder = c
  /\ call' = [call EXCEPT ![c][t] = [Idle EXCEPT !.at = "promote_config"]]
  /\ UNCHANGED <<storeVars, shard, holder, local, timer, clients, auto, used, historyVars>>

\* promotedShardEvaluation swaps the pairs of one shard.
PromoteReadsConfig(c, t) ==
  /\ At(c, t, "promote_config")
  /\ \/ \E seen \in {config} \cup former.config :
          /\ Sees(seen, config)
          /\ seen.version < MaxVersion
          /\ \E s \in 1 .. seen.count :
               call' = [call EXCEPT ![c][t].at = "promote_put",
                          ![c][t].cfg = [seen EXCEPT !.version = @ + 1,
                            !.swapped = IF s \in @ THEN @ \ {s} ELSE @ \cup {s}]]
     \/ NoFault /\ Return(c, t, "err")
  /\ UNCHANGED <<storeVars, shard, holder, local, timer, clients, auto, historyVars>>

PromotePutsConfig(c, t) ==
  LET cfg == call[c][t].cfg
      allowed == PutShardConfigAllowed(cfg)
  IN
  /\ At(c, t, "promote_put")
  /\ \/ allowed /\ PutShardConfig(cfg) /\ Return(c, t, "ok") /\ NoFault
     \/ ~allowed /\ Return(c, t, "err") /\ NoFault /\ UNCHANGED <<config, former>>
     \/ /\ Fault
        /\ (allowed /\ PutShardConfig(cfg)) \/ UNCHANGED <<config, former>>
        /\ Return(c, t, "err")
  /\ UNCHANGED <<epoch, snapshot, scaling, latest, cycle,
                 shard, holder, local, timer, clients, auto, historyVars>>

AdminSteps(c, t) ==
  \/ SkipReadsCycle(c, t) \/ SkipReadsEpoch(c, t) \/ SkipBegins(c, t) \/ SkipEnds(c, t)
  \/ PromoteReadsConfig(c, t) \/ PromotePutsConfig(c, t)

-----------------------------------------------------------------------------
(***************************************************************************)
(* The autoscaler with -apply (autoscaler/autoscaler.go)                   *)
(***************************************************************************)

AutoGoto(place) == auto' = [auto EXCEPT !.at = place]

AutoStop == auto' = [at |-> "idle", rec |-> NoRecommendation, rpc |-> Timer]

AutoReadsCycle ==
  /\ AutoRpcs # {}
  /\ auto.at = "idle"
  /\ "recommendation_ready" \in {cycle} \cup former.cycle
  /\ Sees("recommendation_ready", cycle)
  /\ AutoGoto("latest")
  /\ UNCHANGED <<storeVars, shard, holder, local, timer, clients, call, historyVars>>

\* A recommendation to keep, or none, is skipped; a failed read is a failure.
AutoReadsLatest ==
  /\ auto.at = "latest"
  /\ \/ \E seen \in {latest} \cup former.latest :
          LET changes == seen.epoch > 0 /\ seen.target # seen.count IN
          /\ Sees(seen, latest)
          /\ \/ changes /\ auto' = [auto EXCEPT !.at = "config", !.rec = seen]
             \/ ~changes /\ AutoGoto("skip_begin")
     \/ Fault /\ AutoGoto("failed_ready")
  /\ UNCHANGED <<storeVars, shard, holder, local, timer, clients, call, historyVars>>

AutoReadsConfig ==
  /\ auto.at = "config"
  /\ \/ \E seen \in {config} \cup former.config :
          /\ Sees(seen, config)
          /\ AutoGoto(IF auto.rec.version = seen.version THEN "epoch" ELSE "skip_begin")
     \/ Fault /\ AutoGoto("failed_ready")
  /\ UNCHANGED <<storeVars, shard, holder, local, timer, clients, call, historyVars>>

AutoReadsEpoch ==
  /\ auto.at = "epoch"
  /\ \E seen \in {epoch} \cup former.epoch :
       /\ Sees(seen, epoch)
       /\ AutoGoto(IF seen.state = "Active" THEN "failed_ready" ELSE "begin")
  /\ UNCHANGED <<storeVars, shard, holder, local, timer, clients, call, historyVars>>

AutoBegins ==
  /\ auto.at = "begin"
  /\ CyclePut("recommendation_ready", "scaling_in_progress", AutoGoto("dry"), AutoStop)
  /\ UNCHANGED call

\* The RPC is sent, first as a dry run.  Without the lease, or when the call
\* does not get through, the answer is an error.
AutoCalls ==
  /\ auto.at \in {"dry", "apply"}
  /\ \/ /\ NoFault
        /\ \E t \in AutoRpcs :
             /\ Apply(AutoTarget, t, auto.at = "dry")
             /\ auto' = [auto EXCEPT !.at = IF auto.at = "dry" THEN "dry_wait" ELSE "apply_wait",
                                     !.rpc = t]
     \/ holder # AutoTarget /\ NoFault /\ AutoGoto("failed") /\ UNCHANGED call
     \/ Fault /\ AutoGoto("failed") /\ UNCHANGED call
  /\ UNCHANGED <<storeVars, shard, holder, local, timer, clients, historyVars>>

AutoAnswered ==
  LET answer == call[AutoTarget][auto.rpc].at IN
  /\ auto.at \in {"dry_wait", "apply_wait"}
  /\ answer \in {"ok", "err"}
  /\ call' = [call EXCEPT ![AutoTarget][auto.rpc] = Idle]
  /\ \/ answer = "ok" /\ auto.at = "dry_wait" /\ auto' = [auto EXCEPT !.at = "apply", !.rpc = Timer]
     \/ answer = "ok" /\ auto.at = "apply_wait" /\ AutoStop
     \/ answer = "err" /\ auto' = [auto EXCEPT !.at = "failed", !.rpc = Timer]
  /\ UNCHANGED <<storeVars, shard, holder, local, timer, clients, used, historyVars>>

\* The context of the evaluation expires; the handler runs on.
AutoTimesOut ==
  /\ auto.at \in {"dry_wait", "apply_wait"}
  /\ call[AutoTarget][auto.rpc].at \notin {"ok", "err"}
  /\ Unspent
  /\ used' = [used EXCEPT !.timeouts = @ + 1]
  /\ auto' = [auto EXCEPT !.at = "failed", !.rpc = Timer]
  /\ UNCHANGED <<storeVars, shard, holder, local, timer, clients, call, historyVars>>

AutoFails ==
  /\ \/ /\ auto.at = "failed"
        /\ CyclePut("scaling_in_progress", "failed", AutoStop, AutoStop)
     \/ /\ auto.at = "failed_ready"
        /\ CyclePut("recommendation_ready", "failed", AutoStop, AutoStop)
  /\ UNCHANGED call

\* transitionCycleSkipped.
AutoSkips ==
  /\ \/ /\ auto.at = "skip_begin"
        /\ CyclePut("recommendation_ready", "scaling_in_progress", AutoGoto("skip_end"), AutoStop)
     \/ /\ auto.at = "skip_end"
        /\ CyclePut("scaling_in_progress", "scaling_skipped", AutoStop, AutoStop)
  /\ UNCHANGED call

AutoSteps ==
  \/ AutoReadsCycle \/ AutoReadsLatest \/ AutoReadsConfig \/ AutoReadsEpoch \/ AutoBegins
  \/ AutoCalls \/ AutoAnswered \/ AutoFails \/ AutoSkips

-----------------------------------------------------------------------------
(***************************************************************************)
(* The lease moves and coordinators crash                                  *)
(***************************************************************************)

TakeOver(c) ==
  /\ holder # c
  /\ Unspent
  /\ holder' = c
  /\ used' = [used EXCEPT !.takeovers = @ + 1]
  /\ UNCHANGED <<storeVars, shard, local, timer, clients, call, auto, historyVars>>

\* The process ends and is started again; it dials the shards of the stored
\* configuration, or the whole inventory if connectShards cannot read it.
\* The autoscaler's connection breaks.
Crash(c) ==
  /\ Unspent
  /\ \E n \in {cfg.count : cfg \in {config} \cup former.config} \cup {MaxShards} :
       /\ \/ /\ n = config.count
             /\ used' = [used EXCEPT !.crashes = @ + 1]
          \/ /\ n # config.count /\ Backend = "dynamodb"
             /\ used' = [used EXCEPT !.crashes = @ + 1, !.misreads = @ + 1]
       /\ clients' = [clients EXCEPT ![c] = 1 .. n]
  /\ local' = [local EXCEPT ![c] = NoLocalEpoch]
  /\ timer' = [timer EXCEPT ![c] = FALSE]
  /\ call' = [call EXCEPT ![c] = [t \in Threads |->
                IF Awaited(c, t) THEN [Idle EXCEPT !.at = "err"] ELSE Idle]]
  /\ UNCHANGED <<storeVars, shard, holder, auto, historyVars>>

RpcSteps(c, t) ==
  \/ StartSteps(c, t) \/ ApplySteps(c, t) \/ AdminSteps(c, t)

Next ==
  \/ AutoSteps \/ AutoTimesOut
  \/ \E s \in Shards : ShardEpochEnds(s)
  \/ \E c \in Coordinators :
       \/ TimerFires(c) \/ CompleteSteps(c) \/ TakeOver(c) \/ Crash(c)
       \/ \E t \in Rpcs :
            \/ \E id \in RequestIDs : StartEpoch(c, t, id)
            \/ ApplyScalingRecommendation(c, t)
            \/ SkipScalingRecommendation(c, t)
            \/ PromoteShardStandby(c, t)
       \/ \E t \in Threads : RpcSteps(c, t)

Spec == Init /\ [][Next]_vars

(***************************************************************************)
(* Fairness: a handler that was called runs on, timers fire, the merge of  *)
(* a shard ends, the autoscaler polls.  Calls of operators and mishaps are  *)
(* owed nothing: an idle autoscaler need not misread the cycle.            *)
(***************************************************************************)
FairSpec ==
  /\ Spec
  /\ WF_vars(NoFault /\ AutoSteps)
  /\ \A s \in Shards : WF_vars(ShardEpochEnds(s))
  /\ \A c \in Coordinators :
       /\ WF_vars(TimerFires(c))
       /\ WF_vars(CompleteSteps(c))
       /\ \A t \in Threads : WF_vars(RpcSteps(c, t))

-----------------------------------------------------------------------------
(***************************************************************************)
(* Properties                                                              *)
(***************************************************************************)

\* Whoever started it, however often its id was tried and whatever the reads
\* returned, an epoch that StartEpoch reported as started ran on every shard
\* of the configuration it was started with, and its immutable snapshot is
\* that configuration.
StartedEpochIsConsistent ==
  \A e \in 1 .. MaxEpoch, cfg \in ConfigRecord :
    <<e, cfg>> \in committed =>
      /\ snapshot[e] = cfg
      /\ \A s \in 1 .. cfg.count : e \in ran[s]

\* A recommendation is applied as one configuration, although operators and
\* the autoscaler apply it side by side, a handler that lost the lease or
\* whose caller gave up may still write, a failed write is repeated and old
\* recommendations and configurations are read (ApplyScalingRecommendation).
AppliedOnce == \A x, y \in applied : x[1].epoch = y[1].epoch => x = y

\* No read returned an old value, or a default in the place of an error.  The
\* memory store answers so; of DynamoDB the code asks no consistent reads,
\* and without this none of the properties that assume it holds.
ExactReads == used.misreads = 0

\* What the cycle serialises is one StartEpoch at a time under one holder of
\* the lease: StartEpoch looks at the cycle at first and moves it at last.
OneStart == ExactReads /\ used.takeovers = 0 /\ \A r, t \in StartRpcs : r = t

\* And it does not keep an operator's apply from joining a skip that is
\* under way, or from writing the version a promotion writes.
Unattended == OneStart /\ ApplyRpcs = {} /\ PromoteRpcs = {}

\* A recommendation for the configuration in the store was computed from
\* the shard count of that configuration (evaluateScalingApply compares
\* only versions), whichever calls fail, crash or are given up, as long as
\* the reads that do not report errors are exact.
RecommendationFitsConfig ==
  Unattended /\ latest.epoch > 0 /\ latest.version = config.version =>
    latest.count = config.count

\* The number of shards does not change while an epoch is open, although
\* ApplyScalingRecommendation reads the epoch long before it writes and the
\* autoscaler gives up calls that go on.  The gate is epochCycleState, which
\* answers Idle when its read fails: hence ExactReads.
ShardCountFixedInEpoch ==
  [][Unattended /\ epoch.state = "Active" /\ epoch'.state = "Active"
       => config'.count = config.count]_vars

\* A version names one configuration: what replaces a configuration has a
\* version of its own.
NewConfigNewVersion ==
  [][Unattended /\ config' # config => config'.version # config.version]_vars

\* The coordinator in charge has a client for every shard of the
\* configuration, through crashes and half-done applications.  After a
\* take-over this need not hold: a standby does not dial the shards that the
\* holder adds.  Nor does a coordinator that is started on an old
\* configuration.
HolderReachesShards ==
  used.takeovers = 0 /\ ExactReads => 1 .. config.count \subseteq clients[holder]

Starting(c, t, id) ==
  call[c][t].id = id /\ call[c][t].at \in {"start_from", "start_active", "start_commit"}

\* An epoch that is open in the store is being started, or StartEpoch
\* reported it as started: a StartEpoch that was refused leaves no open
\* epoch behind.  One that met an error, an old value of the cycle, or a
\* cycle that another StartEpoch moved, after the store's StartEpoch does:
\* abortStarted does not undo the store.
OpenEpochWasStarted ==
  OneStart /\ used.faults = 0 /\ used.crashes = 0 /\ epoch.state = "Active" =>
    \/ \E cfg \in ConfigRecord : <<epoch.id, cfg>> \in committed
    \/ \E c \in Coordinators, t \in StartRpcs : Starting(c, t, epoch.id)

\* Even when operators apply and skip recommendations while the autoscaler
\* does, and gives up calls that go on, no epoch is left half decided: it is
\* settled, or marked as failed.  A call that fails, a handler that ends with
\* its coordinator or finds the lease gone do leave it so, and so does an old
\* value that PutEpochCycleTransition reads between two transitions: it then
\* refuses the second.
EpochsAreDecided ==
  cycle = "active" ~> \/ cycle \in Settled \cup {"failed"}
                      \/ ~ExactReads
                      \/ used.faults + used.takeovers + used.crashes > 0
=============================================================================

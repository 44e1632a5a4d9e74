----------------------------- MODULE Promotion -----------------------------
(***************************************************************************)
(* The standby of a shard: the copy of every accepted upload in its queue  *)
(* (db/ingestion_sqs.go), the coordinators' view of its health             *)
(* (coordinator_health.go), and its promotion by an operator or by the     *)
(* automatic check (shard_promotion.go, promotion_readiness.go,            *)
(* auto_promotion.go).                                                     *)
(*                                                                         *)
(* One shard with the server pairs A, active at first, and B, the standby. *)
(* Of a pair the model keeps its leader.  thread[c][t] is the health       *)
(* monitor, the automatic check or the PromoteShardStandby handler of      *)
(* coordinator c; a step is one RPC, store call or command of the actor.   *)
(* committed and count stand for the workers of Shard; the queues are SQS  *)
(* and survive everything, but what is asked of their length is not exact. *)
(* The control store is DynamoDB: its reads may be old, and a write may    *)
(* take effect although the coordinator is told that it failed.            *)
(***************************************************************************)
EXTENDS Integers, FiniteSets

CONSTANTS
  A, B,             \* the two server pairs
  Uploads,          \* uploads that reach Upload3
  Coordinators,     \* coordinator processes
  FirstHolder,      \* the coordinator that holds the lease at first
  Monitor, AutoCheck, Admin, \* the threads of a coordinator
  Threads,          \* those that run, a subset of the three
  FailureThreshold, \* -auto-promote-failure-threshold
  MaxMishaps,       \* bound: failing sends, jobs, status and store calls, inexact
                    \* and old readings and lost answers, together
  MaxCrashes,       \* bound: pairs that stop
  MaxTakeovers      \* bound: changes of the lease holder

Pairs == {A, B}

ASSUME PairsAssumption == A # B
ASSUME ThreadsAssumption ==
  /\ Threads \subseteq {Monitor, AutoCheck, Admin}
  /\ Monitor # AutoCheck /\ Monitor # Admin /\ AutoCheck # Admin
ASSUME FirstHolderAssumption == FirstHolder \in Coordinators
ASSUME ThresholdAssumption == FailureThreshold \in Nat \ {0}
ASSUME UploadsAssumption == IsFiniteSet(Uploads)
ASSUME BoundsAssumption ==
  MaxMishaps \in Nat /\ MaxCrashes \in Nat /\ MaxTakeovers \in Nat

VARIABLES
  config,    \* item "shard-config": version and active pair
  up,        \* pairs that run
  replica,   \* pair -> replicaID of its leader
  queue,     \* pair -> uploads in its queue or in flight
  committed, \* pair -> uploads in its tables
  failing,   \* pairs whose ingestion reported an error
  sent,      \* upload -> place of its Enqueue
  at,        \* upload -> pair whose leader runs it
  holder,    \* coordinator that holds the lease
  target,    \* coordinator -> pair its client of the shard talks to
  health,    \* coordinator -> c.health of the shard
  auto,      \* coordinator -> c.autoPromotionState of the shard
  thread,    \* coordinator -> thread -> what it is doing
  used,      \* what was used of the bounds
  promotions \* history: promotions, with what they found

pairVars == <<up, replica, queue, committed, failing>>
uploadVars == <<sent, at>>
coordVars == <<holder, target, health, auto, thread>>
vars == <<config, pairVars, uploadVars, coordVars, used, promotions>>

\* Uploads that Upload3 confirmed.
Accepted == {u \in Uploads : sent[u] = "accepted"}

\* A status reply, as far as it is used.
Status == [reachable : BOOLEAN, standby : BOOLEAN, drained : BOOLEAN, errors : BOOLEAN,
           count : 0 .. Cardinality(Uploads)]

NoStatus == [reachable |-> FALSE, standby |-> FALSE, drained |-> FALSE, errors |-> FALSE,
             count |-> 0]

\* seen is what had been accepted when the standby was asked.
Health == [active : Status, standby : Status, seen : SUBSET Uploads]

NoHealth == [active |-> NoStatus, standby |-> NoStatus, seen |-> {}]

Idle == [at |-> "idle", config |-> [version |-> 0, active |-> A], ask |-> B,
         health |-> NoHealth, seen |-> {}, must |-> {}]

Other(p) == IF p = A THEN B ELSE A

TypeOK ==
  /\ config \in [version : Nat, active : Pairs]
  /\ up \subseteq Pairs
  /\ replica \in [Pairs -> {"active", "standby"}]
  /\ queue \in [Pairs -> SUBSET Uploads]
  /\ committed \in [Pairs -> SUBSET Uploads]
  /\ failing \subseteq Pairs
  /\ sent \in [Uploads -> {"new", "payload", "standby_sent", "accepted", "failed"}]
  /\ at \in [Uploads -> Pairs]
  /\ holder \in Coordinators
  /\ target \in [Coordinators -> Pairs]
  /\ health \in [Coordinators -> Health]
  /\ auto \in [Coordinators -> [failures : 0 .. FailureThreshold, cooling : BOOLEAN,
                                baseline : 0 .. Cardinality(Uploads), known : BOOLEAN]]
  /\ thread \in [Coordinators -> [Threads ->
       [at : {"idle", "refresh", "active", "standby", "commit", "evaluate", "propose", "dial",
              "put", "replace"},
        config : [version : Nat, active : Pairs], ask : Pairs, health : Health,
        seen : SUBSET Uploads, must : SUBSET Uploads]]]
  /\ used \in [faults : 0 .. MaxMishaps, misreads : 0 .. MaxMishaps, lost : 0 .. MaxMishaps,
               crashes : 0 .. MaxCrashes, takeovers : 0 .. MaxTakeovers]
  /\ promotions \subseteq [seen : SUBSET Uploads, must : SUBSET Uploads, have : SUBSET Uploads]

Init ==
  /\ config = [version |-> 1, active |-> A]
  /\ up = Pairs
  /\ replica = [p \in Pairs |-> IF p = A THEN "active" ELSE "standby"]
  /\ queue = [p \in Pairs |-> {}]
  /\ committed = [p \in Pairs |-> {}]
  /\ failing = {}
  /\ sent = [u \in Uploads |-> "new"]
  /\ at = [u \in Uploads |-> A]
  /\ holder = FirstHolder
  /\ target = [c \in Coordinators |-> A]
  /\ health = [c \in Coordinators |-> NoHealth]
  /\ auto = [c \in Coordinators |-> [failures |-> 0, cooling |-> FALSE,
                                     baseline |-> 0, known |-> FALSE]]
  /\ thread = [c \in Coordinators |-> [t \in Threads |-> Idle]]
  /\ used = [faults |-> 0, misreads |-> 0, lost |-> 0, crashes |-> 0, takeovers |-> 0]
  /\ promotions = {}

\* Another mishap is within the bound.
Unspent == used.faults + used.misreads + used.lost < MaxMishaps

\* A call that fails, or a reading of the configuration that is out of date.
Fault == Unspent /\ used' = [used EXCEPT !.faults = @ + 1]

NoFault == UNCHANGED used

\* A reading of a queue's length that is wrong.
Misread == Unspent /\ used' = [used EXCEPT !.misreads = @ + 1]

\* A write that takes effect and is reported as failed.
LostAnswer == Unspent /\ used' = [used EXCEPT !.lost = @ + 1]

-----------------------------------------------------------------------------
(***************************************************************************)
(* Uploads and the shard servers                                           *)
(***************************************************************************)

\* Upload3 reaches the pair a coordinator talks to; a standby refuses it.
\* The payload is stored first.
Upload3(c, u) ==
  /\ sent[u] = "new"
  /\ target[c] \in up
  /\ replica[target[c]] = "active"
  /\ \/ sent' = [sent EXCEPT ![u] = "payload"] /\ NoFault
     \/ sent' = [sent EXCEPT ![u] = "failed"] /\ Fault
  /\ at' = [at EXCEPT ![u] = target[c]]
  /\ UNCHANGED <<config, pairVars, coordVars, promotions>>

\* Variant: the upload goes on although the standby's copy was not sent.
SendToStandby_Optional(u) ==
  /\ sent[u] = "payload"
  /\ at[u] \in up
  /\ sent' = [sent EXCEPT ![u] = "standby_sent"]
  /\ \/ queue' = [queue EXCEPT ![B] = IF at[u] = A THEN @ \cup {u} ELSE @] /\ NoFault
     \/ Fault /\ UNCHANGED queue
  /\ UNCHANGED <<config, up, replica, committed, failing, at, coordVars, promotions>>

\* Variant: the copy goes to the queue of the pair itself.
SendToStandby_OwnQueue(u) ==
  /\ sent[u] = "payload"
  /\ at[u] \in up
  /\ queue' = [queue EXCEPT ![at[u]] = @ \cup {u}]
  /\ sent' = [sent EXCEPT ![u] = "standby_sent"]
  /\ UNCHANGED <<config, up, replica, committed, failing, at, coordVars, used, promotions>>

\* The copy for the standby.  Only A was started with the url of a standby's
\* queue.  A send that fails may have arrived.
SendToStandby(u) ==
  LET put == queue' = [queue EXCEPT ![B] = IF at[u] = A THEN @ \cup {u} ELSE @] IN
  /\ sent[u] = "payload"
  /\ at[u] \in up
  /\ \/ put /\ sent' = [sent EXCEPT ![u] = "standby_sent"] /\ NoFault
     \/ /\ Fault
        /\ put \/ UNCHANGED queue
        /\ sent' = [sent EXCEPT ![u] = "failed"]
  /\ UNCHANGED <<config, up, replica, committed, failing, at, coordVars, promotions>>

SendToActive(u) ==
  LET put == queue' = [queue EXCEPT ![at[u]] = @ \cup {u}] IN
  /\ sent[u] = "standby_sent"
  /\ at[u] \in up
  /\ \/ put /\ sent' = [sent EXCEPT ![u] = "accepted"] /\ NoFault
     \/ /\ Fault
        /\ put \/ UNCHANGED queue
        /\ sent' = [sent EXCEPT ![u] = "failed"]
  /\ UNCHANGED <<config, up, replica, committed, failing, at, coordVars, promotions>>

\* A worker of either replica applies a job, or fails and leaves it queued.
Process(p, u) ==
  /\ p \in up
  /\ u \in queue[p]
  /\ \/ /\ queue' = [queue EXCEPT ![p] = @ \ {u}]
        /\ committed' = [committed EXCEPT ![p] = @ \cup {u}]
        /\ NoFault
        /\ UNCHANGED failing
     \/ Fault /\ failing' = failing \cup {p} /\ UNCHANGED <<queue, committed>>
  /\ UNCHANGED <<config, up, replica, uploadVars, coordVars, promotions>>

\* StartEpoch of the holder reaches its pair: a standby becomes active.
StartEpoch ==
  /\ target[holder] \in up
  /\ replica[target[holder]] = "standby"
  /\ replica' = [replica EXCEPT ![target[holder]] = "active"]
  /\ UNCHANGED <<config, up, queue, committed, failing, uploadVars, coordVars, used, promotions>>

PairStops(p) ==
  /\ used.crashes < MaxCrashes
  /\ p \in up
  /\ up' = up \ {p}
  /\ used' = [used EXCEPT !.crashes = @ + 1]
  /\ UNCHANGED <<config, replica, queue, committed, failing, uploadVars, coordVars, promotions>>

-----------------------------------------------------------------------------
(***************************************************************************)
(* refreshShardHealth                                                      *)
(***************************************************************************)

At(c, t, place) == thread[c][t].at = place

Goto(c, t, place) == thread' = [thread EXCEPT ![c][t].at = place]

Ends(c, t) == thread' = [thread EXCEPT ![c][t] = Idle]

\* The configurations there have been: every promotion adds one to the version
\* and has the pairs change places.
Former == {[version |-> v, active |-> IF v % 2 = 1 THEN A ELSE B] : v \in 1 .. config.version - 1}

\* GetShardConfig answers cfg.
GetShardConfig(cfg) == (cfg = config /\ NoFault) \/ (cfg \in Former /\ Fault)

\* Stats says of the queue of p whether it is empty: the counters of SQS are
\* approximate, and zero when they cannot be read.
Stats(p, drained) == IF drained = (queue[p] = {}) THEN NoFault ELSE Misread

\* The reply of pair p to Server.Status.
StatusOf(p, drained) ==
  [reachable |-> TRUE, standby |-> replica[p] = "standby", drained |-> drained,
   errors |-> p \in failing, count |-> Cardinality(committed[p])]

\* The ticker of the automatic check fires: runAutoPromotionCheck requires the
\* lease.
RunAutoPromotionCheck(c) ==
  /\ AutoCheck \in Threads
  /\ At(c, AutoCheck, "idle")
  /\ holder = c
  /\ thread' = [thread EXCEPT ![c][AutoCheck] = [Idle EXCEPT !.at = "refresh", !.must = Accepted]]
  /\ UNCHANGED <<config, pairVars, uploadVars, holder, target, health, auto, used, promotions>>

\* An operator calls PromoteShardStandby, which reads the configuration; if
\* the read fails, nothing happens.
PromoteShardStandby(c) ==
  /\ Admin \in Threads
  /\ At(c, Admin, "idle")
  /\ holder = c
  /\ \E cfg \in {config} \cup Former :
       /\ GetShardConfig(cfg)
       /\ thread' = [thread EXCEPT ![c][Admin] =
            [Idle EXCEPT !.at = "refresh", !.config = cfg, !.must = Accepted]]
  /\ UNCHANGED <<config, pairVars, uploadVars, holder, target, health, auto, promotions>>

\* refreshShardHealth reads the configuration for itself, to know the standby.
\* If the read fails it takes the inventory, which is the first configuration.
\* The monitor begins with it when its ticker fires.
Refreshes(c, t) ==
  /\ At(c, t, IF t = Monitor THEN "idle" ELSE "refresh")
  /\ \E cfg \in {config} \cup Former :
       /\ GetShardConfig(cfg)
       /\ thread' = [thread EXCEPT ![c][t].at = "active", ![c][t].ask = Other(cfg.active)]
  /\ UNCHANGED <<config, pairVars, uploadVars, holder, target, health, auto, promotions>>

\* The active leader is asked through the client the coordinator has.  Of its
\* reply only the count is used.
ReadsActive(c, t) ==
  /\ At(c, t, "active")
  /\ \/ /\ target[c] \in up
        /\ thread' = [thread EXCEPT ![c][t].at = "standby",
                         ![c][t].health.active = [NoStatus EXCEPT !.reachable = TRUE,
                           !.count = Cardinality(committed[target[c]])]]
        /\ NoFault
     \/ target[c] \notin up /\ Goto(c, t, "standby") /\ NoFault
     \/ Fault /\ Goto(c, t, "standby")
  /\ UNCHANGED <<config, pairVars, uploadVars, holder, target, health, auto, promotions>>

\* The standby leader of the configuration is dialled and asked.
ReadsStandby(c, t) ==
  LET p == thread[c][t].ask IN
  /\ At(c, t, "standby")
  /\ \/ /\ p \in up
        /\ \E drained \in BOOLEAN :
             /\ Stats(p, drained)
             /\ thread' = [thread EXCEPT ![c][t].at = "commit",
                  ![c][t].health = [thread[c][t].health EXCEPT !.standby = StatusOf(p, drained),
                                                               !.seen = Accepted]]
     \/ p \notin up /\ Goto(c, t, "commit") /\ NoFault
     \/ Fault /\ Goto(c, t, "commit")
  /\ UNCHANGED <<config, pairVars, uploadVars, holder, target, health, auto, promotions>>

\* The result replaces what is in c.health, be it newer or not.
CommitsHealth(c, t) ==
  /\ At(c, t, "commit")
  /\ health' = [health EXCEPT ![c] = thread[c][t].health]
  /\ thread' = [thread EXCEPT ![c][t] = IF t = Monitor THEN Idle
                                        ELSE [@ EXCEPT !.at = "evaluate", !.ask = B,
                                                       !.health = NoHealth]]
  /\ UNCHANGED <<config, pairVars, uploadVars, holder, target, auto, used, promotions>>

-----------------------------------------------------------------------------
(***************************************************************************)
(* Readiness                                                               *)
(***************************************************************************)

\* Variant: a standby with queued uploads will do.
StandbyFit_Undrained(standby) == standby.reachable /\ standby.standby /\ ~standby.errors

\* The checks all three readiness functions make of the standby.
StandbyFit(standby) ==
  standby.reachable /\ standby.standby /\ standby.drained /\ ~standby.errors

\* standbyPromotionReadiness and forcedStandbyPromotionReadiness, as
\* PromoteShardStandby combines them: without force there is no promotion.
ManuallyPromotable(h, force) ==
  /\ force
  /\ StandbyFit(h.standby)
  /\ h.active.reachable => h.standby.count >= h.active.count

\* autoPromotionReadiness for the state a.
AutoReady(h, a) ==
  /\ a.known
  /\ StandbyFit(h.standby)
  /\ h.standby.count >= a.baseline

-----------------------------------------------------------------------------
(***************************************************************************)
(* Promotion                                                               *)
(***************************************************************************)

\* promotedShardEvaluation: active and standby change places.
Promoted(cfg) == [version |-> cfg.version + 1, active |-> Other(cfg.active)]

\* The rest of evaluateShardStandbyPromotion, on the health of the moment and
\* the configuration read at first; force came with the call.
AdminEvaluates(c, force) ==
  LET h == health[c]
      allowed == ManuallyPromotable(h, force)
  IN
  /\ Admin \in Threads
  /\ At(c, Admin, "evaluate")
  /\ \/ /\ allowed
        /\ thread' = [thread EXCEPT ![c][Admin].at = "dial",
                        ![c][Admin].config = Promoted(thread[c][Admin].config),
                        ![c][Admin].seen = h.seen]
     \/ ~allowed /\ Ends(c, Admin)
  /\ UNCHANGED <<config, pairVars, uploadVars, holder, target, health, auto, used, promotions>>

\* Variant: the count of failures starts again with every check.
Failures_NotKept(a) == 1

\* Variant: the count is of the checks that are left.
Failures_CountsDown(a) == a.failures - 1

\* FailureCount after another failed check; the model stops at the threshold.
Failures(a) == IF a.failures < FailureThreshold THEN a.failures + 1 ELSE a.failures

\* evaluateAutoPromotionShard, unless the configuration cannot be read.
AutoEvaluates(c) ==
  LET h == health[c]
      a == auto[c]
      failures == Failures(a)
      eligible == /\ ~h.active.reachable
                  /\ AutoReady(h, a)
                  /\ failures >= FailureThreshold
                  /\ ~a.cooling
  IN
  /\ AutoCheck \in Threads
  /\ At(c, AutoCheck, "evaluate")
  /\ \/ /\ auto' = [auto EXCEPT ![c] =
             IF h.active.reachable
             THEN [a EXCEPT !.failures = 0, !.baseline = h.active.count, !.known = TRUE]
             ELSE [a EXCEPT !.failures = failures]]
        /\ \/ /\ eligible
              /\ thread' = [thread EXCEPT ![c][AutoCheck].at = "propose",
                                          ![c][AutoCheck].seen = h.seen]
           \/ ~eligible /\ Ends(c, AutoCheck)
        /\ NoFault
     \/ Fault /\ Ends(c, AutoCheck) /\ UNCHANGED auto
  /\ UNCHANGED <<config, pairVars, uploadVars, holder, target, health, promotions>>

\* autoPromotionEvaluation reads the configuration that is to be changed.
AutoProposes(c) ==
  /\ AutoCheck \in Threads
  /\ At(c, AutoCheck, "propose")
  /\ \/ \E cfg \in {config} \cup Former :
          /\ GetShardConfig(cfg)
          /\ thread' = [thread EXCEPT ![c][AutoCheck].at = "dial",
                                      ![c][AutoCheck].config = Promoted(cfg)]
     \/ Fault /\ Ends(c, AutoCheck)
  /\ UNCHANGED <<config, pairVars, uploadVars, holder, target, health, auto, promotions>>

\* applyShardStandbyPromotion: the new leader is dialled,
Dials(c, t) ==
  /\ At(c, t, "dial")
  /\ \/ thread[c][t].config.active \in up /\ Goto(c, t, "put") /\ NoFault
     \/ ((thread[c][t].config.active \notin up /\ NoFault) \/ Fault) /\ Ends(c, t)
  /\ UNCHANGED <<config, pairVars, uploadVars, holder, target, health, auto, promotions>>

\* the configuration is written, unless the one in the store is newer or the
\* call fails; a call that fails may have written it all the same,
PutsConfig(c, t) ==
  LET cfg == thread[c][t].config
      put == /\ cfg.version >= config.version
             /\ config' = cfg
             /\ promotions' = promotions \cup {[seen |-> thread[c][t].seen,
                                                must |-> thread[c][t].must,
                                                have |-> committed[cfg.active]]}
  IN
  /\ At(c, t, "put")
  /\ \/ put /\ Goto(c, t, "replace") /\ NoFault
     \/ put /\ Ends(c, t) /\ LostAnswer
     \/ /\ (cfg.version < config.version /\ NoFault) \/ Fault
        /\ Ends(c, t)
        /\ UNCHANGED <<config, promotions>>
  /\ UNCHANGED <<pairVars, uploadVars, holder, target, health, auto>>

\* Variant: the client is kept.
ReplacesClient_Kept(c, t) ==
  /\ At(c, t, "replace")
  /\ health' = [health EXCEPT ![c] = NoHealth]
  /\ Ends(c, t)
  /\ UNCHANGED <<config, pairVars, uploadVars, holder, target, auto, used, promotions>>

\* and the client is replaced; the automatic check records its success.
ReplacesClient(c, t) ==
  /\ At(c, t, "replace")
  /\ target' = [target EXCEPT ![c] = thread[c][t].config.active]
  /\ health' = [health EXCEPT ![c] = NoHealth]
  /\ auto' = IF t = AutoCheck THEN [auto EXCEPT ![c].failures = 0, ![c].cooling = TRUE] ELSE auto
  /\ Ends(c, t)
  /\ UNCHANGED <<config, pairVars, uploadVars, holder, used, promotions>>

CooldownEnds(c) ==
  /\ auto[c].cooling
  /\ auto' = [auto EXCEPT ![c].cooling = FALSE]
  /\ UNCHANGED <<config, pairVars, uploadVars, holder, target, health, thread, used, promotions>>

TakeOver(c) ==
  /\ holder # c
  /\ used.takeovers < MaxTakeovers
  /\ holder' = c
  /\ used' = [used EXCEPT !.takeovers = @ + 1]
  /\ UNCHANGED <<config, pairVars, uploadVars, target, health, auto, thread, promotions>>

ThreadSteps(c, t) ==
  \/ Refreshes(c, t) \/ ReadsActive(c, t) \/ ReadsStandby(c, t) \/ CommitsHealth(c, t)
  \/ Dials(c, t) \/ PutsConfig(c, t) \/ ReplacesClient(c, t)

Next ==
  \/ StartEpoch
  \/ \E p \in Pairs : PairStops(p) \/ \E u \in Uploads : Process(p, u)
  \/ \E u \in Uploads : SendToStandby(u) \/ SendToActive(u)
  \/ \E c \in Coordinators :
       \/ \E u \in Uploads : Upload3(c, u)
       \/ \E t \in Threads : ThreadSteps(c, t)
       \/ RunAutoPromotionCheck(c) \/ PromoteShardStandby(c)
       \/ \E force \in BOOLEAN : AdminEvaluates(c, force)
       \/ AutoEvaluates(c) \/ AutoProposes(c)
       \/ CooldownEnds(c) \/ TakeOver(c)

Spec == Init /\ [][Next]_vars

(***************************************************************************)
(* Fairness: tickers fire, calls return, workers work, time passes.  No    *)
(* fault and no wrong reading is ever forced.                              *)
(***************************************************************************)
FairSpec ==
  /\ Spec
  /\ \A p \in Pairs, u \in Uploads : WF_vars(Process(p, u))
  /\ \A c \in Coordinators :
       /\ WF_vars(CooldownEnds(c))
       /\ \A t \in Threads :
            WF_vars(\/ ThreadSteps(c, t)
                    \/ t = AutoCheck /\ (\/ RunAutoPromotionCheck(c)
                                        \/ AutoEvaluates(c)
                                        \/ AutoProposes(c))
                    \/ t = Admin /\ \E force \in BOOLEAN : AdminEvaluates(c, force))

-----------------------------------------------------------------------------
(***************************************************************************)
(* Properties                                                              *)
(***************************************************************************)

\* The pairs have not been switched back.  Two checks of one coordinator, or
\* the checks of two coordinators, can do that, for one of them may evaluate
\* a status of the standby that was read before the other promoted it.
SwitchedOnce == config.version <= 2

\* No reading of a queue's length has been wrong so far.
ExactReads == used.misreads = 0

\* Whoever promoted the standby, and even if another coordinator still sends
\* to the old active pair, an upload that Upload3 confirmed is queued at or
\* committed by the pair that the configuration names active.  It is so even
\* if the standby passed for drained by mistake.
ActiveHasAccepted ==
  SwitchedOnce => Accepted \subseteq queue[config.active] \cup committed[config.active]

\* A promoted pair has committed every upload that was confirmed when the
\* status that made it promotable was read, if the lengths of queues were
\* read right: whatever configurations were read, and whichever writes
\* failed or took effect unnoticed.
PromotedWasDrained ==
  SwitchedOnce /\ ExactReads => \A p \in promotions : p.seen \subseteq p.have

\* An active pair that is down is replaced, once the check has a baseline for
\* it, even if calls fail, readings are wrong or an answer is lost in between;
\* unless a pair reported an error of its ingestion, which is never forgotten.
DownActiveIsReplaced ==
  \A c \in Coordinators :
    (holder = c /\ auto[c].known /\ target[c] = config.active /\ config.active \notin up)
      ~> config.active \in up \/ failing # {}

\* A promoted pair has committed every upload that was confirmed before the
\* check that promoted it began, if only one thread of a coordinator probes
\* and the lengths of queues were read right: another one may put an older
\* probe in the place of the one just made.
PromotedIsCaughtUp ==
  SwitchedOnce /\ ExactReads /\ (\A r, t \in Threads : r = t) =>
    \A p \in promotions : p.must \subseteq p.have

\* The coordinator in charge talks to the pair the configuration names
\* active, unless it is about to, even if it changed a configuration that was
\* out of date.  After a take-over this need not hold: only the coordinator
\* that promotes replaces its client.  Nor after a write that took effect and
\* was reported as failed, for then nobody replaces it.  Nor when an operator
\* and the automatic check switch the pairs and back: the writes and the
\* replacements of the two interleave.
HolderUsesActive ==
  /\ used.takeovers = 0
  /\ used.lost = 0
  /\ SwitchedOnce \/ ~({AutoCheck, Admin} \subseteq Threads)
  => \/ target[holder] = config.active
     \/ \E t \in Threads : At(holder, t, "replace")
=============================================================================

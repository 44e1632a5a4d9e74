-------------------------- MODULE PromotionProofs --------------------------
(***************************************************************************)
(* Proofs about Promotion: types, the copies of the accepted uploads, the  *)
(* probes a promotion rests on, and the client of the holder.              *)
(***************************************************************************)
EXTENDS Promotion, FiniteSetTheorems, TLAPS

Handler ==
  [at : {"idle", "refresh", "active", "standby", "commit", "evaluate", "propose", "dial", "put",
         "replace"},
   config : [version : Nat, active : Pairs], ask : Pairs, health : Health,
   seen : SUBSET Uploads, must : SUBSET Uploads]

Used ==
  [faults : 0 .. MaxMishaps, misreads : 0 .. MaxMishaps, lost : 0 .. MaxMishaps,
   crashes : 0 .. MaxCrashes, takeovers : 0 .. MaxTakeovers]

\* The place of a handler that is going to write, or has written.
Promoting == {"dial", "put", "replace"}

\* The place of a handler that has found the standby fit.
Convinced == {"propose", "dial", "put"}

\* The places that only an automatic check or a call of an operator reaches.
Deciding == Promoting \cup {"evaluate", "propose"}

\* The status of the standby in h is of a standby without queued uploads.
Fit(h) == h.standby.reachable /\ h.standby.standby /\ h.standby.drained

\* The pairs of the first two configurations.
Numbered(cfg) ==
  /\ cfg.version # 0
  /\ cfg.version = 1 => cfg.active = A
  /\ cfg.version = 2 => cfg.active = B

(***************************************************************************)
(* A is never a standby; nothing runs at B before it was promoted.         *)
(***************************************************************************)
SwitchInv ==
  /\ replica[A] = "active"
  /\ Numbered(config)
  /\ config.version = 1 =>
       (\A c \in Coordinators : target[c] = A) /\ (\A u \in Uploads : at[u] = A)
  /\ \A c \in Coordinators, t \in Threads :
       /\ t = Admin /\ ~At(c, t, "idle") => Numbered(thread[c][t].config)
       /\ thread[c][t].at \in Promoting =>
            Numbered(thread[c][t].config) /\ thread[c][t].config.version > 1
       /\ At(c, t, "replace") => thread[c][t].config.version <= config.version

(***************************************************************************)
(* What A accepts has been sent to B before.                               *)
(***************************************************************************)
CopyInv ==
  \A u \in Uploads :
    /\ sent[u] \in {"standby_sent", "accepted"} /\ at[u] = A => u \in queue[B] \cup committed[B]
    /\ sent[u] = "accepted" => u \in queue[at[u]] \cup committed[at[u]]

(***************************************************************************)
(* While the lengths of queues are read right, a fit status is of B, which *)
(* had committed what was accepted by then.                                *)
(***************************************************************************)
HealthFacts ==
  /\ \A c \in Coordinators : Fit(health[c]) => health[c].seen \subseteq committed[B]
  /\ \A c \in Coordinators, t \in Threads :
       /\ Fit(thread[c][t].health) => thread[c][t].health.seen \subseteq committed[B]
       /\ thread[c][t].at \in Convinced => thread[c][t].seen \subseteq committed[B]
  /\ SwitchedOnce => \A p \in promotions : p.seen \subseteq p.have

HealthInv == ExactReads => HealthFacts

(***************************************************************************)
(* A thread that probes alone evaluates its own probe.                     *)
(***************************************************************************)

\* The threads of a coordinator are one.
Alone == \A r, t \in Threads : r = t

\* What thread t of coordinator c knows of the uploads it must find.
Knows(c, t) ==
  /\ thread[c][t].must \subseteq Accepted
  /\ thread[c][t].at \in {"idle", "refresh", "active", "standby"} => ~Fit(thread[c][t].health)
  /\ thread[c][t].at = "commit" /\ Fit(thread[c][t].health) =>
       thread[c][t].must \subseteq thread[c][t].health.seen
  /\ thread[c][t].at = "evaluate" /\ Fit(health[c]) => thread[c][t].must \subseteq health[c].seen
  /\ thread[c][t].at \in Convinced => thread[c][t].must \subseteq thread[c][t].seen

ProbeFacts ==
  /\ \A c \in Coordinators, t \in Threads : Knows(c, t)
  /\ SwitchedOnce => \A p \in promotions : p.must \subseteq p.have

ProbeInv == ExactReads /\ Alone => ProbeFacts

(***************************************************************************)
(* While the lease stays with FirstHolder, only its threads promote, and   *)
(* they replace the client unless the answer of the store was lost.        *)
(***************************************************************************)
HolderInv ==
  /\ \A c \in Coordinators, t \in Threads : thread[c][t].at \in Deciding => t # Monitor
  /\ used.takeovers = 0 =>
       /\ holder = FirstHolder
       /\ \A c \in Coordinators, t \in Threads :
            c # FirstHolder /\ t # Monitor => At(c, t, "idle")
  /\ used.takeovers = 0 /\ used.lost = 0 =>
       /\ config.version = 2 =>
            target[FirstHolder] = B \/ \E t \in Threads : At(FirstHolder, t, "replace")
       /\ ~({AutoCheck, Admin} \subseteq Threads) =>
            /\ \A t \in Threads :
                 At(FirstHolder, t, "replace") => thread[FirstHolder][t].config = config
            /\ \/ target[FirstHolder] = config.active
               \/ \E t \in Threads : At(FirstHolder, t, "replace")

-----------------------------------------------------------------------------
(***************************************************************************)
(* Types                                                                   *)
(***************************************************************************)

\* One handler becomes h.
Becomes(c, t, h) == thread' = [thread EXCEPT ![c][t] = h]

\* Every other handler is as before.
OthersStay(c, t) ==
  \A d \in Coordinators, r \in Threads : d # c \/ r # t => thread'[d][r] = thread[d][r]

LEMMA BecomesApplied ==
  ASSUME thread \in [Coordinators -> [Threads -> Handler]],
         NEW c \in Coordinators, NEW t \in Threads, NEW h \in Handler, Becomes(c, t, h)
  PROVE  /\ thread' \in [Coordinators -> [Threads -> Handler]]
         /\ thread'[c][t] = h
         /\ OthersStay(c, t)
  BY DEF Becomes, OthersStay

LEMMA ThreadTyped ==
  ASSUME TypeOK
  PROVE  /\ thread \in [Coordinators -> [Threads -> Handler]]
         /\ \A c \in Coordinators, t \in Threads : thread[c][t] \in Handler
  BY DEF TypeOK, Handler

LEMMA NoHealthTyped == NoStatus \in Status /\ NoHealth \in Health /\ ~Fit(NoHealth)
  <1>1. Cardinality(Uploads) \in Nat
    BY UploadsAssumption, FS_CardinalityType
  <1>2. NoStatus \in Status
    BY <1>1 DEF NoStatus, Status
  <1> QED BY <1>2 DEF NoHealth, Health, Fit, NoStatus

LEMMA IdleTyped == Idle \in Handler /\ Idle.at = "idle" /\ ~Fit(Idle.health) /\ Idle.must = {}
  BY NoHealthTyped DEF Idle, Handler, Pairs

LEMMA CountTyped ==
  ASSUME TypeOK, NEW p \in Pairs
  PROVE  Cardinality(committed[p]) \in 0 .. Cardinality(Uploads)
  <1>1. committed[p] \in SUBSET Uploads
    BY DEF TypeOK
  <1>2. IsFiniteSet(committed[p]) /\ Cardinality(committed[p]) <= Cardinality(Uploads)
    BY <1>1, UploadsAssumption, FS_Subset
  <1> QED BY <1>2, UploadsAssumption, FS_CardinalityType

LEMMA StatusTyped ==
  ASSUME TypeOK, NEW p \in Pairs, NEW drained \in BOOLEAN
  PROVE  StatusOf(p, drained) \in Status
  BY CountTyped DEF StatusOf, Status

LEMMA OtherTyped == \A p \in Pairs : Other(p) \in Pairs
  BY DEF Other, Pairs

(***************************************************************************)
(* What the steps of a thread do to it.                                    *)
(***************************************************************************)
LEMMA ConfigTyped ==
  ASSUME TypeOK, NEW cfg \in {config} \cup Former
  PROVE  cfg \in [version : Nat, active : Pairs]
  <1>1. config \in [version : Nat, active : Pairs]
    BY DEF TypeOK
  <1> QED BY <1>1 DEF Former, Pairs

\* A check or a call of an operator begins.
LEMMA BeginProfile ==
  ASSUME TypeOK, NEW c \in Coordinators, RunAutoPromotionCheck(c) \/ PromoteShardStandby(c)
  PROVE  /\ UNCHANGED <<config, pairVars, uploadVars, holder, target, health, auto, promotions>>
         /\ NoFault \/ Fault
         /\ holder = c
         /\ thread' \in [Coordinators -> [Threads -> Handler]]
         /\ \E t \in Threads :
              /\ t # Monitor /\ OthersStay(c, t)
              /\ thread[c][t].at = "idle" /\ thread'[c][t].at = "refresh"
              /\ t = Admin => thread'[c][t].config \in {config} \cup Former
              /\ thread'[c][t].health = NoHealth
              /\ thread'[c][t].must \subseteq Accepted
  <1>1. Accepted \in SUBSET Uploads
    BY DEF Accepted
  <1>2. CASE RunAutoPromotionCheck(c)
    <2> DEFINE h == [Idle EXCEPT !.at = "refresh", !.must = Accepted]
    <2>1. Becomes(c, AutoCheck, h) /\ AutoCheck \in Threads /\ thread[c][AutoCheck].at = "idle"
          /\ holder = c
      BY <1>2 DEF RunAutoPromotionCheck, Becomes, At
    <2>2. h \in Handler /\ h.at = "refresh" /\ h.health = NoHealth /\ h.must \subseteq Accepted
      BY <1>1, IdleTyped DEF Idle, Handler
    <2> HIDE DEF h
    <2>3. /\ thread' \in [Coordinators -> [Threads -> Handler]]
          /\ thread'[c][AutoCheck] = h /\ OthersStay(c, AutoCheck)
      BY <2>1, <2>2, ThreadTyped, BecomesApplied
    <2>4. /\ UNCHANGED <<config, pairVars, uploadVars, holder, target, health, auto, promotions>>
          /\ NoFault
      BY <1>2 DEF RunAutoPromotionCheck, NoFault
    <2> QED BY <2>1, <2>2, <2>3, <2>4, ThreadsAssumption
  <1>3. CASE PromoteShardStandby(c)
    <2>1. PICK cfg \in {config} \cup Former :
            /\ GetShardConfig(cfg)
            /\ thread' = [thread EXCEPT ![c][Admin] =
                 [Idle EXCEPT !.at = "refresh", !.config = cfg, !.must = Accepted]]
      BY <1>3 DEF PromoteShardStandby
    <2> DEFINE h == [Idle EXCEPT !.at = "refresh", !.config = cfg, !.must = Accepted]
    <2>2. Becomes(c, Admin, h) /\ Admin \in Threads /\ thread[c][Admin].at = "idle" /\ holder = c
      BY <1>3, <2>1 DEF PromoteShardStandby, Becomes, At
    <2>3. cfg \in [version : Nat, active : Pairs]
      BY ConfigTyped
    <2>4. /\ h \in Handler /\ h.at = "refresh" /\ h.config = cfg /\ h.health = NoHealth
          /\ h.must \subseteq Accepted
      BY <1>1, <2>3, IdleTyped DEF Idle, Handler
    <2> HIDE DEF h
    <2>5. /\ thread' \in [Coordinators -> [Threads -> Handler]]
          /\ thread'[c][Admin] = h /\ OthersStay(c, Admin)
      BY <2>2, <2>4, ThreadTyped, BecomesApplied
    <2>6. /\ UNCHANGED <<config, pairVars, uploadVars, holder, target, health, auto, promotions>>
          /\ NoFault \/ Fault
      BY <1>3, <2>1 DEF PromoteShardStandby, GetShardConfig
    <2> QED BY <2>2, <2>4, <2>5, <2>6, ThreadsAssumption
  <1> QED BY <1>2, <1>3

LEMMA RefreshesProfile ==
  ASSUME TypeOK, NEW c \in Coordinators, NEW t \in Threads, Refreshes(c, t)
  PROVE  /\ thread' \in [Coordinators -> [Threads -> Handler]] /\ OthersStay(c, t)
         /\ NoFault \/ Fault
         /\ thread[c][t].at = (IF t = Monitor THEN "idle" ELSE "refresh")
         /\ thread'[c][t].at = "active"
         /\ thread'[c][t].config = thread[c][t].config
         /\ thread'[c][t].health = thread[c][t].health
         /\ thread'[c][t].must = thread[c][t].must
  <1> DEFINE g == thread[c][t]
  <1>1. PICK cfg \in {config} \cup Former :
          /\ GetShardConfig(cfg)
          /\ thread' = [thread EXCEPT ![c][t].at = "active", ![c][t].ask = Other(cfg.active)]
    BY DEF Refreshes
  <1> DEFINE q == Other(cfg.active)
             h == [g EXCEPT !.at = "active", !.ask = q]
  <1>2. g \in Handler /\ q \in Pairs
    BY ThreadTyped, ConfigTyped, OtherTyped
  <1> HIDE DEF q
  <1>3. Becomes(c, t, h)
    BY <1>1, <1>2, ThreadTyped DEF Becomes, q
  <1>4. /\ h \in Handler /\ h.at = "active" /\ h.config = g.config
        /\ h.health = g.health /\ h.must = g.must
    BY <1>2 DEF Handler
  <1> HIDE DEF h
  <1>5. g.at = (IF t = Monitor THEN "idle" ELSE "refresh")
    BY DEF Refreshes, At
  <1>6. NoFault \/ Fault
    BY <1>1 DEF GetShardConfig
  <1> QED BY <1>3, <1>4, <1>5, <1>6, ThreadTyped, BecomesApplied

LEMMA GotoProfile ==
  ASSUME TypeOK, NEW c \in Coordinators, NEW t \in Threads,
         NEW place \in {"standby", "commit", "put", "replace"}, Goto(c, t, place)
  PROVE  /\ thread' \in [Coordinators -> [Threads -> Handler]] /\ OthersStay(c, t)
         /\ thread'[c][t].at = place
         /\ thread'[c][t].config = thread[c][t].config
         /\ thread'[c][t].health = thread[c][t].health
         /\ thread'[c][t].seen = thread[c][t].seen
         /\ thread'[c][t].must = thread[c][t].must
  <1> DEFINE h == [thread[c][t] EXCEPT !.at = place]
  <1>1. Becomes(c, t, h)
    BY DEF Goto, Becomes
  <1>2. thread[c][t] \in Handler
    BY ThreadTyped
  <1>3. /\ h \in Handler /\ h.at = place /\ h.config = thread[c][t].config
        /\ h.health = thread[c][t].health /\ h.seen = thread[c][t].seen
        /\ h.must = thread[c][t].must
    BY <1>2 DEF Handler
  <1> HIDE DEF h
  <1> QED BY <1>1, <1>3, ThreadTyped, BecomesApplied

LEMMA EndsProfile ==
  ASSUME TypeOK, NEW c \in Coordinators, NEW t \in Threads, Ends(c, t)
  PROVE  /\ thread' \in [Coordinators -> [Threads -> Handler]] /\ OthersStay(c, t)
         /\ thread'[c][t] = Idle
  BY ThreadTyped, BecomesApplied, IdleTyped DEF Ends, Becomes

LEMMA ReadsActiveProfile ==
  ASSUME TypeOK, NEW c \in Coordinators, NEW t \in Threads, ReadsActive(c, t)
  PROVE  /\ thread' \in [Coordinators -> [Threads -> Handler]] /\ OthersStay(c, t)
         /\ thread'[c][t].at = "standby"
         /\ thread'[c][t].config = thread[c][t].config
         /\ thread'[c][t].health.standby = thread[c][t].health.standby
         /\ thread'[c][t].health.seen = thread[c][t].health.seen
         /\ thread'[c][t].must = thread[c][t].must
  <1> DEFINE g == thread[c][t]
             st == [NoStatus EXCEPT !.reachable = TRUE, !.count = Cardinality(committed[target[c]])]
             k == [g.health EXCEPT !.active = st]
             h == [g EXCEPT !.at = "standby", !.health = k]
  <1>1. CASE thread' = [thread EXCEPT ![c][t].at = "standby", ![c][t].health.active = st]
    <2>1. st \in Status
      <3>1. Cardinality(committed[target[c]]) \in 0 .. Cardinality(Uploads)
        BY CountTyped DEF TypeOK
      <3> QED BY <3>1, NoHealthTyped DEF Status, NoStatus
    <2> HIDE DEF st
    <2>2. g \in Handler
      BY ThreadTyped
    <2>3. k \in Health /\ k.standby = g.health.standby /\ k.seen = g.health.seen
      BY <2>1, <2>2 DEF Handler, Health
    <2>4. Becomes(c, t, h)
      BY <1>1, <2>2, ThreadTyped DEF Becomes
    <2> HIDE DEF k
    <2>5. /\ h \in Handler /\ h.at = "standby" /\ h.config = g.config
          /\ h.health = k /\ h.must = g.must
      BY <2>2, <2>3 DEF Handler
    <2> HIDE DEF h
    <2> QED BY <2>3, <2>4, <2>5, ThreadTyped, BecomesApplied
  <1>2. CASE Goto(c, t, "standby")
    BY <1>2, GotoProfile
  <1> QED BY <1>1, <1>2 DEF ReadsActive

LEMMA ReadsStandbyProfile ==
  ASSUME TypeOK, NEW c \in Coordinators, NEW t \in Threads, ReadsStandby(c, t)
  PROVE  /\ thread' \in [Coordinators -> [Threads -> Handler]] /\ OthersStay(c, t)
         /\ NoFault \/ Fault \/ Misread
         /\ thread[c][t].at = "standby" /\ thread'[c][t].at = "commit"
         /\ thread'[c][t].config = thread[c][t].config
         /\ thread'[c][t].must = thread[c][t].must
         /\ \/ \E drained \in BOOLEAN :
                 /\ Stats(thread[c][t].ask, drained)
                 /\ thread'[c][t].health.standby = StatusOf(thread[c][t].ask, drained)
                 /\ thread'[c][t].health.seen = Accepted
            \/ thread'[c][t].health = thread[c][t].health
  <1> DEFINE g == thread[c][t]
             p == g.ask
  <1>1. ASSUME NEW drained \in BOOLEAN, Stats(p, drained),
               thread' = [thread EXCEPT ![c][t].at = "commit",
                            ![c][t].health = [g.health EXCEPT !.standby = StatusOf(p, drained),
                                                              !.seen = Accepted]]
        PROVE  /\ thread' \in [Coordinators -> [Threads -> Handler]] /\ OthersStay(c, t)
               /\ thread'[c][t].at = "commit"
               /\ thread'[c][t].config = g.config
               /\ thread'[c][t].must = g.must
               /\ thread'[c][t].health.standby = StatusOf(p, drained)
               /\ thread'[c][t].health.seen = Accepted
    <2> DEFINE k == [g.health EXCEPT !.standby = StatusOf(p, drained), !.seen = Accepted]
               h == [g EXCEPT !.at = "commit", !.health = k]
    <2>1. g \in Handler
      BY ThreadTyped
    <2>2. StatusOf(p, drained) \in Status /\ Accepted \in SUBSET Uploads
      BY <2>1, StatusTyped DEF Handler, Accepted
    <2>3. k \in Health /\ k.standby = StatusOf(p, drained) /\ k.seen = Accepted
      BY <2>1, <2>2 DEF Handler, Health
    <2> HIDE DEF k
    <2>4. Becomes(c, t, h)
      BY <1>1, <2>1, ThreadTyped DEF Becomes, k
    <2>5. /\ h \in Handler /\ h.at = "commit" /\ h.config = g.config
          /\ h.health = k /\ h.must = g.must
      BY <2>1, <2>3 DEF Handler
    <2> HIDE DEF h
    <2> QED BY <2>3, <2>4, <2>5, ThreadTyped, BecomesApplied
  <1>3. thread[c][t].at = "standby"
    BY DEF ReadsStandby, At
  <1>4. \/ \E drained \in BOOLEAN :
             /\ Stats(p, drained)
             /\ thread' = [thread EXCEPT ![c][t].at = "commit",
                             ![c][t].health = [g.health EXCEPT !.standby = StatusOf(p, drained),
                                                               !.seen = Accepted]]
        \/ Goto(c, t, "commit")
    BY DEF ReadsStandby
  <1>5. NoFault \/ Fault \/ Misread
    BY DEF ReadsStandby, Stats
  <1>6. CASE Goto(c, t, "commit")
    BY <1>3, <1>5, <1>6, GotoProfile
  <1>7. CASE ~Goto(c, t, "commit")
    <2>1. PICK drained \in BOOLEAN :
            /\ Stats(p, drained)
            /\ thread' = [thread EXCEPT ![c][t].at = "commit",
                            ![c][t].health = [g.health EXCEPT !.standby = StatusOf(p, drained),
                                                              !.seen = Accepted]]
      BY <1>4, <1>7
    <2>2. /\ thread' \in [Coordinators -> [Threads -> Handler]] /\ OthersStay(c, t)
          /\ thread'[c][t].at = "commit"
          /\ thread'[c][t].config = g.config
          /\ thread'[c][t].must = g.must
          /\ thread'[c][t].health.standby = StatusOf(p, drained)
          /\ thread'[c][t].health.seen = Accepted
      BY <1>1, <2>1
    <2> QED BY <1>3, <1>5, <2>1, <2>2
  <1> QED BY <1>6, <1>7

LEMMA CommitsHealthProfile ==
  ASSUME TypeOK, NEW c \in Coordinators, NEW t \in Threads, CommitsHealth(c, t)
  PROVE  /\ thread' \in [Coordinators -> [Threads -> Handler]] /\ OthersStay(c, t)
         /\ health' = [health EXCEPT ![c] = thread[c][t].health] /\ thread[c][t].health \in Health
         /\ thread[c][t].at = "commit"
         /\ \/ thread'[c][t] = Idle
            \/ /\ t # Monitor
               /\ thread'[c][t].at = "evaluate"
               /\ thread'[c][t].config = thread[c][t].config
               /\ thread'[c][t].health = NoHealth
               /\ thread'[c][t].must = thread[c][t].must
  <1> DEFINE g == thread[c][t]
             h == [g EXCEPT !.at = "evaluate", !.ask = B, !.health = NoHealth]
  <1>1. g \in Handler
    BY ThreadTyped
  <1>2. Becomes(c, t, IF t = Monitor THEN Idle ELSE h)
    BY ThreadTyped DEF CommitsHealth, Becomes
  <1>3. /\ h \in Handler /\ h.at = "evaluate" /\ h.config = g.config
        /\ h.health = NoHealth /\ h.must = g.must
    BY <1>1, NoHealthTyped DEF Handler, Pairs
  <1>4. g.health \in Health
    BY <1>1 DEF Handler
  <1>5. g.at = "commit" /\ health' = [health EXCEPT ![c] = g.health]
    BY DEF CommitsHealth, At
  <1> HIDE DEF h, g
  <1>6. CASE t = Monitor
    <2>1. Becomes(c, t, Idle)
      BY <1>2, <1>6
    <2> QED BY <1>4, <1>5, <2>1, ThreadTyped, IdleTyped, BecomesApplied DEF g
  <1>7. CASE t # Monitor
    <2>1. Becomes(c, t, h)
      BY <1>2, <1>7
    <2> QED BY <1>3, <1>4, <1>5, <1>7, <2>1, ThreadTyped, BecomesApplied DEF g
  <1> QED BY <1>6, <1>7

\* An evaluation with the configuration cfg and the status in health[c].
LEMMA PromotedTyped ==
  ASSUME NEW cfg \in [version : Nat, active : Pairs]
  PROVE  /\ Promoted(cfg) \in [version : Nat, active : Pairs]
         /\ Promoted(cfg).version = cfg.version + 1
         /\ Promoted(cfg).active = Other(cfg.active)
  BY OtherTyped DEF Promoted

LEMMA EvaluatesProfile ==
  ASSUME TypeOK, NEW c \in Coordinators, NEW t \in Threads,
         NEW cfg \in [version : Nat, active : Pairs],
         thread' = [thread EXCEPT ![c][t].at = "dial", ![c][t].config = Promoted(cfg),
                                  ![c][t].seen = health[c].seen]
  PROVE  /\ thread' \in [Coordinators -> [Threads -> Handler]] /\ OthersStay(c, t)
         /\ thread'[c][t].at = "dial"
         /\ thread'[c][t].config = Promoted(cfg)
         /\ thread'[c][t].health = thread[c][t].health
         /\ thread'[c][t].seen = health[c].seen
         /\ thread'[c][t].must = thread[c][t].must
  <1> DEFINE g == thread[c][t]
             new == Promoted(cfg)
             seen == health[c].seen
             h == [g EXCEPT !.at = "dial", !.config = new, !.seen = seen]
  <1>1. g \in Handler
    BY ThreadTyped
  <1>2. seen \in SUBSET Uploads /\ new \in [version : Nat, active : Pairs]
    BY PromotedTyped DEF TypeOK, Health
  <1> HIDE DEF new, seen
  <1>3. Becomes(c, t, h)
    BY <1>1, ThreadTyped DEF Becomes, new, seen
  <1>4. /\ h \in Handler /\ h.at = "dial" /\ h.config = new
        /\ h.health = g.health /\ h.seen = seen /\ h.must = g.must
    BY <1>1, <1>2 DEF Handler
  <1> HIDE DEF h
  <1>5. thread' \in [Coordinators -> [Threads -> Handler]] /\ OthersStay(c, t) /\ thread'[c][t] = h
    BY <1>3, <1>4, ThreadTyped, BecomesApplied
  <1> QED BY <1>4, <1>5 DEF new, seen

LEMMA AutoEvaluatesTyped ==
  ASSUME TypeOK, NEW c \in Coordinators, AutoEvaluates(c)
  PROVE  /\ auto' \in [Coordinators -> [failures : 0 .. FailureThreshold, cooling : BOOLEAN,
                                        baseline : 0 .. Cardinality(Uploads), known : BOOLEAN]]
         /\ AutoCheck \in Threads
         /\ thread[c][AutoCheck].at = "evaluate"
         /\ NoFault \/ Fault
         /\ \/ Ends(c, AutoCheck)
            \/ /\ Fit(health[c])
               /\ thread' = [thread EXCEPT ![c][AutoCheck].at = "propose",
                               ![c][AutoCheck].seen = health[c].seen]
  <1> DEFINE a == auto[c]
             k == IF health[c].active.reachable
                  THEN [a EXCEPT !.failures = 0, !.baseline = health[c].active.count,
                                 !.known = TRUE]
                  ELSE [a EXCEPT !.failures = Failures(a)]
             State == [failures : 0 .. FailureThreshold, cooling : BOOLEAN,
                       baseline : 0 .. Cardinality(Uploads), known : BOOLEAN]
  <1>1. a \in State /\ health[c].active.count \in 0 .. Cardinality(Uploads)
        /\ auto \in [Coordinators -> State]
    BY DEF TypeOK, Health, Status
  <1>2. Failures(a) \in 0 .. FailureThreshold
    BY <1>1, ThresholdAssumption DEF Failures
  <1>3. k \in State
    <2> DEFINE n == Failures(a)
               m == health[c].active.count
    <2>1. n \in 0 .. FailureThreshold /\ m \in 0 .. Cardinality(Uploads) /\ 0 \in 0 .. FailureThreshold
      BY <1>1, <1>2, ThresholdAssumption
    <2> HIDE DEF a, n, m
    <2>2. [a EXCEPT !.failures = 0, !.baseline = m, !.known = TRUE] \in State
      BY <1>1, <2>1
    <2>3. [a EXCEPT !.failures = n] \in State
      BY <1>1, <2>1
    <2> QED BY <2>2, <2>3 DEF n, m
  <1>4. auto' = [auto EXCEPT ![c] = k] \/ UNCHANGED auto
    BY DEF AutoEvaluates
  <1> HIDE DEF k, a, State
  <1>5. auto' \in [Coordinators -> State]
    BY <1>1, <1>3, <1>4
  <1>6. AutoReady(health[c], auto[c]) => Fit(health[c])
    BY DEF AutoReady, StandbyFit, Fit
  <1>7. AutoCheck \in Threads /\ thread[c][AutoCheck].at = "evaluate"
    BY DEF AutoEvaluates, At
  <1>8. \/ Ends(c, AutoCheck)
        \/ /\ Fit(health[c])
           /\ thread' = [thread EXCEPT ![c][AutoCheck].at = "propose",
                           ![c][AutoCheck].seen = health[c].seen]
    BY <1>6 DEF AutoEvaluates
  <1>9. NoFault \/ Fault
    BY DEF AutoEvaluates
  <1> QED BY <1>5, <1>7, <1>8, <1>9 DEF State

LEMMA AdminEvaluatesProfile ==
  ASSUME TypeOK, NEW c \in Coordinators, NEW force \in BOOLEAN, AdminEvaluates(c, force)
  PROVE  /\ Admin \in Threads
         /\ thread[c][Admin].at = "evaluate"
         /\ \/ Ends(c, Admin)
            \/ /\ Fit(health[c])
               /\ thread' = [thread EXCEPT ![c][Admin].at = "dial",
                               ![c][Admin].config = Promoted(thread[c][Admin].config),
                               ![c][Admin].seen = health[c].seen]
  <1>1. ManuallyPromotable(health[c], force) => Fit(health[c])
    BY DEF ManuallyPromotable, StandbyFit, Fit
  <1>2. Admin \in Threads /\ thread[c][Admin].at = "evaluate"
    BY DEF AdminEvaluates, At
  <1>3. \/ Ends(c, Admin)
        \/ /\ Fit(health[c])
           /\ thread' = [thread EXCEPT ![c][Admin].at = "dial",
                           ![c][Admin].config = Promoted(thread[c][Admin].config),
                           ![c][Admin].seen = health[c].seen]
    BY <1>1 DEF AdminEvaluates
  <1> QED BY <1>2, <1>3

\* An evaluation of the operator's call or of the automatic check.
Evaluates(c) == (\E force \in BOOLEAN : AdminEvaluates(c, force)) \/ AutoEvaluates(c)

\* The two evaluations: nothing else than the thread and the state of the
\* automatic check changes.
LEMMA EvaluationProfile ==
  ASSUME TypeOK, NEW c \in Coordinators, Evaluates(c)
  PROVE  /\ UNCHANGED <<config, pairVars, uploadVars, holder, target, health, promotions>>
         /\ NoFault \/ Fault
         /\ thread' \in [Coordinators -> [Threads -> Handler]]
         /\ \E t \in Threads :
              /\ t # Monitor /\ OthersStay(c, t)
              /\ thread[c][t].at = "evaluate"
              /\ \/ thread'[c][t] = Idle
                 \/ /\ Fit(health[c])
                    /\ thread'[c][t].health = thread[c][t].health
                    /\ thread'[c][t].seen = health[c].seen
                    /\ thread'[c][t].must = thread[c][t].must
                    /\ \/ t # Admin /\ thread'[c][t].at = "propose"
                       \/ /\ t = Admin /\ thread'[c][t].at = "dial"
                          /\ thread'[c][t].config = Promoted(thread[c][t].config)
  <1>1. CASE \E force \in BOOLEAN : AdminEvaluates(c, force)
    <2>0. PICK force \in BOOLEAN : AdminEvaluates(c, force)
      BY <1>1
    <2> DEFINE t == Admin
    <2>1. /\ t \in Threads
          /\ thread[c][t].at = "evaluate"
          /\ \/ Ends(c, t)
             \/ /\ Fit(health[c])
                /\ thread' = [thread EXCEPT ![c][t].at = "dial",
                                ![c][t].config = Promoted(thread[c][t].config),
                                ![c][t].seen = health[c].seen]
      BY <2>0, AdminEvaluatesProfile
    <2>2. /\ UNCHANGED <<config, pairVars, uploadVars, holder, target, health, promotions>>
          /\ NoFault /\ t = Admin /\ t # Monitor
      BY <2>0, ThreadsAssumption DEF AdminEvaluates, NoFault
    <2> HIDE DEF t
    <2>3. CASE Ends(c, t)
      BY <2>1, <2>2, <2>3, EndsProfile
    <2>4. CASE ~Ends(c, t)
      <3> DEFINE cfg == thread[c][t].config
      <3>1. cfg \in [version : Nat, active : Pairs]
        BY <2>1, ThreadTyped DEF Handler
      <3> HIDE DEF cfg
      <3>2. thread' = [thread EXCEPT ![c][t].at = "dial", ![c][t].config = Promoted(cfg),
                                     ![c][t].seen = health[c].seen]
        BY <2>1, <2>4 DEF cfg
      <3>3. /\ thread' \in [Coordinators -> [Threads -> Handler]] /\ OthersStay(c, t)
            /\ thread'[c][t].at = "dial"
            /\ thread'[c][t].config = Promoted(cfg)
            /\ thread'[c][t].health = thread[c][t].health
            /\ thread'[c][t].seen = health[c].seen
            /\ thread'[c][t].must = thread[c][t].must
        BY <2>1, <3>1, <3>2, EvaluatesProfile
      <3>4. Fit(health[c])
        BY <2>1, <2>4
      <3> QED BY <2>1, <2>2, <3>3, <3>4 DEF cfg
    <2> QED BY <2>3, <2>4
  <1>2. CASE AutoEvaluates(c)
    <2> DEFINE t == AutoCheck
    <2>1. /\ t \in Threads
          /\ thread[c][t].at = "evaluate"
          /\ NoFault \/ Fault
          /\ \/ Ends(c, t)
             \/ /\ Fit(health[c])
                /\ thread' = [thread EXCEPT ![c][t].at = "propose",
                                            ![c][t].seen = health[c].seen]
      BY <1>2, AutoEvaluatesTyped
    <2>2. /\ UNCHANGED <<config, pairVars, uploadVars, holder, target, health, promotions>>
          /\ t # Admin /\ t # Monitor
      BY <1>2, ThreadsAssumption DEF AutoEvaluates
    <2> HIDE DEF t
    <2>3. CASE Ends(c, t)
      BY <2>1, <2>2, <2>3, EndsProfile
    <2>4. CASE ~Ends(c, t)
      <3> DEFINE g == thread[c][t]
                 seen == health[c].seen
                 h == [g EXCEPT !.at = "propose", !.seen = seen]
      <3>1. g \in Handler /\ seen \in SUBSET Uploads
        BY <2>1, ThreadTyped DEF TypeOK, Health
      <3>2. Fit(health[c]) /\ Becomes(c, t, h)
        BY <2>1, <2>4, <3>1, ThreadTyped DEF Becomes
      <3> HIDE DEF seen
      <3>3. /\ h \in Handler /\ h.at = "propose" /\ h.health = g.health
            /\ h.seen = seen /\ h.must = g.must
        BY <3>1 DEF Handler
      <3> HIDE DEF h
      <3>4. /\ thread' \in [Coordinators -> [Threads -> Handler]] /\ OthersStay(c, t)
            /\ thread'[c][t] = h
        BY <2>1, <3>2, <3>3, ThreadTyped, BecomesApplied
      <3> QED BY <2>1, <2>2, <3>2, <3>3, <3>4 DEF seen
    <2> QED BY <2>3, <2>4
  <1> QED BY <1>1, <1>2 DEF Evaluates

LEMMA AutoProposesProfile ==
  ASSUME TypeOK, NEW c \in Coordinators, AutoProposes(c)
  PROVE  /\ UNCHANGED <<config, pairVars, uploadVars, holder, target, health, auto, promotions>>
         /\ NoFault \/ Fault
         /\ thread' \in [Coordinators -> [Threads -> Handler]]
         /\ \E t \in Threads :
              /\ t # Monitor /\ OthersStay(c, t)
              /\ thread[c][t].at = "propose"
              /\ \/ thread'[c][t] = Idle
                 \/ /\ thread'[c][t].at = "dial"
                    /\ \E cfg \in {config} \cup Former : thread'[c][t].config = Promoted(cfg)
                    /\ thread'[c][t].health = thread[c][t].health
                    /\ thread'[c][t].seen = thread[c][t].seen
                    /\ thread'[c][t].must = thread[c][t].must
  <1> DEFINE t == AutoCheck
  <1>1. /\ UNCHANGED <<config, pairVars, uploadVars, holder, target, health, auto, promotions>>
        /\ NoFault \/ Fault
        /\ t \in Threads /\ t # Monitor /\ thread[c][t].at = "propose"
    BY ThreadsAssumption DEF AutoProposes, At, GetShardConfig
  <1>2. \/ Ends(c, t)
        \/ \E cfg \in {config} \cup Former :
             thread' = [thread EXCEPT ![c][t].at = "dial", ![c][t].config = Promoted(cfg)]
    BY DEF AutoProposes
  <1> HIDE DEF t
  <1>3. CASE Ends(c, t)
    BY <1>1, <1>3, EndsProfile
  <1>4. ASSUME NEW cfg \in {config} \cup Former,
               thread' = [thread EXCEPT ![c][t].at = "dial", ![c][t].config = Promoted(cfg)]
        PROVE  /\ thread' \in [Coordinators -> [Threads -> Handler]] /\ OthersStay(c, t)
               /\ thread'[c][t].at = "dial"
               /\ thread'[c][t].config = Promoted(cfg)
               /\ thread'[c][t].health = thread[c][t].health
               /\ thread'[c][t].seen = thread[c][t].seen
               /\ thread'[c][t].must = thread[c][t].must
    <2> DEFINE g == thread[c][t]
               new == Promoted(cfg)
               h == [g EXCEPT !.at = "dial", !.config = new]
    <2>1. g \in Handler /\ new \in [version : Nat, active : Pairs]
      BY <1>1, ThreadTyped, ConfigTyped, PromotedTyped
    <2> HIDE DEF new
    <2>2. Becomes(c, t, h)
      BY <1>1, <1>4, <2>1, ThreadTyped DEF Becomes, new
    <2>3. /\ h \in Handler /\ h.at = "dial" /\ h.config = new
          /\ h.health = g.health /\ h.seen = g.seen /\ h.must = g.must
      BY <2>1 DEF Handler
    <2> HIDE DEF h
    <2>4. /\ thread' \in [Coordinators -> [Threads -> Handler]] /\ OthersStay(c, t)
          /\ thread'[c][t] = h
      BY <1>1, <2>2, <2>3, ThreadTyped, BecomesApplied
    <2> QED BY <2>3, <2>4 DEF new
  <1> QED BY <1>1, <1>2, <1>3, <1>4

\* What a step may draw from the bounds, besides crashes and take-overs.
Draws == NoFault \/ Fault \/ Misread \/ LostAnswer

LEMMA DrawsTyped ==
  ASSUME TypeOK, Draws
  PROVE  /\ used' \in Used
         /\ used'.takeovers = used.takeovers
         /\ used'.misreads = 0 => used.misreads = 0 /\ ~Misread
         /\ used'.lost = 0 => used.lost = 0 /\ ~LostAnswer
  <1>1. used \in Used
    BY DEF TypeOK, Used
  <1>2. /\ used.faults \in Nat /\ used.misreads \in Nat /\ used.lost \in Nat
        /\ used.faults <= MaxMishaps /\ used.misreads <= MaxMishaps /\ used.lost <= MaxMishaps
    BY <1>1, BoundsAssumption DEF Used
  <1>3. Unspent => /\ used.faults + 1 \in 0 .. MaxMishaps
                   /\ used.misreads + 1 \in 0 .. MaxMishaps
                   /\ used.lost + 1 \in 0 .. MaxMishaps
    BY <1>2, BoundsAssumption DEF Unspent
  <1>4. Misread => used' \in Used /\ used'.misreads = used.misreads + 1
                   /\ used'.lost = used.lost /\ used'.takeovers = used.takeovers
    BY <1>1, <1>3 DEF Misread, Used
  <1>6. LostAnswer => used' \in Used /\ used'.misreads = used.misreads
                      /\ used'.lost = used.lost + 1 /\ used'.takeovers = used.takeovers
    BY <1>1, <1>3 DEF LostAnswer, Used
  <1>7. Fault \/ NoFault => used' \in Used /\ used'.misreads = used.misreads
                            /\ used'.lost = used.lost /\ used'.takeovers = used.takeovers
    BY <1>1, <1>3 DEF Fault, NoFault, Used
  <1> QED BY <1>2, <1>4, <1>6, <1>7 DEF Draws

LEMMA InitTyped == Init => TypeOK
  <1> SUFFICES ASSUME Init PROVE TypeOK
    OBVIOUS
  <1>1. Cardinality(Uploads) \in Nat
    BY UploadsAssumption, FS_CardinalityType
  <1>2. thread \in [Coordinators -> [Threads -> Handler]]
    BY IdleTyped DEF Init
  <1>3. health \in [Coordinators -> Health]
    BY NoHealthTyped DEF Init
  <1>4. auto \in [Coordinators -> [failures : 0 .. FailureThreshold, cooling : BOOLEAN,
                                   baseline : 0 .. Cardinality(Uploads), known : BOOLEAN]]
    BY <1>1, ThresholdAssumption DEF Init
  <1>5. used \in Used
    BY BoundsAssumption DEF Init, Used
  <1> QED BY <1>2, <1>3, <1>4, <1>5, FirstHolderAssumption DEF Init, TypeOK, Pairs, Handler, Used

LEMMA StepTypes == TypeOK /\ [Next]_vars => TypeOK'
  <1> SUFFICES ASSUME TypeOK, [Next]_vars PROVE TypeOK'
    OBVIOUS
  <1> DEFINE State == [failures : 0 .. FailureThreshold, cooling : BOOLEAN,
                       baseline : 0 .. Cardinality(Uploads), known : BOOLEAN]
  <1>1. /\ thread \in [Coordinators -> [Threads -> Handler]]
        /\ used \in Used /\ auto \in [Coordinators -> State]
        /\ health \in [Coordinators -> Health]
        /\ queue \in [Pairs -> SUBSET Uploads] /\ committed \in [Pairs -> SUBSET Uploads]
        /\ failing \subseteq Pairs
        /\ sent \in [Uploads -> {"new", "payload", "standby_sent", "accepted", "failed"}]
        /\ at \in [Uploads -> Pairs] /\ target \in [Coordinators -> Pairs]
    BY ThreadTyped DEF TypeOK, Used
  <1>2. ASSUME NEW u \in Uploads,
               \/ \E c \in Coordinators : Upload3(c, u)
               \/ SendToStandby(u) \/ SendToActive(u)
               \/ \E p \in Pairs : Process(p, u)
        PROVE  TypeOK'
    <2>1. Fault \/ NoFault
      BY <1>2 DEF Upload3, SendToStandby, SendToActive, Process
    <2>2. used' \in Used
      BY <2>1, DrawsTyped DEF Draws
    <2>3. UNCHANGED <<config, up, replica, coordVars, promotions>>
      BY <1>2 DEF Upload3, SendToStandby, SendToActive, Process, pairVars
    <2>4. queue' \in [Pairs -> SUBSET Uploads] /\ committed' \in [Pairs -> SUBSET Uploads]
          /\ failing' \subseteq Pairs
      <3>1. CASE \E c \in Coordinators : Upload3(c, u)
        BY <1>1, <3>1 DEF Upload3, pairVars
      <3>2. CASE SendToStandby(u)
        <4> DEFINE q == IF at[u] = A THEN queue[B] \cup {u} ELSE queue[B]
        <4>1. q \in SUBSET Uploads
          BY <1>1 DEF Pairs
        <4>2. queue' = [queue EXCEPT ![B] = q] \/ UNCHANGED queue
          BY <3>2 DEF SendToStandby
        <4> QED BY <1>1, <3>2, <4>1, <4>2 DEF SendToStandby
      <3>3. CASE SendToActive(u)
        <4>1. queue' = [queue EXCEPT ![at[u]] = queue[at[u]] \cup {u}] \/ UNCHANGED queue
          BY <3>3 DEF SendToActive
        <4> QED BY <1>1, <3>3, <4>1 DEF SendToActive
      <3>4. CASE \E p \in Pairs : Process(p, u)
        <4>1. PICK p \in Pairs : Process(p, u)
          BY <3>4
        <4>2. queue' = [queue EXCEPT ![p] = queue[p] \ {u}] \/ UNCHANGED queue
          BY <4>1 DEF Process
        <4>3. committed' = [committed EXCEPT ![p] = committed[p] \cup {u}] \/ UNCHANGED committed
          BY <4>1 DEF Process
        <4>4. failing' = failing \cup {p} \/ UNCHANGED failing
          BY <4>1 DEF Process
        <4>5. queue[p] \ {u} \in SUBSET Uploads /\ committed[p] \cup {u} \in SUBSET Uploads
          BY <1>1
        <4>6. queue' \in [Pairs -> SUBSET Uploads]
          BY <1>1, <4>2, <4>5
        <4>7. committed' \in [Pairs -> SUBSET Uploads]
          BY <1>1, <4>3, <4>5
        <4> QED BY <1>1, <4>4, <4>6, <4>7
      <3> QED BY <1>2, <3>1, <3>2, <3>3, <3>4
    <2>5. sent' \in [Uploads -> {"new", "payload", "standby_sent", "accepted", "failed"}]
          /\ at' \in [Uploads -> Pairs]
      <3>1. CASE \E c \in Coordinators : Upload3(c, u)
        BY <1>1, <3>1 DEF Upload3
      <3>2. CASE SendToStandby(u) \/ SendToActive(u)
        BY <1>1, <3>2 DEF SendToStandby, SendToActive
      <3>3. CASE \E p \in Pairs : Process(p, u)
        BY <1>1, <3>3 DEF Process, uploadVars
      <3> QED BY <1>2, <3>1, <3>2, <3>3
    <2> QED BY <2>2, <2>3, <2>4, <2>5 DEF TypeOK, coordVars, Used
  <1>3. CASE StartEpoch
    BY <1>3 DEF StartEpoch, TypeOK, uploadVars, coordVars
  <1>4. ASSUME NEW p \in Pairs, PairStops(p) PROVE TypeOK'
    <2>1. used' \in Used
      BY <1>1, <1>4, BoundsAssumption DEF PairStops, Used
    <2> QED BY <1>4, <2>1 DEF PairStops, TypeOK, uploadVars, coordVars, Used
  <1>5. ASSUME NEW c \in Coordinators, TakeOver(c) PROVE TypeOK'
    <2>1. used' \in Used
      <3>1. /\ used \in Used /\ used.takeovers < MaxTakeovers
            /\ used' = [used EXCEPT !.takeovers = used.takeovers + 1]
        BY <1>1, <1>5 DEF TakeOver
      <3>2. used.takeovers + 1 \in 0 .. MaxTakeovers
        BY <3>1, BoundsAssumption DEF Used
      <3> QED BY <3>1, <3>2 DEF Used
    <2> QED BY <1>5, <2>1 DEF TakeOver, TypeOK, pairVars, uploadVars, Used
  <1>6. ASSUME NEW c \in Coordinators, CooldownEnds(c) PROVE TypeOK'
    <2>1. auto' \in [Coordinators -> State]
      BY <1>6 DEF CooldownEnds, TypeOK
    <2> QED BY <1>6, <2>1 DEF CooldownEnds, TypeOK, pairVars, uploadVars
  <1>7. ASSUME NEW c \in Coordinators,
               RunAutoPromotionCheck(c) \/ PromoteShardStandby(c) \/ AutoProposes(c)
        PROVE  TypeOK'
    <2>1. /\ UNCHANGED <<config, pairVars, uploadVars, holder, target, health, auto, promotions>>
          /\ Draws
          /\ thread' \in [Coordinators -> [Threads -> Handler]]
      BY <1>7, BeginProfile, AutoProposesProfile DEF Draws
    <2> QED BY <2>1, DrawsTyped DEF TypeOK, Handler, Used, pairVars, uploadVars
  <1>8. ASSUME NEW c \in Coordinators, Evaluates(c) PROVE TypeOK'
    <2>1. auto' \in [Coordinators -> State]
      BY <1>8, AutoEvaluatesTyped DEF Evaluates, AdminEvaluates, TypeOK
    <2>2. used' \in Used
      BY <1>8, EvaluationProfile, DrawsTyped DEF Draws
    <2> QED BY <1>8, <2>1, <2>2, EvaluationProfile DEF TypeOK, Handler, Used, pairVars, uploadVars
  <1>9. ASSUME NEW c \in Coordinators, NEW t \in Threads, ThreadSteps(c, t) PROVE TypeOK'
    <2>1. thread[c][t] \in Handler
      BY ThreadTyped
    <2>0. CASE Refreshes(c, t)
      <3>1. used' \in Used
        BY <2>0, RefreshesProfile, DrawsTyped DEF Draws
      <3> QED BY <2>0, <3>1, RefreshesProfile
              DEF Refreshes, TypeOK, Handler, Used, pairVars, uploadVars
    <2>2. CASE ReadsActive(c, t)
      <3>1. used' \in Used
        BY <2>2, DrawsTyped DEF ReadsActive, Draws
      <3> QED BY <2>2, <3>1, ReadsActiveProfile
              DEF ReadsActive, TypeOK, Handler, Used, pairVars, uploadVars
    <2>3. CASE ReadsStandby(c, t)
      <3>1. used' \in Used
        BY <2>3, ReadsStandbyProfile, DrawsTyped DEF Draws
      <3> QED BY <2>3, <3>1, ReadsStandbyProfile
              DEF ReadsStandby, TypeOK, Handler, Used, pairVars, uploadVars
    <2>4. CASE CommitsHealth(c, t)
      <3>1. health' \in [Coordinators -> Health]
        <4>1. health' = [health EXCEPT ![c] = thread[c][t].health] /\ thread[c][t].health \in Health
          BY <2>4, CommitsHealthProfile
        <4> QED BY <1>1, <4>1
      <3> QED BY <2>4, <3>1, CommitsHealthProfile DEF CommitsHealth, TypeOK, Handler, pairVars, uploadVars
    <2>5. CASE Dials(c, t)
      <3>1. thread' \in [Coordinators -> [Threads -> Handler]]
        BY <2>5, GotoProfile, EndsProfile DEF Dials
      <3>2. used' \in Used
        BY <2>5, DrawsTyped DEF Dials, Draws
      <3> QED BY <2>5, <3>1, <3>2 DEF Dials, TypeOK, Handler, Used, pairVars, uploadVars
    <2>6. CASE PutsConfig(c, t)
      <3>1. thread' \in [Coordinators -> [Threads -> Handler]]
        BY <2>6, GotoProfile, EndsProfile DEF PutsConfig
      <3>2. config' \in [version : Nat, active : Pairs]
        BY <2>1, <2>6 DEF PutsConfig, TypeOK, Handler
      <3>3. promotions' \subseteq [seen : SUBSET Uploads, must : SUBSET Uploads, have : SUBSET Uploads]
        BY <2>1, <2>6 DEF PutsConfig, TypeOK, Handler
      <3>4. used' \in Used
        <4>1. Draws
          BY <2>6 DEF PutsConfig, Draws
        <4> QED BY <4>1, DrawsTyped
      <3> QED BY <2>6, <3>1, <3>2, <3>3, <3>4
              DEF PutsConfig, TypeOK, Handler, Used, pairVars, uploadVars
    <2>7. CASE ReplacesClient(c, t)
      <3>1. thread' \in [Coordinators -> [Threads -> Handler]]
        BY <2>7, EndsProfile DEF ReplacesClient
      <3>2. target' \in [Coordinators -> Pairs] /\ health' \in [Coordinators -> Health]
        BY <2>1, <2>7, NoHealthTyped DEF ReplacesClient, TypeOK, Handler
      <3>3. auto' \in [Coordinators -> State]
        <4>1. /\ auto[c] \in State /\ 0 \in 0 .. FailureThreshold
              /\ UNCHANGED auto \/ auto' = [auto EXCEPT ![c].failures = 0, ![c].cooling = TRUE]
          BY <1>1, <2>7, ThresholdAssumption DEF ReplacesClient
        <4>2. [auto[c] EXCEPT !.failures = 0, !.cooling = TRUE] \in State
          BY <4>1
        <4>3. UNCHANGED auto
              \/ auto' = [auto EXCEPT ![c] = [auto[c] EXCEPT !.failures = 0, !.cooling = TRUE]]
          BY <1>1, <4>1
        <4> QED BY <1>1, <4>2, <4>3
      <3> QED BY <2>7, <3>1, <3>2, <3>3 DEF ReplacesClient, TypeOK, Handler, pairVars, uploadVars
    <2> QED BY <1>9, <2>0, <2>2, <2>3, <2>4, <2>5, <2>6, <2>7 DEF ThreadSteps
  <1>10. CASE UNCHANGED vars
    BY <1>10 DEF vars, pairVars, uploadVars, coordVars, TypeOK
  <1> QED BY <1>2, <1>3, <1>4, <1>5, <1>6, <1>7, <1>8, <1>9, <1>10 DEF Next, Evaluates

\* Every state of the promotion has the types its module declares.
THEOREM PromotionTypeCorrect == Spec => []TypeOK
  BY InitTyped, StepTypes, PTL DEF Spec

-----------------------------------------------------------------------------
(***************************************************************************)
(* The switch from A to B                                                  *)
(***************************************************************************)

LEMMA NumberedPromoted ==
  ASSUME NEW cfg \in [version : Nat, active : Pairs], Numbered(cfg)
  PROVE  Numbered(Promoted(cfg)) /\ Promoted(cfg).version > 1
  BY PromotedTyped DEF Numbered, Other, Pairs

\* Whatever configuration is read, old or not, it is a numbered one.
LEMMA ReadNumbered ==
  ASSUME TypeOK, SwitchInv, NEW cfg \in {config} \cup Former
  PROVE  Numbered(cfg)
  <1>1. CASE cfg = config
    BY <1>1 DEF SwitchInv
  <1>2. CASE cfg \in Former
    <2>1. PICK v \in 1 .. config.version - 1 :
            cfg = [version |-> v, active |-> IF v % 2 = 1 THEN A ELSE B]
      BY <1>2 DEF Former
    <2>2. v \in Nat /\ v # 0
      BY DEF TypeOK
    <2> QED BY <2>1, <2>2 DEF Numbered
  <1> QED BY <1>1, <1>2

\* A step of one thread that leaves the configuration and the clients alone.
LEMMA SwitchOne ==
  ASSUME SwitchInv, NEW c \in Coordinators, NEW t \in Threads, OthersStay(c, t),
         UNCHANGED <<config, replica, target, at>>,
         t = Admin /\ thread'[c][t].at # "idle" => Numbered(thread'[c][t].config),
         thread'[c][t].at \in Promoting =>
           Numbered(thread'[c][t].config) /\ thread'[c][t].config.version > 1,
         thread'[c][t].at = "replace" => thread'[c][t].config.version <= config.version
  PROVE  SwitchInv'
  BY DEF SwitchInv, OthersStay, At, Numbered

\* A step of no thread.
LEMMA SwitchNone ==
  ASSUME SwitchInv, UNCHANGED <<config, target, thread>>, replica'[A] = "active",
         config.version = 1 => \A u \in Uploads : at'[u] = A
  PROVE  SwitchInv'
  BY DEF SwitchInv, At, Numbered

LEMMA SwitchStep == TypeOK /\ SwitchInv /\ [Next]_vars => SwitchInv'
  <1> SUFFICES ASSUME TypeOK, SwitchInv, [Next]_vars PROVE SwitchInv'
    OBVIOUS
  <1>1. /\ config \in [version : Nat, active : Pairs]
        /\ \A c \in Coordinators, t \in Threads :
             thread[c][t].config \in [version : Nat, active : Pairs]
    BY ThreadTyped DEF TypeOK, Handler
  <1>2. /\ replica[A] = "active" /\ Numbered(config)
        /\ config.version = 1 =>
             (\A c \in Coordinators : target[c] = A) /\ (\A u \in Uploads : at[u] = A)
        /\ \A c \in Coordinators, t \in Threads :
             /\ t = Admin /\ thread[c][t].at # "idle" => Numbered(thread[c][t].config)
             /\ thread[c][t].at \in Promoting =>
                  Numbered(thread[c][t].config) /\ thread[c][t].config.version > 1
             /\ thread[c][t].at = "replace" => thread[c][t].config.version <= config.version
    BY DEF SwitchInv, At
  <1>3. ASSUME NEW u \in Uploads, NEW c \in Coordinators, Upload3(c, u) PROVE SwitchInv'
    <2>1. at \in [Uploads -> Pairs] /\ at' = [at EXCEPT ![u] = target[c]]
          /\ UNCHANGED <<config, replica, target, thread>>
      BY <1>3 DEF Upload3, pairVars, coordVars, TypeOK
    <2> QED BY <1>2, <2>1, SwitchNone
  <1>4. CASE StartEpoch
    <2>1. replica \in [Pairs -> {"active", "standby"}] /\ A \in Pairs
      BY DEF TypeOK, Pairs
    <2>2. replica'[A] = "active" /\ UNCHANGED <<config, target, thread, at>>
      BY <1>2, <1>4, <2>1 DEF StartEpoch, uploadVars, coordVars
    <2> QED BY <1>2, <2>2, SwitchNone
  <1>5. CASE UNCHANGED <<config, replica, target, thread, at>>
    BY <1>2, <1>5, SwitchNone
  <1>6. ASSUME NEW c \in Coordinators, RunAutoPromotionCheck(c) \/ PromoteShardStandby(c)
        PROVE  SwitchInv'
    <2>1. UNCHANGED <<config, replica, target, at>>
      BY <1>6, BeginProfile DEF pairVars, uploadVars
    <2>2. PICK t \in Threads :
            /\ OthersStay(c, t) /\ thread'[c][t].at = "refresh"
            /\ t = Admin => thread'[c][t].config \in {config} \cup Former
      BY <1>6, BeginProfile
    <2> QED BY <2>1, <2>2, ReadNumbered, SwitchOne DEF Promoting
  <1>7. ASSUME NEW c \in Coordinators, NEW t \in Threads,
               \/ Refreshes(c, t)
               \/ ReadsActive(c, t) \/ ReadsStandby(c, t) \/ CommitsHealth(c, t)
        PROVE  SwitchInv'
    <2>1. UNCHANGED <<config, replica, target, at>>
      BY <1>7 DEF Refreshes, ReadsActive, ReadsStandby, CommitsHealth, pairVars, uploadVars
    <2>2. t = Admin => thread[c][t].at # "idle"
      BY <1>7, ThreadsAssumption DEF Refreshes, ReadsActive, ReadsStandby, CommitsHealth, At
    <2>3. /\ OthersStay(c, t)
          /\ thread'[c][t].at \in {"idle", "active", "standby", "commit", "evaluate"}
          /\ thread'[c][t].at # "idle" => thread'[c][t].config = thread[c][t].config
      BY <1>7, RefreshesProfile, ReadsActiveProfile, ReadsStandbyProfile, CommitsHealthProfile,
         IdleTyped
    <2> QED BY <1>2, <2>1, <2>2, <2>3, SwitchOne DEF Promoting
  <1>8. ASSUME NEW c \in Coordinators, Evaluates(c) PROVE SwitchInv'
    <2>1. UNCHANGED <<config, replica, target, at>>
      BY <1>8, EvaluationProfile DEF pairVars, uploadVars
    <2>2. PICK t \in Threads :
            /\ OthersStay(c, t)
            /\ thread[c][t].at = "evaluate"
            /\ \/ thread'[c][t] = Idle
               \/ t # Admin /\ thread'[c][t].at = "propose"
               \/ /\ t = Admin /\ thread'[c][t].at = "dial"
                  /\ thread'[c][t].config = Promoted(thread[c][t].config)
      BY <1>8, EvaluationProfile
    <2>3. thread'[c][t].at = "dial" =>
            t = Admin /\ Numbered(thread'[c][t].config) /\ thread'[c][t].config.version > 1
      BY <1>1, <1>2, <2>2, NumberedPromoted, IdleTyped
    <2>4. /\ thread'[c][t].at \in {"idle", "propose", "dial"}
          /\ t = Admin => thread'[c][t].at # "propose"
      BY <2>2, IdleTyped
    <2> QED BY <2>1, <2>2, <2>3, <2>4, SwitchOne DEF Promoting
  <1>13. ASSUME NEW c \in Coordinators, AutoProposes(c) PROVE SwitchInv'
    <2>1. UNCHANGED <<config, replica, target, at>>
      BY <1>13, AutoProposesProfile DEF pairVars, uploadVars
    <2>2. PICK t \in Threads :
            /\ OthersStay(c, t)
            /\ \/ thread'[c][t] = Idle
               \/ /\ thread'[c][t].at = "dial"
                  /\ \E cfg \in {config} \cup Former : thread'[c][t].config = Promoted(cfg)
      BY <1>13, AutoProposesProfile
    <2>3. CASE thread'[c][t] = Idle
      BY <2>1, <2>2, <2>3, IdleTyped, SwitchOne DEF Promoting
    <2>4. ASSUME NEW cfg \in {config} \cup Former, thread'[c][t].at = "dial",
                 thread'[c][t].config = Promoted(cfg)
          PROVE  SwitchInv'
      <3>1. Numbered(thread'[c][t].config) /\ thread'[c][t].config.version > 1
        BY <2>4, ConfigTyped, ReadNumbered, NumberedPromoted
      <3> QED BY <2>1, <2>2, <2>4, <3>1, SwitchOne DEF Promoting
    <2> QED BY <2>2, <2>3, <2>4
  <1>9. ASSUME NEW c \in Coordinators, NEW t \in Threads, Dials(c, t) PROVE SwitchInv'
    <2>1. UNCHANGED <<config, replica, target, at>> /\ thread[c][t].at = "dial"
          /\ (Goto(c, t, "put") \/ Ends(c, t))
      BY <1>9 DEF Dials, pairVars, uploadVars, At
    <2>2. /\ OthersStay(c, t)
          /\ thread'[c][t].at \in {"idle", "put"}
          /\ thread'[c][t].at # "idle" => thread'[c][t].config = thread[c][t].config
      BY <2>1, GotoProfile, EndsProfile, IdleTyped
    <2> QED BY <1>2, <2>1, <2>2, SwitchOne DEF Promoting
  <1>10. ASSUME NEW c \in Coordinators, NEW t \in Threads, PutsConfig(c, t) PROVE SwitchInv'
    <2> DEFINE cfg == thread[c][t].config
    <2>1. UNCHANGED <<replica, target, at>> /\ thread[c][t].at = "put"
      BY <1>10 DEF PutsConfig, pairVars, uploadVars, At
    <2>2. CASE /\ cfg.version >= config.version /\ config' = cfg
               /\ Goto(c, t, "replace") \/ Ends(c, t)
      <3>1. /\ OthersStay(c, t)
            /\ \/ thread'[c][t].at = "replace" /\ thread'[c][t].config = cfg
               \/ thread'[c][t].at = "idle"
        BY <2>2, GotoProfile, EndsProfile, IdleTyped
      <3>2. cfg.version > 1 /\ Numbered(cfg)
        BY <1>2, <2>1 DEF Promoting
      <3>3. cfg \in [version : Nat, active : Pairs]
        BY <1>1
      <3>4. Numbered(config') /\ config'.version # 1
        BY <2>2, <3>2, <3>3
      <3>5. ASSUME NEW d \in Coordinators, NEW r \in Threads
            PROVE  /\ r = Admin /\ thread'[d][r].at # "idle" => Numbered(thread'[d][r].config)
                   /\ thread'[d][r].at \in Promoting =>
                        Numbered(thread'[d][r].config) /\ thread'[d][r].config.version > 1
                   /\ thread'[d][r].at = "replace" => thread'[d][r].config.version <= config'.version
        <4>1. CASE d = c /\ r = t
          BY <2>2, <3>1, <3>2, <3>3, <4>1 DEF Promoting
        <4>2. CASE d # c \/ r # t
          <5>1. thread'[d][r] = thread[d][r]
            BY <3>1, <4>2 DEF OthersStay
          <5>2. thread[d][r].config.version \in Nat /\ config.version \in Nat
            BY <1>1
          <5> QED BY <1>2, <2>2, <3>3, <5>1, <5>2
        <4> QED BY <4>1, <4>2
      <3> HIDE DEF cfg
      <3> QED BY <1>2, <2>1, <3>4, <3>5 DEF SwitchInv, At, Numbered
    <2>3. CASE UNCHANGED config /\ Ends(c, t)
      BY <2>1, <2>3, EndsProfile, IdleTyped, SwitchOne DEF Promoting
    <2> QED BY <1>10, <2>2, <2>3 DEF PutsConfig
  <1>11. ASSUME NEW c \in Coordinators, NEW t \in Threads, ReplacesClient(c, t) PROVE SwitchInv'
    <2>1. UNCHANGED <<config, replica, at>> /\ thread[c][t].at = "replace" /\ Ends(c, t)
      BY <1>11 DEF ReplacesClient, pairVars, uploadVars, At
    <2>2. config.version # 1
      BY <1>1, <1>2, <2>1 DEF Promoting
    <2>3. OthersStay(c, t) /\ thread'[c][t].at = "idle"
      BY <2>1, EndsProfile, IdleTyped
    <2>4. ASSUME NEW d \in Coordinators, NEW r \in Threads
          PROVE  /\ r = Admin /\ thread'[d][r].at # "idle" => Numbered(thread'[d][r].config)
                 /\ thread'[d][r].at \in Promoting =>
                      Numbered(thread'[d][r].config) /\ thread'[d][r].config.version > 1
                 /\ thread'[d][r].at = "replace" => thread'[d][r].config.version <= config.version
      BY <1>2, <2>3 DEF OthersStay, Promoting
    <2> QED BY <1>2, <2>1, <2>2, <2>4 DEF SwitchInv, At, Numbered
  <1>12. ASSUME \/ \E p \in Pairs : PairStops(p) \/ \E u \in Uploads : Process(p, u)
                \/ \E u \in Uploads : SendToStandby(u) \/ SendToActive(u)
                \/ \E c \in Coordinators : CooldownEnds(c) \/ TakeOver(c)
                \/ UNCHANGED vars
         PROVE  SwitchInv'
    <2>1. UNCHANGED <<config, replica, target, thread, at>>
      BY <1>12 DEF PairStops, Process, SendToStandby, SendToActive, CooldownEnds, TakeOver,
                   vars, pairVars, uploadVars, coordVars
    <2> QED BY <1>5, <2>1
  <1> QED BY <1>3, <1>4, <1>6, <1>7, <1>8, <1>9, <1>10, <1>11, <1>12, <1>13
          DEF Next, ThreadSteps, Evaluates

-----------------------------------------------------------------------------
(***************************************************************************)
(* The copies of the accepted uploads                                      *)
(***************************************************************************)

\* The uploads a pair has, in its queue or in its tables.
Has(p) == queue[p] \cup committed[p]

LEMMA CopyQuiet ==
  ASSUME CopyInv, UNCHANGED <<sent, at>>, \A p \in Pairs : Has(p) \subseteq Has(p)',
         at \in [Uploads -> Pairs]
  PROVE  CopyInv'
  BY DEF CopyInv, Has, Pairs

LEMMA CopyStep == TypeOK /\ CopyInv /\ [Next]_vars => CopyInv'
  <1> SUFFICES ASSUME TypeOK, CopyInv, [Next]_vars PROVE CopyInv'
    OBVIOUS
  <1>1. /\ queue \in [Pairs -> SUBSET Uploads] /\ committed \in [Pairs -> SUBSET Uploads]
        /\ sent \in [Uploads -> {"new", "payload", "standby_sent", "accepted", "failed"}]
        /\ at \in [Uploads -> Pairs]
        /\ A \in Pairs /\ B \in Pairs
    BY DEF TypeOK, Pairs
  <1>2. ASSUME NEW u \in Uploads, NEW c \in Coordinators, Upload3(c, u) PROVE CopyInv'
    <2>1. /\ sent' = [sent EXCEPT ![u] = "payload"] \/ sent' = [sent EXCEPT ![u] = "failed"]
          /\ at' = [at EXCEPT ![u] = target[c]]
          /\ UNCHANGED <<queue, committed>>
      BY <1>2 DEF Upload3, pairVars
    <2>2. sent'[u] \in {"payload", "failed"}
      BY <1>1, <2>1
    <2>3. \A v \in Uploads : v # u => sent'[v] = sent[v] /\ at'[v] = at[v]
      BY <1>1, <2>1
    <2> QED BY <2>1, <2>2, <2>3 DEF CopyInv
  <1>3. ASSUME NEW u \in Uploads, SendToStandby(u) PROVE CopyInv'
    <2>1. UNCHANGED <<at, committed>>
      BY <1>3 DEF SendToStandby
    <2>2. \A v \in Uploads : v # u => sent'[v] = sent[v]
      BY <1>1, <1>3 DEF SendToStandby
    <2>3. \A p \in Pairs : queue[p] \subseteq queue'[p]
      BY <1>1, <1>3 DEF SendToStandby
    <2>4. \/ sent'[u] = "failed"
          \/ sent'[u] = "standby_sent" /\ (at[u] = A => u \in queue'[B])
      BY <1>1, <1>3 DEF SendToStandby
    <2>5. ASSUME NEW v \in Uploads
          PROVE  /\ sent'[v] \in {"standby_sent", "accepted"} /\ at'[v] = A
                      => v \in queue'[B] \cup committed'[B]
                 /\ sent'[v] = "accepted" => v \in queue'[at'[v]] \cup committed'[at'[v]]
      BY <1>1, <2>1, <2>2, <2>3, <2>4 DEF CopyInv
    <2> QED BY <2>5 DEF CopyInv
  <1>4. ASSUME NEW u \in Uploads, SendToActive(u) PROVE CopyInv'
    <2>1. UNCHANGED <<at, committed>> /\ sent[u] = "standby_sent"
      BY <1>4 DEF SendToActive
    <2>2. \A v \in Uploads : v # u => sent'[v] = sent[v]
      BY <1>1, <1>4 DEF SendToActive
    <2>3. \A p \in Pairs : queue[p] \subseteq queue'[p]
      BY <1>1, <1>4 DEF SendToActive
    <2>4. sent'[u] = "failed" \/ u \in queue'[at[u]]
      BY <1>1, <1>4 DEF SendToActive
    <2>5. ASSUME NEW v \in Uploads
          PROVE  /\ sent'[v] \in {"standby_sent", "accepted"} /\ at'[v] = A
                      => v \in queue'[B] \cup committed'[B]
                 /\ sent'[v] = "accepted" => v \in queue'[at'[v]] \cup committed'[at'[v]]
      BY <1>1, <2>1, <2>2, <2>3, <2>4 DEF CopyInv
    <2> QED BY <2>5 DEF CopyInv
  <1>5. ASSUME NEW u \in Uploads, NEW p \in Pairs, Process(p, u) PROVE CopyInv'
    <2>1. UNCHANGED <<sent, at>>
      BY <1>5 DEF Process, uploadVars
    <2>2. \A q \in Pairs : Has(q) \subseteq Has(q)'
      BY <1>1, <1>5 DEF Process, Has
    <2> QED BY <1>1, <2>1, <2>2, CopyQuiet
  <1>6. CASE UNCHANGED <<sent, at, queue, committed>>
    BY <1>1, <1>6, CopyQuiet DEF Has
  <1>7. ASSUME NEW c \in Coordinators,
               \/ \E t \in Threads : ThreadSteps(c, t)
               \/ RunAutoPromotionCheck(c) \/ PromoteShardStandby(c)
               \/ Evaluates(c) \/ AutoProposes(c) \/ CooldownEnds(c) \/ TakeOver(c)
        PROVE  UNCHANGED <<sent, at, queue, committed>>
    BY <1>7 DEF ThreadSteps, Refreshes, ReadsActive, ReadsStandby, CommitsHealth, Dials,
                PutsConfig, ReplacesClient, RunAutoPromotionCheck, PromoteShardStandby, Evaluates,
                AdminEvaluates, AutoEvaluates, AutoProposes, CooldownEnds, TakeOver, pairVars,
                uploadVars
  <1>8. ASSUME StartEpoch \/ (\E p \in Pairs : PairStops(p)) \/ UNCHANGED vars
        PROVE  UNCHANGED <<sent, at, queue, committed>>
    BY <1>8 DEF StartEpoch, PairStops, vars, pairVars, uploadVars
  <1> QED BY <1>2, <1>3, <1>4, <1>5, <1>6, <1>7, <1>8 DEF Next, Evaluates

LEMMA InitInv == Init => SwitchInv /\ CopyInv /\ HealthInv /\ ProbeInv
  <1> SUFFICES ASSUME Init PROVE SwitchInv /\ CopyInv /\ HealthInv /\ ProbeInv
    OBVIOUS
  <1>1. /\ \A c \in Coordinators, t \in Threads : thread[c][t] = Idle
        /\ \A c \in Coordinators : health[c] = NoHealth
        /\ promotions = {}
    BY DEF Init
  <1>2. SwitchInv
    BY <1>1, IdleTyped DEF Init, SwitchInv, At, Numbered, Promoting, Pairs
  <1>3. CopyInv
    BY DEF Init, CopyInv
  <1>4. HealthInv
    BY <1>1, IdleTyped, NoHealthTyped DEF HealthInv, HealthFacts, Convinced
  <1>5. ProbeInv
    BY <1>1, IdleTyped DEF ProbeInv, ProbeFacts, Knows, Convinced
  <1> QED BY <1>2, <1>3, <1>4, <1>5

\* Whoever promoted the standby, an upload that was confirmed is with the
\* pair that the configuration names active: A holds what it accepted and
\* nothing runs at B before the switch, and what A accepts went to B first.
THEOREM AcceptedIsAtActive == Spec => []ActiveHasAccepted
  <1>1. TypeOK /\ SwitchInv /\ CopyInv => ActiveHasAccepted
    <2> SUFFICES ASSUME TypeOK, SwitchInv, CopyInv, SwitchedOnce,
                        NEW u \in Uploads, sent[u] = "accepted"
                 PROVE  u \in queue[config.active] \cup committed[config.active]
      BY DEF ActiveHasAccepted, Accepted
    <2>1. config.version \in Nat /\ Numbered(config)
      BY DEF TypeOK, SwitchInv
    <2>2. CASE config.version = 1
      BY <2>1, <2>2 DEF SwitchInv, CopyInv, Numbered
    <2>3. CASE config.version = 2
      <3>1. config.active = B /\ at[u] \in Pairs
        BY <2>1, <2>3 DEF Numbered, TypeOK
      <3> QED BY <3>1 DEF CopyInv, Pairs
    <2> QED BY <2>1, <2>2, <2>3 DEF SwitchedOnce, Numbered
  <1> QED BY <1>1, InitInv, PromotionTypeCorrect, SwitchStep, CopyStep, PTL DEF Spec

-----------------------------------------------------------------------------
(***************************************************************************)
(* The probes a promotion rests on                                         *)
(***************************************************************************)

LEMMA AcceptedAtB ==
  ASSUME TypeOK, CopyInv
  PROVE  Accepted \subseteq queue[B] \cup committed[B]
  BY DEF TypeOK, CopyInv, Accepted, Pairs

\* A status of a standby without queued uploads is of B, with all that is
\* accepted committed.
LEMMA FitStatus ==
  ASSUME TypeOK, SwitchInv, CopyInv, NEW p \in Pairs, NEW drained \in BOOLEAN,
         Stats(p, drained), ExactReads',
         StatusOf(p, drained).standby, StatusOf(p, drained).drained
  PROVE  p = B /\ Accepted \subseteq committed[B]
  <1>1. ~Misread
    BY DrawsTyped DEF Draws, ExactReads
  <1>2. replica[p] = "standby" /\ queue[p] = {}
    BY <1>1 DEF StatusOf, Stats
  <1>3. p = B
    BY <1>2 DEF SwitchInv, Pairs
  <1> QED BY <1>2, <1>3, AcceptedAtB

\* A wrong reading is never undone.
LEMMA ExactKept ==
  ASSUME TypeOK, [Next]_vars, ExactReads'
  PROVE  ExactReads
  <1>1. used \in Used
    BY DEF TypeOK, Used
  <1>2. CASE Draws
    BY <1>2, DrawsTyped DEF ExactReads
  <1>3. CASE (\E p \in Pairs : PairStops(p)) \/ \E c \in Coordinators : TakeOver(c)
    <2>1. \/ used' = [used EXCEPT !.crashes = @ + 1]
          \/ used' = [used EXCEPT !.takeovers = @ + 1]
      BY <1>3 DEF PairStops, TakeOver
    <2>2. used'.misreads = used.misreads
      BY <1>1, <2>1 DEF Used
    <2> QED BY <2>2 DEF ExactReads
  <1>4. ASSUME NEW u \in Uploads,
               \/ \E c \in Coordinators : Upload3(c, u)
               \/ SendToStandby(u) \/ SendToActive(u)
               \/ \E p \in Pairs : Process(p, u)
        PROVE  Draws
    BY <1>4 DEF Upload3, SendToStandby, SendToActive, Process, Draws
  <1>5. ASSUME NEW c \in Coordinators, NEW t \in Threads, ThreadSteps(c, t) PROVE Draws
    <2>1. CASE Refreshes(c, t) \/ ReadsStandby(c, t)
      BY <2>1, RefreshesProfile, ReadsStandbyProfile DEF Draws
    <2>2. CASE \/ ReadsActive(c, t) \/ CommitsHealth(c, t) \/ Dials(c, t)
               \/ PutsConfig(c, t) \/ ReplacesClient(c, t)
      BY <2>2 DEF ReadsActive, CommitsHealth, Dials, PutsConfig, ReplacesClient, Draws, NoFault
    <2> QED BY <1>5, <2>1, <2>2 DEF ThreadSteps
  <1>6. ASSUME NEW c \in Coordinators,
               \/ RunAutoPromotionCheck(c) \/ PromoteShardStandby(c)
               \/ Evaluates(c) \/ AutoProposes(c) \/ CooldownEnds(c)
        PROVE  Draws
    <2>1. CASE CooldownEnds(c)
      BY <2>1 DEF CooldownEnds, Draws, NoFault
    <2> QED BY <1>6, <2>1, BeginProfile, EvaluationProfile, AutoProposesProfile DEF Draws
  <1>7. CASE StartEpoch \/ UNCHANGED vars
    <2>1. Draws
      BY <1>7 DEF StartEpoch, vars, Draws, NoFault
    <2> QED BY <1>2, <2>1
  <1> QED BY <1>2, <1>3, <1>4, <1>5, <1>6, <1>7 DEF Next, Evaluates

LEMMA HealthQuiet ==
  ASSUME HealthFacts, UNCHANGED <<config, thread, health, promotions>>,
         committed[B] \subseteq committed'[B]
  PROVE  HealthFacts'
  BY DEF HealthFacts, Fit, SwitchedOnce

LEMMA HealthOne ==
  ASSUME HealthFacts, NEW c \in Coordinators, NEW t \in Threads, OthersStay(c, t),
         UNCHANGED <<config, committed, health, promotions>>,
         Fit(thread'[c][t].health) => thread'[c][t].health.seen \subseteq committed[B],
         thread'[c][t].at \in Convinced => thread'[c][t].seen \subseteq committed[B]
  PROVE  HealthFacts'
  BY DEF HealthFacts, OthersStay, Fit, SwitchedOnce

LEMMA HealthStep == TypeOK /\ SwitchInv /\ CopyInv /\ HealthInv /\ [Next]_vars => HealthInv'
  <1> SUFFICES ASSUME TypeOK, SwitchInv, CopyInv, HealthFacts, [Next]_vars, ExactReads'
               PROVE  HealthFacts'
    BY ExactKept DEF HealthInv
  <1>1. /\ \A c \in Coordinators : Fit(health[c]) => health[c].seen \subseteq committed[B]
        /\ \A c \in Coordinators, t \in Threads :
             /\ Fit(thread[c][t].health) => thread[c][t].health.seen \subseteq committed[B]
             /\ thread[c][t].at \in Convinced => thread[c][t].seen \subseteq committed[B]
    BY DEF HealthFacts
  <1>2. ASSUME NEW u \in Uploads, NEW p \in Pairs, Process(p, u) PROVE HealthFacts'
    <2>1. UNCHANGED <<config, thread, health, promotions>>
      BY <1>2 DEF Process, coordVars
    <2>2. /\ committed \in [Pairs -> SUBSET Uploads] /\ B \in Pairs
          /\ committed' = [committed EXCEPT ![p] = committed[p] \cup {u}] \/ UNCHANGED committed
      BY <1>2 DEF Process, TypeOK, Pairs
    <2>3. committed[B] \subseteq committed'[B]
      BY <2>2
    <2> QED BY <2>1, <2>3, HealthQuiet
  <1>3. ASSUME NEW c \in Coordinators, RunAutoPromotionCheck(c) \/ PromoteShardStandby(c)
        PROVE  HealthFacts'
    <2>1. UNCHANGED <<config, committed, health, promotions>>
      BY <1>3, BeginProfile DEF pairVars
    <2>2. PICK t \in Threads :
            OthersStay(c, t) /\ thread'[c][t].at = "refresh" /\ thread'[c][t].health = NoHealth
      BY <1>3, BeginProfile
    <2> QED BY <2>1, <2>2, NoHealthTyped, HealthOne DEF Convinced
  <1>12. ASSUME NEW c \in Coordinators, NEW t \in Threads, Refreshes(c, t) PROVE HealthFacts'
    <2>1. UNCHANGED <<config, committed, health, promotions>>
      BY <1>12 DEF Refreshes, pairVars
    <2> QED BY <1>1, <1>12, <2>1, RefreshesProfile, HealthOne DEF Convinced
  <1>4. ASSUME NEW c \in Coordinators, NEW t \in Threads, ReadsActive(c, t) PROVE HealthFacts'
    <2>1. UNCHANGED <<config, committed, health, promotions>>
      BY <1>4 DEF ReadsActive, pairVars
    <2>2. Fit(thread'[c][t].health) = Fit(thread[c][t].health)
      BY <1>4, ReadsActiveProfile DEF Fit
    <2> QED BY <1>1, <1>4, <2>1, <2>2, ReadsActiveProfile, HealthOne DEF Convinced
  <1>5. ASSUME NEW c \in Coordinators, NEW t \in Threads, ReadsStandby(c, t) PROVE HealthFacts'
    <2> DEFINE p == thread[c][t].ask
    <2>1. UNCHANGED <<config, committed, health, promotions>>
      BY <1>5 DEF ReadsStandby, pairVars
    <2>2. p \in Pairs
      BY ThreadTyped DEF Handler
    <2>3. /\ OthersStay(c, t) /\ thread'[c][t].at = "commit"
          /\ \/ \E drained \in BOOLEAN :
                  /\ Stats(p, drained)
                  /\ thread'[c][t].health.standby = StatusOf(p, drained)
                  /\ thread'[c][t].health.seen = Accepted
             \/ thread'[c][t].health = thread[c][t].health
      BY <1>5, ReadsStandbyProfile
    <2> HIDE DEF p
    <2>4. Fit(thread'[c][t].health) => thread'[c][t].health.seen \subseteq committed[B]
      <3>1. CASE thread'[c][t].health = thread[c][t].health
        BY <1>1, <3>1
      <3>2. ASSUME NEW drained \in BOOLEAN, Stats(p, drained),
                   thread'[c][t].health.standby = StatusOf(p, drained),
                   thread'[c][t].health.seen = Accepted
            PROVE  Fit(thread'[c][t].health) => thread'[c][t].health.seen \subseteq committed[B]
        BY <2>2, <3>2, FitStatus DEF Fit
      <3> QED BY <2>3, <3>1, <3>2
    <2> QED BY <2>1, <2>3, <2>4, HealthOne DEF Convinced
  <1>6. ASSUME NEW c \in Coordinators, NEW t \in Threads, CommitsHealth(c, t) PROVE HealthFacts'
    <2>1. UNCHANGED <<config, committed, promotions>>
      BY <1>6 DEF CommitsHealth, pairVars
    <2>2. /\ OthersStay(c, t) /\ thread'[c][t].at \in {"idle", "evaluate"}
          /\ ~Fit(thread'[c][t].health)
          /\ health' = [health EXCEPT ![c] = thread[c][t].health]
      BY <1>6, CommitsHealthProfile, IdleTyped, NoHealthTyped
    <2>3. health \in [Coordinators -> Health]
      BY DEF TypeOK
    <2>4. ASSUME NEW d \in Coordinators PROVE Fit(health'[d]) => health'[d].seen \subseteq committed[B]
      BY <1>1, <2>2, <2>3
    <2>5. ASSUME NEW d \in Coordinators, NEW r \in Threads
          PROVE  /\ Fit(thread'[d][r].health) => thread'[d][r].health.seen \subseteq committed[B]
                 /\ thread'[d][r].at \in Convinced => thread'[d][r].seen \subseteq committed[B]
      BY <1>1, <2>2 DEF OthersStay, Convinced
    <2> QED BY <2>1, <2>4, <2>5 DEF HealthFacts, SwitchedOnce, Fit
  <1>7. ASSUME NEW c \in Coordinators, Evaluates(c) PROVE HealthFacts'
    <2>1. UNCHANGED <<config, committed, health, promotions>>
      BY <1>7, EvaluationProfile DEF pairVars
    <2>2. PICK t \in Threads :
            /\ OthersStay(c, t)
            /\ \/ thread'[c][t] = Idle
               \/ /\ Fit(health[c])
                  /\ thread'[c][t].health = thread[c][t].health
                  /\ thread'[c][t].seen = health[c].seen
      BY <1>7, EvaluationProfile
    <2> QED BY <1>1, <2>1, <2>2, IdleTyped, HealthOne DEF Convinced
  <1>13. ASSUME NEW c \in Coordinators, AutoProposes(c) PROVE HealthFacts'
    <2>1. UNCHANGED <<config, committed, health, promotions>>
      BY <1>13, AutoProposesProfile DEF pairVars
    <2>2. PICK t \in Threads :
            /\ OthersStay(c, t)
            /\ thread[c][t].at = "propose"
            /\ \/ thread'[c][t] = Idle
               \/ /\ thread'[c][t].health = thread[c][t].health
                  /\ thread'[c][t].seen = thread[c][t].seen
      BY <1>13, AutoProposesProfile
    <2> QED BY <1>1, <2>1, <2>2, IdleTyped, HealthOne DEF Convinced
  <1>8. ASSUME NEW c \in Coordinators, NEW t \in Threads, Dials(c, t) PROVE HealthFacts'
    <2>1. UNCHANGED <<config, committed, health, promotions>> /\ thread[c][t].at = "dial"
          /\ (Goto(c, t, "put") \/ Ends(c, t))
      BY <1>8 DEF Dials, pairVars, At
    <2> QED BY <1>1, <2>1, GotoProfile, EndsProfile, IdleTyped, HealthOne DEF Convinced
  <1>9. ASSUME NEW c \in Coordinators, NEW t \in Threads, PutsConfig(c, t) PROVE HealthFacts'
    <2> DEFINE cfg == thread[c][t].config
               p == [seen |-> thread[c][t].seen, must |-> thread[c][t].must,
                     have |-> committed[cfg.active]]
    <2>1. UNCHANGED <<committed, health>> /\ thread[c][t].at = "put"
      BY <1>9 DEF PutsConfig, pairVars, At
    <2>2. CASE UNCHANGED <<config, promotions>> /\ Ends(c, t)
      BY <2>1, <2>2, EndsProfile, IdleTyped, HealthOne DEF Convinced
    <2>3. CASE /\ cfg.version >= config.version /\ config' = cfg
               /\ promotions' = promotions \cup {p}
               /\ Goto(c, t, "replace") \/ Ends(c, t)
      <3>1. /\ OthersStay(c, t) /\ thread'[c][t].at \in {"replace", "idle"}
            /\ thread'[c][t].health = thread[c][t].health \/ ~Fit(thread'[c][t].health)
        BY <2>3, GotoProfile, EndsProfile, IdleTyped
      <3>2. ASSUME NEW d \in Coordinators, NEW r \in Threads
            PROVE  /\ Fit(thread'[d][r].health) => thread'[d][r].health.seen \subseteq committed[B]
                   /\ thread'[d][r].at \in Convinced => thread'[d][r].seen \subseteq committed[B]
        BY <1>1, <3>1 DEF OthersStay, Convinced
      <3>3. ASSUME SwitchedOnce' PROVE \A q \in promotions' : q.seen \subseteq q.have
        <4>1. cfg.version \in Nat /\ config.version \in Nat
          BY ThreadTyped DEF Handler, TypeOK
        <4>2. cfg.version > 1 /\ Numbered(cfg)
          BY <2>1 DEF SwitchInv, Promoting, At
        <4>3. cfg.active = B /\ SwitchedOnce
          BY <2>3, <3>3, <4>1, <4>2 DEF SwitchedOnce, Numbered
        <4>4. p.seen \subseteq p.have
          BY <1>1, <2>1, <4>3 DEF Convinced
        <4> HIDE DEF p, cfg
        <4> QED BY <2>3, <4>3, <4>4 DEF HealthFacts
      <3> HIDE DEF cfg, p
      <3> QED BY <1>1, <2>1, <3>2, <3>3 DEF HealthFacts, Fit
    <2> QED BY <1>9, <2>2, <2>3 DEF PutsConfig
  <1>10. ASSUME NEW c \in Coordinators, NEW t \in Threads, ReplacesClient(c, t) PROVE HealthFacts'
    <2>1. /\ UNCHANGED <<config, committed, promotions>> /\ Ends(c, t)
          /\ health' = [health EXCEPT ![c] = NoHealth]
      BY <1>10 DEF ReplacesClient, pairVars
    <2>2. OthersStay(c, t) /\ thread'[c][t] = Idle
      BY <2>1, EndsProfile
    <2>3. health \in [Coordinators -> Health]
      BY DEF TypeOK
    <2>4. ASSUME NEW d \in Coordinators PROVE Fit(health'[d]) => health'[d].seen \subseteq committed[B]
      BY <1>1, <2>1, <2>3, NoHealthTyped
    <2>5. ASSUME NEW d \in Coordinators, NEW r \in Threads
          PROVE  /\ Fit(thread'[d][r].health) => thread'[d][r].health.seen \subseteq committed[B]
                 /\ thread'[d][r].at \in Convinced => thread'[d][r].seen \subseteq committed[B]
      BY <1>1, <2>2, IdleTyped DEF OthersStay, Convinced
    <2> QED BY <2>1, <2>4, <2>5 DEF HealthFacts, SwitchedOnce, Fit
  <1>11. ASSUME \/ StartEpoch \/ \E p \in Pairs : PairStops(p)
                \/ \E u \in Uploads : SendToStandby(u) \/ SendToActive(u)
                \/ \E c \in Coordinators, u \in Uploads : Upload3(c, u)
                \/ \E c \in Coordinators : CooldownEnds(c) \/ TakeOver(c)
                \/ UNCHANGED vars
         PROVE  HealthFacts'
    <2>1. UNCHANGED <<config, committed, thread, health, promotions>>
      BY <1>11 DEF StartEpoch, PairStops, SendToStandby, SendToActive, Upload3, CooldownEnds,
                   TakeOver, vars, pairVars, coordVars
    <2> QED BY <2>1, HealthQuiet
  <1> QED BY <1>2, <1>3, <1>4, <1>5, <1>6, <1>7, <1>8, <1>9, <1>10, <1>11, <1>12, <1>13
          DEF Next, ThreadSteps, Evaluates

\* A promoted pair has committed every upload that was confirmed when the
\* status that made it promotable was read, however old that status is, as
\* long as no length of a queue was read wrong: old configurations, failing
\* writes and lost answers do no harm.
THEOREM PromotedHadCommitted == Spec => []PromotedWasDrained
  <1>1. HealthInv => PromotedWasDrained
    BY DEF HealthInv, HealthFacts, PromotedWasDrained
  <1> QED BY <1>1, InitInv, PromotionTypeCorrect, SwitchStep, CopyStep, HealthStep, PTL DEF Spec

\* What is accepted stays accepted.
LEMMA AcceptedGrows ==
  ASSUME TypeOK, [Next]_vars
  PROVE  Accepted \subseteq Accepted'
  <1>1. sent \in [Uploads -> {"new", "payload", "standby_sent", "accepted", "failed"}]
    BY DEF TypeOK
  <1>2. ASSUME NEW u \in Uploads,
               \/ \E c \in Coordinators : Upload3(c, u)
               \/ SendToStandby(u) \/ SendToActive(u)
        PROVE  sent[u] # "accepted" /\ \A v \in Uploads : v # u => sent'[v] = sent[v]
    BY <1>1, <1>2 DEF Upload3, SendToStandby, SendToActive
  <1>3. ASSUME NEW c \in Coordinators,
               \/ \E t \in Threads : ThreadSteps(c, t)
               \/ RunAutoPromotionCheck(c) \/ PromoteShardStandby(c)
               \/ Evaluates(c) \/ AutoProposes(c) \/ CooldownEnds(c) \/ TakeOver(c)
        PROVE  UNCHANGED sent
    BY <1>3 DEF ThreadSteps, Refreshes, ReadsActive, ReadsStandby, CommitsHealth, Dials,
                PutsConfig, ReplacesClient, RunAutoPromotionCheck, PromoteShardStandby, Evaluates,
                AdminEvaluates, AutoEvaluates, AutoProposes, CooldownEnds, TakeOver, uploadVars
  <1>4. ASSUME \/ StartEpoch
               \/ \E p \in Pairs : PairStops(p) \/ \E u \in Uploads : Process(p, u)
               \/ UNCHANGED vars
        PROVE  UNCHANGED sent
    BY <1>4 DEF StartEpoch, PairStops, Process, vars, uploadVars
  <1>5. \A v \in Uploads : sent[v] = "accepted" => sent'[v] = "accepted"
    BY <1>2, <1>3, <1>4 DEF Next, Evaluates
  <1> QED BY <1>5 DEF Accepted

\* A step of a thread, which is the only one of its coordinator.
LEMMA ProbeOne ==
  ASSUME Alone, ProbeFacts, Accepted \subseteq Accepted',
         NEW c \in Coordinators, NEW t \in Threads, OthersStay(c, t),
         UNCHANGED <<config, promotions>>,
         \A d \in Coordinators : d # c => health'[d] = health[d],
         Knows(c, t)'
  PROVE  ProbeFacts'
  <1>1. ASSUME NEW d \in Coordinators, NEW r \in Threads PROVE Knows(d, r)'
    <2>1. CASE d = c
      BY <2>1 DEF Alone
    <2>2. CASE d # c
      <3>1. Knows(d, r) /\ thread'[d][r] = thread[d][r] /\ health'[d] = health[d]
        BY <2>2 DEF OthersStay, ProbeFacts
      <3> QED BY <3>1 DEF Knows
    <2> QED BY <2>1, <2>2
  <1>2. SwitchedOnce' => \A p \in promotions' : p.must \subseteq p.have
    BY DEF SwitchedOnce, ProbeFacts
  <1> QED BY <1>1, <1>2 DEF ProbeFacts

LEMMA ProbeQuiet ==
  ASSUME Alone, ProbeFacts, Accepted \subseteq Accepted',
         UNCHANGED <<config, thread, health, promotions>>
  PROVE  ProbeFacts'
  <1>1. ASSUME NEW d \in Coordinators, NEW r \in Threads PROVE Knows(d, r)'
    <2>1. Knows(d, r)
      BY DEF ProbeFacts
    <2> QED BY <2>1 DEF Knows
  <1>2. SwitchedOnce' => \A p \in promotions' : p.must \subseteq p.have
    BY DEF SwitchedOnce, ProbeFacts
  <1> QED BY <1>1, <1>2 DEF ProbeFacts

LEMMA ProbeStep == TypeOK /\ SwitchInv /\ HealthInv /\ ProbeInv /\ [Next]_vars => ProbeInv'
  <1> SUFFICES ASSUME TypeOK, SwitchInv, HealthFacts, ProbeFacts, [Next]_vars, Alone
               PROVE  ProbeFacts'
    BY ExactKept DEF HealthInv, ProbeInv, Alone
  <1>1. Accepted \subseteq Accepted'
    BY AcceptedGrows
  <1>2. \A c \in Coordinators, t \in Threads : Knows(c, t)
    BY DEF ProbeFacts
  <1>3. ASSUME NEW c \in Coordinators, RunAutoPromotionCheck(c) \/ PromoteShardStandby(c)
        PROVE  ProbeFacts'
    <2>1. UNCHANGED <<config, health, promotions>>
      BY <1>3, BeginProfile
    <2>2. PICK t \in Threads :
            /\ OthersStay(c, t)
            /\ thread'[c][t].at = "refresh" /\ thread'[c][t].health = NoHealth
            /\ thread'[c][t].must \subseteq Accepted
      BY <1>3, BeginProfile
    <2>3. Knows(c, t)'
      BY <1>1, <2>2, NoHealthTyped DEF Knows, Convinced
    <2> QED BY <1>1, <2>1, <2>2, <2>3, ProbeOne
  <1>12. ASSUME NEW c \in Coordinators, NEW t \in Threads, Refreshes(c, t) PROVE ProbeFacts'
    <2>1. UNCHANGED <<config, health, promotions>> /\ thread[c][t].at \in {"idle", "refresh"}
      BY <1>12, RefreshesProfile DEF Refreshes
    <2>2. Knows(c, t)'
      BY <1>1, <1>2, <1>12, <2>1, RefreshesProfile DEF Knows, Convinced
    <2> QED BY <1>1, <1>12, <2>1, <2>2, RefreshesProfile, ProbeOne
  <1>4. ASSUME NEW c \in Coordinators, NEW t \in Threads, ReadsActive(c, t) PROVE ProbeFacts'
    <2>1. UNCHANGED <<config, health, promotions>> /\ thread[c][t].at = "active"
      BY <1>4 DEF ReadsActive, At
    <2>2. ~Fit(thread'[c][t].health)
      BY <1>2, <1>4, <2>1, ReadsActiveProfile DEF Knows, Fit
    <2>3. Knows(c, t)'
      BY <1>1, <1>2, <1>4, <2>2, ReadsActiveProfile DEF Knows, Convinced
    <2> QED BY <1>1, <1>4, <2>1, <2>3, ReadsActiveProfile, ProbeOne
  <1>5. ASSUME NEW c \in Coordinators, NEW t \in Threads, ReadsStandby(c, t) PROVE ProbeFacts'
    <2>1. UNCHANGED <<config, health, promotions>>
      BY <1>5 DEF ReadsStandby
    <2>2. Fit(thread'[c][t].health) => thread'[c][t].health.seen = Accepted
      BY <1>2, <1>5, ReadsStandbyProfile DEF Knows
    <2>3. Knows(c, t)'
      BY <1>1, <1>2, <1>5, <2>2, ReadsStandbyProfile DEF Knows, Convinced
    <2> QED BY <1>1, <1>5, <2>1, <2>3, ReadsStandbyProfile, ProbeOne
  <1>6. ASSUME NEW c \in Coordinators, NEW t \in Threads, CommitsHealth(c, t) PROVE ProbeFacts'
    <2>1. UNCHANGED <<config, promotions>>
      BY <1>6 DEF CommitsHealth
    <2>2. health \in [Coordinators -> Health]
      BY DEF TypeOK
    <2>3. health'[c] = thread[c][t].health /\ \A d \in Coordinators : d # c => health'[d] = health[d]
      BY <1>6, <2>2, CommitsHealthProfile
    <2>4. Knows(c, t)'
      <3>1. CASE thread'[c][t] = Idle
        BY <3>1, IdleTyped DEF Knows, Convinced
      <3>2. CASE thread'[c][t] # Idle
        BY <1>1, <1>2, <1>6, <2>3, <3>2, CommitsHealthProfile DEF Knows, Convinced
      <3> QED BY <3>1, <3>2
    <2> QED BY <1>1, <1>6, <2>1, <2>3, <2>4, CommitsHealthProfile, ProbeOne
  <1>7. ASSUME NEW c \in Coordinators, Evaluates(c) PROVE ProbeFacts'
    <2>1. UNCHANGED <<config, health, promotions>>
      BY <1>7, EvaluationProfile
    <2>2. PICK t \in Threads :
            /\ OthersStay(c, t)
            /\ thread[c][t].at = "evaluate"
            /\ \/ thread'[c][t] = Idle
               \/ /\ Fit(health[c])
                  /\ thread'[c][t].at \in {"propose", "dial"}
                  /\ thread'[c][t].seen = health[c].seen
                  /\ thread'[c][t].must = thread[c][t].must
      BY <1>7, EvaluationProfile
    <2>3. Knows(c, t)'
      <3>1. CASE thread'[c][t] = Idle
        BY <3>1, IdleTyped DEF Knows, Convinced
      <3>2. CASE thread'[c][t] # Idle
        BY <1>1, <1>2, <2>2, <3>2 DEF Knows, Convinced
      <3> QED BY <3>1, <3>2
    <2> QED BY <1>1, <2>1, <2>2, <2>3, ProbeOne
  <1>13. ASSUME NEW c \in Coordinators, AutoProposes(c) PROVE ProbeFacts'
    <2>1. UNCHANGED <<config, health, promotions>>
      BY <1>13, AutoProposesProfile
    <2>2. PICK t \in Threads :
            /\ OthersStay(c, t)
            /\ thread[c][t].at = "propose"
            /\ \/ thread'[c][t] = Idle
               \/ /\ thread'[c][t].at = "dial"
                  /\ thread'[c][t].seen = thread[c][t].seen
                  /\ thread'[c][t].must = thread[c][t].must
      BY <1>13, AutoProposesProfile
    <2>3. Knows(c, t)'
      <3>1. CASE thread'[c][t] = Idle
        BY <3>1, IdleTyped DEF Knows, Convinced
      <3>2. CASE thread'[c][t] # Idle
        BY <1>1, <1>2, <2>2, <3>2 DEF Knows, Convinced
      <3> QED BY <3>1, <3>2
    <2> QED BY <1>1, <2>1, <2>2, <2>3, ProbeOne
  <1>8. ASSUME NEW c \in Coordinators, NEW t \in Threads, Dials(c, t) PROVE ProbeFacts'
    <2>1. UNCHANGED <<config, health, promotions>> /\ thread[c][t].at = "dial"
          /\ (Goto(c, t, "put") \/ Ends(c, t))
      BY <1>8 DEF Dials, At
    <2>2. CASE Ends(c, t)
      <3>1. Knows(c, t)'
        BY <2>2, EndsProfile, IdleTyped DEF Knows, Convinced
      <3> QED BY <1>1, <2>1, <2>2, <3>1, EndsProfile, ProbeOne
    <2>3. CASE Goto(c, t, "put")
      <3>1. Knows(c, t)'
        BY <1>1, <1>2, <2>1, <2>3, GotoProfile DEF Knows, Convinced
      <3> QED BY <1>1, <2>1, <2>3, <3>1, GotoProfile, ProbeOne
    <2> QED BY <2>1, <2>2, <2>3
  <1>9. ASSUME NEW c \in Coordinators, NEW t \in Threads, PutsConfig(c, t) PROVE ProbeFacts'
    <2> DEFINE cfg == thread[c][t].config
               p == [seen |-> thread[c][t].seen, must |-> thread[c][t].must,
                     have |-> committed[cfg.active]]
    <2>1. UNCHANGED <<committed, health>> /\ thread[c][t].at = "put"
      BY <1>9 DEF PutsConfig, pairVars, At
    <2>2. CASE UNCHANGED <<config, promotions>> /\ Ends(c, t)
      <3>1. Knows(c, t)'
        BY <2>2, EndsProfile, IdleTyped DEF Knows, Convinced
      <3> QED BY <1>1, <2>1, <2>2, <3>1, EndsProfile, ProbeOne
    <2>3. CASE /\ cfg.version >= config.version /\ config' = cfg
               /\ promotions' = promotions \cup {p}
               /\ Goto(c, t, "replace") \/ Ends(c, t)
      <3>1. /\ OthersStay(c, t)
            /\ \/ thread'[c][t].at = "replace" /\ thread'[c][t].must = thread[c][t].must
               \/ thread'[c][t] = Idle
        BY <2>3, GotoProfile, EndsProfile
      <3>2. ASSUME NEW d \in Coordinators, NEW r \in Threads PROVE Knows(d, r)'
        <4>1. CASE d = c
          <5>1. r = t
            BY DEF Alone
          <5> QED BY <1>1, <1>2, <3>1, <4>1, <5>1, IdleTyped DEF Knows, Convinced
        <4>2. CASE d # c
          <5>1. Knows(d, r) /\ thread'[d][r] = thread[d][r] /\ health'[d] = health[d]
            BY <1>2, <2>1, <3>1, <4>2 DEF OthersStay
          <5> QED BY <1>1, <5>1 DEF Knows
        <4> QED BY <4>1, <4>2
      <3>3. ASSUME SwitchedOnce' PROVE \A q \in promotions' : q.must \subseteq q.have
        <4>1. cfg.version \in Nat /\ config.version \in Nat
          BY ThreadTyped DEF Handler, TypeOK
        <4>2. cfg.version > 1 /\ Numbered(cfg)
          BY <2>1 DEF SwitchInv, Promoting, At
        <4>3. cfg.active = B /\ SwitchedOnce
          BY <2>3, <3>3, <4>1, <4>2 DEF SwitchedOnce, Numbered
        <4>4. thread[c][t].must \subseteq thread[c][t].seen
          BY <1>2, <2>1 DEF Knows, Convinced
        <4>5. thread[c][t].seen \subseteq committed[B]
          BY <2>1 DEF HealthFacts, Convinced
        <4>6. p.must \subseteq p.have
          BY <4>3, <4>4, <4>5
        <4>7. \A q \in promotions : q.must \subseteq q.have
          BY <4>3 DEF ProbeFacts
        <4> HIDE DEF p, cfg
        <4> QED BY <2>3, <4>6, <4>7
      <3> QED BY <3>2, <3>3 DEF ProbeFacts
    <2> QED BY <1>9, <2>2, <2>3 DEF PutsConfig
  <1>10. ASSUME NEW c \in Coordinators, NEW t \in Threads, ReplacesClient(c, t) PROVE ProbeFacts'
    <2>1. UNCHANGED <<config, promotions>> /\ Ends(c, t)
          /\ health' = [health EXCEPT ![c] = NoHealth]
      BY <1>10 DEF ReplacesClient
    <2>2. health \in [Coordinators -> Health]
      BY DEF TypeOK
    <2>3. \A d \in Coordinators : d # c => health'[d] = health[d]
      BY <2>1, <2>2
    <2>4. Knows(c, t)'
      BY <2>1, EndsProfile, IdleTyped DEF Knows, Convinced
    <2> QED BY <1>1, <2>1, <2>3, <2>4, EndsProfile, ProbeOne
  <1>11. ASSUME \/ StartEpoch \/ \E p \in Pairs : PairStops(p) \/ \E u \in Uploads : Process(p, u)
                \/ \E u \in Uploads : SendToStandby(u) \/ SendToActive(u)
                \/ \E c \in Coordinators, u \in Uploads : Upload3(c, u)
                \/ \E c \in Coordinators : CooldownEnds(c) \/ TakeOver(c)
                \/ UNCHANGED vars
         PROVE  ProbeFacts'
    <2>1. UNCHANGED <<config, thread, health, promotions>>
      BY <1>11 DEF StartEpoch, PairStops, Process, SendToStandby, SendToActive, Upload3,
                   CooldownEnds, TakeOver, vars, coordVars
    <2> QED BY <1>1, <2>1, ProbeQuiet
  <1> QED BY <1>3, <1>4, <1>5, <1>6, <1>7, <1>8, <1>9, <1>10, <1>11, <1>12, <1>13
          DEF Next, ThreadSteps, Evaluates

\* A promoted pair has committed every upload that was confirmed before the
\* check that promoted it began, when the check is the only thread of its
\* coordinator that probes, so that the status it evaluates is its own, and
\* no length of a queue was read wrong.
THEOREM PromotedHadCaughtUp == Spec => []PromotedIsCaughtUp
  <1>1. ProbeInv => PromotedIsCaughtUp
    BY DEF ProbeInv, ProbeFacts, Alone, PromotedIsCaughtUp
  <1> QED BY <1>1, InitInv, PromotionTypeCorrect, SwitchStep, CopyStep, HealthStep, ProbeStep, PTL
          DEF Spec

-----------------------------------------------------------------------------
(***************************************************************************)
(* The client of the holder                                                *)
(***************************************************************************)

\* Only one thread of a coordinator promotes.
OnePromoter == ~({AutoCheck, Admin} \subseteq Threads)

\* A step of one thread that neither writes a configuration nor replaces a
\* client, of a coordinator that may do that.
LEMMA HolderOne ==
  ASSUME HolderInv, NEW c \in Coordinators, NEW t \in Threads, OthersStay(c, t),
         UNCHANGED <<config, holder, target>>, used'.takeovers = used.takeovers,
         used'.lost = 0 => used.lost = 0,
         thread[c][t].at # "replace", thread'[c][t].at # "replace",
         thread'[c][t].at \in Deciding => t # Monitor,
         used.takeovers = 0 /\ c # FirstHolder /\ t # Monitor => thread'[c][t].at = "idle"
  PROVE  HolderInv'
  <1>1. \A d \in Coordinators, r \in Threads :
          /\ thread'[d][r].at \in Deciding => r # Monitor
          /\ used.takeovers = 0 /\ d # FirstHolder /\ r # Monitor => thread'[d][r].at = "idle"
    BY DEF HolderInv, OthersStay, At
  <1>2. \A d \in Coordinators, r \in Threads :
          /\ thread'[d][r].at = "replace" <=> thread[d][r].at = "replace"
          /\ thread'[d][r].at = "replace" => thread'[d][r] = thread[d][r]
    BY DEF OthersStay
  <1> QED BY <1>1, <1>2, FirstHolderAssumption DEF HolderInv, At

\* A step of no thread.
LEMMA HolderNone ==
  ASSUME HolderInv, UNCHANGED <<config, holder, target, thread>>,
         used'.takeovers = used.takeovers, used'.lost = 0 => used.lost = 0
  PROVE  HolderInv'
  BY DEF HolderInv, At

LEMMA HolderStep == TypeOK /\ SwitchInv /\ HolderInv /\ [Next]_vars => HolderInv'
  <1> SUFFICES ASSUME TypeOK, SwitchInv, HolderInv, [Next]_vars PROVE HolderInv'
    OBVIOUS
  <1>1. /\ \A c \in Coordinators, t \in Threads :
             thread[c][t].at \in Deciding => t # Monitor
        /\ used.takeovers = 0 =>
             /\ holder = FirstHolder
             /\ \A c \in Coordinators, t \in Threads :
                  c # FirstHolder /\ t # Monitor => thread[c][t].at = "idle"
    BY DEF HolderInv, At
  <1>2. ASSUME NEW c \in Coordinators, RunAutoPromotionCheck(c) \/ PromoteShardStandby(c)
        PROVE  HolderInv'
    <2>1. UNCHANGED <<config, holder, target>> /\ Draws /\ holder = c
      BY <1>2, BeginProfile DEF Draws
    <2>2. PICK t \in Threads :
            /\ OthersStay(c, t)
            /\ thread[c][t].at = "idle" /\ thread'[c][t].at = "refresh"
      BY <1>2, BeginProfile
    <2> QED BY <1>1, <2>1, <2>2, DrawsTyped, HolderOne DEF Deciding, Promoting
  <1>3. ASSUME NEW c \in Coordinators, NEW t \in Threads,
               \/ Refreshes(c, t)
               \/ ReadsActive(c, t) \/ ReadsStandby(c, t) \/ CommitsHealth(c, t)
        PROVE  HolderInv'
    <2>1. UNCHANGED <<config, holder, target>>
      BY <1>3 DEF Refreshes, ReadsActive, ReadsStandby, CommitsHealth
    <2>2. Draws
      <3>1. CASE Refreshes(c, t) \/ ReadsStandby(c, t)
        BY <3>1, RefreshesProfile, ReadsStandbyProfile DEF Draws
      <3>2. CASE ReadsActive(c, t) \/ CommitsHealth(c, t)
        BY <3>2 DEF ReadsActive, CommitsHealth, Draws, NoFault
      <3> QED BY <1>3, <3>1, <3>2
    <2>3. /\ thread[c][t].at \in {"idle", "refresh", "active", "standby", "commit"}
          /\ t # Monitor => thread[c][t].at # "idle"
      BY <1>3 DEF Refreshes, ReadsActive, ReadsStandby, CommitsHealth, At
    <2>4. /\ OthersStay(c, t)
          /\ thread'[c][t].at \in {"idle", "active", "standby", "commit", "evaluate"}
          /\ thread'[c][t].at = "evaluate" => t # Monitor
      BY <1>3, RefreshesProfile, ReadsActiveProfile, ReadsStandbyProfile, CommitsHealthProfile,
         IdleTyped
    <2> QED BY <1>1, <2>1, <2>2, <2>3, <2>4, DrawsTyped, HolderOne DEF Deciding, Promoting
  <1>4. ASSUME NEW c \in Coordinators, Evaluates(c) \/ AutoProposes(c) PROVE HolderInv'
    <2>1. UNCHANGED <<config, holder, target>> /\ Draws
      BY <1>4, EvaluationProfile, AutoProposesProfile DEF Draws
    <2>2. PICK t \in Threads :
            /\ t # Monitor /\ OthersStay(c, t)
            /\ thread[c][t].at \in {"evaluate", "propose"}
            /\ thread'[c][t] = Idle \/ thread'[c][t].at \in {"propose", "dial"}
      <3>1. CASE Evaluates(c)
        BY <3>1, EvaluationProfile
      <3>2. CASE AutoProposes(c)
        BY <3>2, AutoProposesProfile
      <3> QED BY <1>4, <3>1, <3>2
    <2>3. thread'[c][t].at \in {"idle", "propose", "dial"}
      BY <2>2, IdleTyped
    <2> QED BY <1>1, <2>1, <2>2, <2>3, DrawsTyped, HolderOne
  <1>5. ASSUME NEW c \in Coordinators, NEW t \in Threads, Dials(c, t) PROVE HolderInv'
    <2>1. /\ UNCHANGED <<config, holder, target>> /\ thread[c][t].at = "dial" /\ Draws
          /\ (Goto(c, t, "put") \/ Ends(c, t))
      BY <1>5 DEF Dials, At, Draws
    <2>2. OthersStay(c, t) /\ thread'[c][t].at \in {"idle", "put"}
      BY <2>1, GotoProfile, EndsProfile, IdleTyped
    <2>3. t # Monitor
      BY <1>1, <2>1 DEF Deciding, Promoting
    <2> QED BY <1>1, <2>1, <2>2, <2>3, DrawsTyped, HolderOne
  <1>6. ASSUME NEW c \in Coordinators, NEW t \in Threads, PutsConfig(c, t) PROVE HolderInv'
    <2> DEFINE cfg == thread[c][t].config
    <2>1. UNCHANGED <<holder, target>> /\ thread[c][t].at = "put" /\ Draws
      BY <1>6 DEF PutsConfig, At, Draws
    <2>2. t # Monitor
      BY <1>1, <2>1 DEF Deciding, Promoting
    <2>3. CASE UNCHANGED config /\ Ends(c, t)
      <3>1. OthersStay(c, t) /\ thread'[c][t].at = "idle"
        BY <2>1, <2>3, EndsProfile, IdleTyped
      <3> QED BY <2>1, <2>2, <2>3, <3>1, DrawsTyped, HolderOne
    <2>4. CASE config' = cfg /\ Goto(c, t, "replace")
      <3>1. OthersStay(c, t) /\ thread'[c][t].at = "replace" /\ thread'[c][t].config = cfg
        BY <2>4, GotoProfile
      <3>2. \A d \in Coordinators, r \in Threads :
              thread'[d][r].at \in Deciding => r # Monitor
        BY <1>1, <2>2, <3>1 DEF OthersStay
      <3>3. ASSUME used.takeovers = 0
            PROVE  /\ c = FirstHolder
                   /\ \A d \in Coordinators, r \in Threads :
                        d # FirstHolder /\ r # Monitor => thread'[d][r].at = "idle"
        BY <1>1, <2>1, <2>2, <3>1, <3>3 DEF OthersStay
      <3>4. ASSUME OnePromoter, NEW r \in Threads, used.takeovers = 0,
                   thread'[FirstHolder][r].at = "replace"
            PROVE  r = t
        <4>1. r # Monitor
          BY <3>2, <3>4, FirstHolderAssumption DEF Deciding, Promoting
        <4> QED BY <2>2, <3>4, <4>1, ThreadsAssumption DEF OnePromoter
      <3>5. used.takeovers = 0 /\ OnePromoter =>
              \A r \in Threads : thread'[FirstHolder][r].at = "replace" =>
                thread'[FirstHolder][r].config = config'
        BY <2>4, <3>1, <3>3, <3>4
      <3>6. used.takeovers = 0 => \E r \in Threads : thread'[FirstHolder][r].at = "replace"
        BY <3>1, <3>3
      <3>7. used'.takeovers = used.takeovers
        BY <2>1, DrawsTyped
      <3> HIDE DEF cfg
      <3> QED BY <1>1, <2>1, <3>2, <3>3, <3>5, <3>6, <3>7 DEF HolderInv, At, OnePromoter
    <2>5. CASE Ends(c, t) /\ LostAnswer
      <3>1. OthersStay(c, t) /\ thread'[c][t].at = "idle"
        BY <2>5, EndsProfile, IdleTyped
      <3>2. used'.lost # 0 /\ used'.takeovers = used.takeovers
        BY <2>1, <2>5, DrawsTyped
      <3>3. \A d \in Coordinators, r \in Threads :
              /\ thread'[d][r].at \in Deciding => r # Monitor
              /\ used.takeovers = 0 /\ d # FirstHolder /\ r # Monitor => thread'[d][r].at = "idle"
        BY <1>1, <2>2, <3>1 DEF OthersStay
      <3> QED BY <1>1, <2>1, <3>2, <3>3 DEF HolderInv, At
    <2> QED BY <1>6, <2>3, <2>4, <2>5 DEF PutsConfig
  <1>7. ASSUME NEW c \in Coordinators, NEW t \in Threads, ReplacesClient(c, t) PROVE HolderInv'
    <2> DEFINE cfg == thread[c][t].config
    <2>1. /\ UNCHANGED <<config, holder, used>> /\ thread[c][t].at = "replace" /\ Ends(c, t)
          /\ target' = [target EXCEPT ![c] = cfg.active] /\ target \in [Coordinators -> Pairs]
      BY <1>7 DEF ReplacesClient, At, TypeOK
    <2>2. t # Monitor
      BY <1>1, <2>1 DEF Deciding, Promoting
    <2>3. OthersStay(c, t) /\ thread'[c][t].at = "idle"
      BY <2>1, EndsProfile, IdleTyped
    <2>4. \A d \in Coordinators, r \in Threads :
            thread'[d][r].at \in Deciding => r # Monitor
      BY <1>1, <2>3 DEF OthersStay, Deciding, Promoting
    <2>5. ASSUME used.takeovers = 0
          PROVE  /\ target'[FirstHolder] = cfg.active
                 /\ \A d \in Coordinators, r \in Threads :
                      d # FirstHolder /\ r # Monitor => thread'[d][r].at = "idle"
      BY <1>1, <2>1, <2>2, <2>3, <2>5 DEF OthersStay
    <2>6. config.version = 2 => cfg.active = B
      <3>1. cfg.version \in Nat /\ config.version \in Nat
        BY ThreadTyped DEF Handler, TypeOK
      <3>2. Numbered(cfg) /\ cfg.version > 1 /\ cfg.version <= config.version
        BY <2>1 DEF SwitchInv, At, Promoting
      <3> QED BY <3>1, <3>2 DEF Numbered
    <2>7. used.takeovers = 0 /\ used.lost = 0 /\ OnePromoter => cfg = config
      BY <1>1, <2>1, <2>2 DEF HolderInv, At, OnePromoter
    <2>8. used.takeovers = 0 /\ used.lost = 0 /\ OnePromoter =>
            \A r \in Threads : thread'[FirstHolder][r].at = "replace" =>
              thread'[FirstHolder][r].config = config
      BY <2>3, FirstHolderAssumption DEF OthersStay, HolderInv, At, OnePromoter
    <2> HIDE DEF cfg
    <2> QED BY <1>1, <2>1, <2>4, <2>5, <2>6, <2>7, <2>8 DEF HolderInv, At, OnePromoter
  <1>8. ASSUME NEW c \in Coordinators, TakeOver(c) PROVE HolderInv'
    <2>1. used'.takeovers # 0
      BY <1>8, BoundsAssumption DEF TakeOver, TypeOK
    <2>2. UNCHANGED thread
      BY <1>8 DEF TakeOver
    <2> QED BY <2>1, <2>2 DEF HolderInv
  <1>9. ASSUME \/ \E p \in Pairs, u \in Uploads : Process(p, u)
               \/ \E u \in Uploads : SendToStandby(u) \/ SendToActive(u)
               \/ \E c \in Coordinators, u \in Uploads : Upload3(c, u)
        PROVE  HolderInv'
    <2>1. UNCHANGED <<config, holder, target, thread>> /\ Draws
      BY <1>9 DEF Process, SendToStandby, SendToActive, Upload3, coordVars, Draws
    <2> QED BY <2>1, DrawsTyped, HolderNone
  <1>10. ASSUME \/ StartEpoch \/ \E p \in Pairs : PairStops(p)
                \/ \E c \in Coordinators : CooldownEnds(c)
                \/ UNCHANGED vars
         PROVE  HolderInv'
    <2>1. UNCHANGED <<config, holder, target, thread>>
      BY <1>10 DEF StartEpoch, PairStops, CooldownEnds, vars, coordVars
    <2>2. UNCHANGED used \/ used' = [used EXCEPT !.crashes = used.crashes + 1]
      BY <1>10 DEF StartEpoch, PairStops, CooldownEnds, vars
    <2>3. used'.takeovers = used.takeovers /\ used'.lost = used.lost
      BY <2>2 DEF TypeOK
    <2> QED BY <2>1, <2>3, HolderNone
  <1> QED BY <1>2, <1>3, <1>4, <1>5, <1>6, <1>7, <1>8, <1>9, <1>10 DEF Next, ThreadSteps, Evaluates

\* The coordinator in charge talks to the pair the configuration names
\* active, unless it is about to, as long as the lease stays where it is and
\* no write took effect that the store reported as failed: whatever old
\* configurations it read, and whichever other calls failed.
THEOREM HolderTalksToActive == Spec => []HolderUsesActive
  <1>1. Init => HolderInv
    <2> SUFFICES ASSUME Init PROVE HolderInv
      OBVIOUS
    <2>1. \A c \in Coordinators, t \in Threads : thread[c][t].at = "idle"
      BY IdleTyped DEF Init
    <2> QED BY <2>1, FirstHolderAssumption DEF HolderInv, Init, At, Deciding, Promoting
  <1>2. TypeOK /\ SwitchInv /\ HolderInv => HolderUsesActive
    <2> SUFFICES ASSUME TypeOK, SwitchInv, HolderInv, used.takeovers = 0, used.lost = 0,
                        SwitchedOnce \/ OnePromoter,
                        \A t \in Threads : ~At(FirstHolder, t, "replace")
                 PROVE  target[FirstHolder] = config.active
      BY DEF HolderUsesActive, HolderInv, OnePromoter
    <2>1. config.version \in Nat /\ Numbered(config)
      BY DEF TypeOK, SwitchInv
    <2>2. CASE OnePromoter
      BY <2>2 DEF HolderInv, OnePromoter
    <2>3. CASE config.version = 1
      BY <2>1, <2>3, FirstHolderAssumption DEF SwitchInv, Numbered
    <2>4. CASE config.version = 2
      BY <2>1, <2>4 DEF HolderInv, Numbered
    <2> QED BY <2>1, <2>2, <2>3, <2>4 DEF SwitchedOnce, Numbered
  <1> QED BY <1>1, <1>2, InitInv, PromotionTypeCorrect, SwitchStep, HolderStep, PTL DEF Spec
=============================================================================

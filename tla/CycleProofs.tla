----------------------------- MODULE CycleProofs -----------------------------
(***************************************************************************)
(* Theorems about EpochCycle, for any number of coordinators, handlers,    *)
(* shards, epochs, faults, misreads, take-overs and crashes.               *)
(***************************************************************************)
EXTENDS EpochCycle, FiniteSetTheorems, TLAPS

USE ThreadsAssumption, BoundsAssumption, MaxShardsAssumption, SeedAssumption,
    MaxEpochAssumption, MaxVersionAssumption

-----------------------------------------------------------------------------
(***************************************************************************)
(* The places of the handlers, and what a handler carries at them          *)
(***************************************************************************)

Ended == {"idle", "ok", "err"}

\* StartEpoch before it has chosen the epoch, and after.
Deciding == {"start_cycle", "start_decide"}
Fanning == {"start_shards", "start_snapshot", "start_store", "start_from", "start_active",
            "start_commit", "abort"}
StartPlaces == Deciding \cup {"start_config"} \cup Fanning

\* The timer before it knows the epoch, then with it, then with the load.
Closing == {"done_lease", "done_commit"}
Reporting == {"done_store", "done_version", "done_scaling", "done_ready", "done_failed"}
DonePlaces == {"done_decide"} \cup Closing \cup Reporting

SkipPlaces == {"skip_cycle", "skip_epoch", "skip_begin", "skip_end"}

\* An apply that evaluates, that carries a proposal, and that reports.
Evaluating == {"apply_epoch", "apply_latest"}
Applying == {"apply_cycle", "apply_begin", "apply_connect", "apply_put"}
ApplyPlaces == {"apply_config"} \cup Evaluating \cup Applying \cup {"apply_end", "apply_failed"}

PromotePlaces == {"promote_config", "promote_put"}

Handler == [at : Places, id : EpochIDs, cfg : ConfigRecord \cup {NoConfig},
            rec : Recommendation, from : CycleStates, started : SUBSET Shards, dry : BOOLEAN]

\* What handler h of thread t carries, place by place.
HandlerOK(t, h) ==
  /\ h \in Handler
  /\ h.at \in StartPlaces => t \in StartRpcs
  /\ h.at \in DonePlaces => t = Timer
  /\ h.at \in SkipPlaces => t \in SkipRpcs \cup {Timer}
  /\ h.at \in ApplyPlaces => t \in ApplyRpcs \cup AutoRpcs
  /\ h.at \in PromotePlaces => t \in PromoteRpcs
  /\ h.at \in {"ok", "err"} => t \in AutoRpcs
  /\ h.at \in Deciding \cup {"start_config"} => h.started = {}
  /\ h.at \in {"start_config"} \cup Fanning \cup Closing \cup Reporting => h.id >= 1
  /\ h.at \in Fanning \cup Evaluating \cup Applying \cup {"promote_put"} =>
       h.cfg \in ConfigRecord
  /\ h.at \in Reporting \cup {"apply_cycle", "apply_begin", "apply_connect", "apply_put"} =>
       h.rec.epoch >= 1 /\ h.rec.count >= 1 /\ h.rec.target >= 1

HandlersOK == \A c \in Coordinators, t \in Threads : HandlerOK(t, call[c][t])

\* A recommendation in the store and the epoch of a coordinator are complete;
\* the autoscaler waits for a handler of its own.
RecordsOK ==
  /\ latest.epoch >= 1 => latest.count >= 1 /\ latest.target >= 1
  /\ \A r \in former.latest : r.epoch >= 1 => r.count >= 1 /\ r.target >= 1
  /\ \A c \in Coordinators : local[c].state = "Active" => local[c].id >= 1 /\ local[c].count >= 1
  /\ auto.at \in {"dry_wait", "apply_wait"} => auto.rpc \in AutoRpcs

CycleTypeInv == TypeOK /\ HandlersOK /\ RecordsOK

-----------------------------------------------------------------------------
(***************************************************************************)
(* Moves of one handler                                                    *)
(***************************************************************************)

\* One handler changes, the others are left alone.
Becomes(c, t, h) ==
  /\ call' \in [Coordinators -> [Threads -> Handler]]
  /\ call'[c][t] = h
  /\ \A d \in Coordinators, u \in Threads : d # c \/ u # t => call'[d][u] = call[d][u]

\* The handler is over, and has at most an answer left.
Returned(c, t) ==
  \E h \in Handler :
    /\ Becomes(c, t, h)
    /\ h.at \in Ended
    /\ h.at # "idle" => t \in AutoRpcs

\* The handlers are what the type invariant says.
LEMMA HandlerTyped ==
  ASSUME CycleTypeInv, NEW c \in Coordinators, NEW t \in Threads
  PROVE  /\ call[c][t] \in Handler
         /\ call \in [Coordinators -> [Threads -> Handler]]
  BY DEF CycleTypeInv, TypeOK, Handler

\* An idle handler carries nothing.
LEMMA IdleOK ==
  ASSUME NEW t \in Threads
  PROVE  Idle \in Handler /\ HandlerOK(t, Idle)
  <1>1. Idle \in Handler
    BY DEF Idle, Handler, Places, EpochIDs, Recommendation, NoRecommendation, CycleStates
  <1>2. Idle.at = "idle"
    BY DEF Idle
  <1> QED BY <1>1, <1>2 DEF HandlerOK, StartPlaces, Deciding, Fanning, DonePlaces, Closing,
          Reporting, SkipPlaces, ApplyPlaces, Evaluating, Applying, PromotePlaces

\* One handler of call is replaced.
LEMMA ReplacedBecomes ==
  ASSUME CycleTypeInv, NEW c \in Coordinators, NEW t \in Threads, NEW h \in Handler,
         call' = [call EXCEPT ![c][t] = h]
  PROVE  Becomes(c, t, h)
  <1>1. call \in [Coordinators -> [Threads -> Handler]]
    BY HandlerTyped
  <1>2. call' = [call EXCEPT ![c] = [call[c] EXCEPT ![t] = h]]
    OBVIOUS
  <1>3. [call[c] EXCEPT ![t] = h] \in [Threads -> Handler]
    BY <1>1
  <1> QED BY <1>1, <1>2, <1>3 DEF Becomes

\* Goto changes only the place.
LEMMA GotoBecomes ==
  ASSUME CycleTypeInv, NEW c \in Coordinators, NEW t \in Threads, NEW place \in Places,
         Goto(c, t, place)
  PROVE  Becomes(c, t, [call[c][t] EXCEPT !.at = place])
  <1> DEFINE h == [call[c][t] EXCEPT !.at = place]
  <1>1. h \in Handler
    BY HandlerTyped DEF Handler
  <1>2. call' = [call EXCEPT ![c][t] = h]
    BY DEF Goto
  <1> HIDE DEF h
  <1>3. Becomes(c, t, h)
    BY <1>1, <1>2, ReplacedBecomes
  <1> QED BY <1>3 DEF h

\* Return ends the handler.
LEMMA ReturnReturned ==
  ASSUME CycleTypeInv, NEW c \in Coordinators, NEW t \in Threads, NEW answer \in {"ok", "err"},
         Return(c, t, answer)
  PROVE  Returned(c, t)
  <1> DEFINE h == IF Awaited(c, t) THEN [Idle EXCEPT !.at = answer] ELSE Idle
  <1>1. h \in Handler
    BY IdleOK DEF Handler, Places
  <1>2. h.at \in Ended /\ (h.at # "idle" => t \in AutoRpcs)
    BY DEF Idle, Ended, Awaited
  <1>3. call' = [call EXCEPT ![c][t] = h]
    BY DEF Return
  <1> HIDE DEF h
  <1>4. Becomes(c, t, h)
    BY <1>1, <1>3, ReplacedBecomes
  <1> QED BY <1>1, <1>2, <1>4 DEF Returned

\* A handler that is over is as it should be.
LEMMA ReturnedOK ==
  ASSUME NEW c \in Coordinators, NEW t \in Threads, Returned(c, t)
  PROVE  HandlerOK(t, call'[c][t]) /\ call'[c][t].at \in Ended
  <1>1. PICK h \in Handler : /\ Becomes(c, t, h)
                             /\ h.at \in Ended
                             /\ h.at # "idle" => t \in AutoRpcs
    BY DEF Returned
  <1>2. HandlerOK(t, h)
    BY <1>1 DEF HandlerOK, StartPlaces, Deciding, Fanning, DonePlaces, Closing,
       Reporting, SkipPlaces, ApplyPlaces, Evaluating, Applying, PromotePlaces, Ended
  <1> QED BY <1>1, <1>2 DEF Becomes

\* A step counts its mishap, if it has one.
TimedOut == Unspent /\ used' = [used EXCEPT !.timeouts = @ + 1]

Counted == Fault \/ NoFault \/ Misread \/ TimedOut

\* The counts of faults and misreads stay within their bound.
LEMMA FaultTyped ==
  ASSUME CycleTypeInv, Counted
  PROVE  /\ used' \in Used
         /\ used'.takeovers = used.takeovers
         /\ used'.crashes = used.crashes
         /\ used'.faults >= used.faults
         /\ used'.misreads >= used.misreads
  <1>1. used \in Used
    BY DEF CycleTypeInv, TypeOK
  <1>2. CASE Fault
    BY <1>1, <1>2 DEF Fault, Unspent, Used
  <1>3. CASE NoFault
    BY <1>1, <1>3 DEF NoFault, Used
  <1>4. CASE Misread
    BY <1>1, <1>4 DEF Misread, Unspent, Used
  <1>5. CASE TimedOut
    BY <1>1, <1>5 DEF TimedOut, Unspent, Used
  <1> QED BY <1>2, <1>3, <1>4, <1>5 DEF Counted

\* A read counts its mishap.
LEMMA SeesCounted ==
  ASSUME NEW seen, NEW item, Sees(seen, item)
  PROVE  Counted
  BY DEF Sees, Counted

\* What a step adds to the former values of the store.
Remembers ==
  \/ former' = former
  \/ former' = [former EXCEPT !.epoch = @ \cup {epoch}]
  \/ former' = [former EXCEPT !.config = @ \cup {config}]
  \/ former' = [former EXCEPT !.latest = @ \cup {latest}]
  \/ former' = [former EXCEPT !.cycle = @ \cup {cycle}]

FormerOK ==
  /\ former \in [epoch : SUBSET EpochRecord, config : SUBSET ConfigRecord,
                 latest : SUBSET Recommendation, cycle : SUBSET CycleStates]
  /\ \A r \in former.latest : r.epoch >= 1 => r.count >= 1 /\ r.target >= 1

\* Former values are values of the store.
LEMMA RemembersOK ==
  ASSUME CycleTypeInv, Remembers
  PROVE  FormerOK' /\ former'.latest \subseteq former.latest \cup {latest}
  <1>1. /\ former \in [epoch : SUBSET EpochRecord, config : SUBSET ConfigRecord,
                       latest : SUBSET Recommendation, cycle : SUBSET CycleStates]
        /\ epoch \in EpochRecord /\ config \in ConfigRecord
        /\ latest \in Recommendation /\ cycle \in CycleStates
    BY DEF CycleTypeInv, TypeOK, StoreTypeOK
  <1>2. /\ latest.epoch >= 1 => latest.count >= 1 /\ latest.target >= 1
        /\ \A r \in former.latest : r.epoch >= 1 => r.count >= 1 /\ r.target >= 1
    BY DEF CycleTypeInv, RecordsOK
  <1>3. /\ former' \in [epoch : SUBSET EpochRecord, config : SUBSET ConfigRecord,
                        latest : SUBSET Recommendation, cycle : SUBSET CycleStates]
        /\ former'.latest \in {former.latest, former.latest \cup {latest}}
    BY <1>1 DEF Remembers
  <1> QED BY <1>2, <1>3 DEF FormerOK

\* The steps of a handler that change nothing but its place.
Follows(from, to) ==
  \/ from = "start_cycle" /\ to = "start_decide"
  \/ from = "start_shards" /\ to \in {"start_snapshot", "abort"}
  \/ from = "start_snapshot" /\ to \in {"start_store", "abort"}
  \/ from = "start_store" /\ to \in {"start_from", "abort"}
  \/ from = "start_active" /\ to \in {"start_commit", "abort"}
  \/ from = "done_lease" /\ to = "done_commit"
  \/ from = "done_store" /\ to = "done_version"
  \/ from = "done_scaling" /\ to \in {"done_ready", "done_failed"}
  \/ from \in {"done_ready", "skip_epoch"} /\ to = "skip_begin"
  \/ from = "skip_begin" /\ to = "skip_end"
  \/ from = "skip_cycle" /\ to = "skip_epoch"
  \/ from = "apply_epoch" /\ to = "apply_latest"
  \/ from = "apply_cycle" /\ to \in {"apply_begin", "apply_connect"}
  \/ from = "apply_begin" /\ to = "apply_connect"
  \/ from = "apply_connect" /\ to \in {"apply_put", "apply_failed"}
  \/ from = "apply_put" /\ to \in {"apply_end", "apply_failed"}

\* A handler changes, and is what it should be.
Moved(c, t) ==
  /\ Becomes(c, t, call'[c][t])
  /\ HandlerOK(t, call'[c][t])

\* A step that only changes the place of a handler keeps what it carries.
LEMMA GotoMoved ==
  ASSUME CycleTypeInv, NEW c \in Coordinators, NEW t \in Threads, NEW place,
         Follows(call[c][t].at, place), Goto(c, t, place)
  PROVE  Moved(c, t) /\ call'[c][t] = [call[c][t] EXCEPT !.at = place]
  <1> DEFINE g == call[c][t]
             h == [g EXCEPT !.at = place]
  <1>1. g \in Handler /\ HandlerOK(t, g)
    BY HandlerTyped DEF CycleTypeInv, HandlersOK
  <1>2. place \in Places
    BY DEF Follows, Places
  <1>3. /\ h \in Handler /\ h.at = place /\ h.id = g.id /\ h.cfg = g.cfg
        /\ h.rec = g.rec /\ h.started = g.started
    BY <1>1, <1>2 DEF Handler
  <1>4. Becomes(c, t, h)
    BY <1>2, GotoBecomes
  <1>5. Follows(g.at, place)
    OBVIOUS
  <1> HIDE DEF g, h
  <1>6. HandlerOK(t, h)
    BY <1>1, <1>3, <1>5 DEF HandlerOK, Follows, StartPlaces, Deciding, Fanning, DonePlaces,
       Closing, Reporting, SkipPlaces, ApplyPlaces, Evaluating, Applying, PromotePlaces
  <1> QED BY <1>4, <1>6 DEF Moved, Becomes, g, h

\* The fields of a handler that changed its place.
LEMMA GotoKeeps ==
  ASSUME CycleTypeInv, NEW c \in Coordinators, NEW t \in Threads, NEW place,
         Follows(call[c][t].at, place), Goto(c, t, place)
  PROVE  /\ call'[c][t].at = place
         /\ call'[c][t].id = call[c][t].id
         /\ call'[c][t].cfg = call[c][t].cfg
         /\ call'[c][t].rec = call[c][t].rec
         /\ call'[c][t].from = call[c][t].from
         /\ call'[c][t].started = call[c][t].started
         /\ call'[c][t].dry = call[c][t].dry
         /\ Moved(c, t)
  <1>1. call'[c][t] = [call[c][t] EXCEPT !.at = place]
    BY GotoMoved
  <1>2. call[c][t] \in Handler
    BY HandlerTyped
  <1>3. Moved(c, t)
    BY GotoMoved
  <1> QED BY <1>1, <1>2, <1>3 DEF Handler

\* A handler that returned is what it should be.
LEMMA ReturnMoved ==
  ASSUME CycleTypeInv, NEW c \in Coordinators, NEW t \in Threads, NEW answer \in {"ok", "err"},
         Return(c, t, answer)
  PROVE  Moved(c, t) /\ call'[c][t].at \in Ended
  <1>1. Returned(c, t)
    BY ReturnReturned
  <1> QED BY <1>1, ReturnedOK DEF Moved, Returned, Becomes

\* A handler gets new contents.
LEMMA SetMoved ==
  ASSUME CycleTypeInv, NEW c \in Coordinators, NEW t \in Threads, NEW h, HandlerOK(t, h),
         call' = [call EXCEPT ![c][t] = h]
  PROVE  Moved(c, t) /\ call'[c][t] = h
  <1>1. h \in Handler
    BY DEF HandlerOK
  <1>2. Becomes(c, t, h)
    BY <1>1, ReplacedBecomes
  <1> QED BY <1>2 DEF Moved, Becomes

\* What a step of one handler leaves to show of the types.
RestOK ==
  /\ StoreTypeOK
  /\ shard \in [Shards -> [id : EpochIDs, state : {"NoActive", "Active", "Merging", "Completed"}]]
  /\ holder \in Coordinators
  /\ local \in [Coordinators -> [id : EpochIDs, state : {"NoActive", "Active", "Completed"},
                                 count : 0 .. MaxShards]]
  /\ timer \in [Coordinators -> BOOLEAN]
  /\ clients \in [Coordinators -> SUBSET Shards]
  /\ auto \in [at : AutoPlaces, rec : Recommendation, rpc : AutoRpcs \cup {Timer}]
  /\ used \in Used
  /\ committed \subseteq (1 .. MaxEpoch) \X ConfigRecord
  /\ ran \in [Shards -> SUBSET (1 .. MaxEpoch)]
  /\ applied \subseteq Recommendation \X ConfigRecord
  /\ RecordsOK

\* The invariant, taken apart.
LEMMA TypeParts ==
  CycleTypeInv <=> RestOK /\ HandlersOK /\ call \in [Coordinators -> [Threads -> Handler]]
  BY DEF CycleTypeInv, RestOK, TypeOK, Handler

\* Handlers stay what they are when one moves as it should.
LEMMA MovedKeeps ==
  ASSUME CycleTypeInv, NEW c \in Coordinators, NEW t \in Threads, Moved(c, t)
  PROVE  HandlersOK' /\ (call \in [Coordinators -> [Threads -> Handler]])'
  BY DEF CycleTypeInv, HandlersOK, Moved, Becomes

\* The variables beside call keep their types when they are left alone.
LEMMA RestKept ==
  ASSUME RestOK, UNCHANGED <<storeVars, shard, holder, local, timer, clients, auto, used,
                             historyVars>>
  PROVE  RestOK'
  BY DEF RestOK, StoreTypeOK, RecordsOK, storeVars, historyVars

\* They do when the step counts a mishap.
LEMMA RestCounted ==
  ASSUME CycleTypeInv, Counted,
         UNCHANGED <<storeVars, shard, holder, local, timer, clients, auto, historyVars>>
  PROVE  RestOK'
  <1>1. RestOK /\ used' \in Used
    BY TypeParts, FaultTyped
  <1> QED BY <1>1 DEF RestOK, StoreTypeOK, RecordsOK, storeVars, historyVars

\* The types are kept by a step of one handler.
LEMMA HandlerStep ==
  ASSUME CycleTypeInv, NEW c \in Coordinators, NEW t \in Threads, Moved(c, t), RestOK'
  PROVE  CycleTypeInv'
  <1>1. HandlersOK' /\ (call \in [Coordinators -> [Threads -> Handler]])'
    BY MovedKeeps
  <1> QED BY <1>1 DEF CycleTypeInv, RestOK, TypeOK, Handler

\* The types are kept by a step that only moves a handler.
LEMMA QuietHandlerStep ==
  ASSUME CycleTypeInv, NEW c \in Coordinators, NEW t \in Threads, Moved(c, t),
         UNCHANGED <<storeVars, shard, holder, local, timer, clients, auto, used, historyVars>>
  PROVE  CycleTypeInv'
  <1>1. RestOK'
    BY TypeParts, RestKept
  <1> QED BY <1>1, HandlerStep

\* They are when it reads.
LEMMA ReadHandlerStep ==
  ASSUME CycleTypeInv, NEW c \in Coordinators, NEW t \in Threads, Moved(c, t), Counted,
         UNCHANGED <<storeVars, shard, holder, local, timer, clients, auto, historyVars>>
  PROVE  CycleTypeInv'
  BY RestCounted, HandlerStep

\* A transition of the cycle changes only the cycle and the count of mishaps.
LEMMA CyclePutTyped ==
  ASSUME CycleTypeInv, NEW from \in CycleStates, NEW to \in CycleStates,
         NEW done, NEW refused, CyclePut(from, to, done, refused), UNCHANGED auto
  PROVE  RestOK' /\ (done \/ refused)
  <1>1. RestOK
    BY TypeParts
  <1>2. /\ cycle' \in {cycle, to}
        /\ Counted
        /\ Remembers
        /\ done \/ refused
        /\ UNCHANGED <<epoch, config, snapshot, scaling, latest,
                       shard, holder, local, timer, clients, historyVars>>
    BY DEF CyclePut, PutEpochCycleTransition, Counted, Remembers
  <1>3. used' \in Used /\ FormerOK'
    BY <1>2, FaultTyped, RemembersOK
  <1> QED BY <1>1, <1>2, <1>3 DEF RestOK, StoreTypeOK, RecordsOK, FormerOK, historyVars

-----------------------------------------------------------------------------
(***************************************************************************)
(* StartEpoch keeps the types                                              *)
(***************************************************************************)

\* A call of StartEpoch.
LEMMA StartEpochTyped ==
  ASSUME CycleTypeInv, NEW c \in Coordinators, NEW t \in Threads, NEW id \in RequestIDs,
         StartEpoch(c, t, id)
  PROVE  CycleTypeInv' /\ Moved(c, t)
  <1> DEFINE h == [Idle EXCEPT !.at = "start_cycle", !.id = id]
  <1>1. h \in Handler /\ h.at = "start_cycle" /\ h.started = {}
    BY IdleOK, RequestsAssumption DEF Handler, Places, Idle
  <1>2. t \in StartRpcs /\ call' = [call EXCEPT ![c][t] = h]
    BY DEF StartEpoch
  <1> HIDE DEF h
  <1>3. HandlerOK(t, h)
    BY <1>1, <1>2 DEF HandlerOK, StartPlaces, Deciding, Fanning, DonePlaces,
       Closing, Reporting, SkipPlaces, ApplyPlaces, Evaluating, Applying, PromotePlaces
  <1>4. Moved(c, t)
    BY <1>2, <1>3, SetMoved
  <1>5. RestOK
    BY TypeParts
  <1>6. used' \in Used
    BY <1>5 DEF StartEpoch, RestOK, Used
  <1>7. RestOK'
    BY <1>5, <1>6 DEF StartEpoch, RestOK, StoreTypeOK, RecordsOK, storeVars, historyVars
  <1> QED BY <1>4, <1>7, HandlerStep

\* requireEpochCycleAllowsStart.
LEMMA RequireCycleTyped ==
  ASSUME CycleTypeInv, NEW c \in Coordinators, NEW t \in Threads,
         RequireEpochCycleAllowsStart(c, t)
  PROVE  CycleTypeInv' /\ Moved(c, t)
  <1>1. Goto(c, t, "start_decide") \/ Return(c, t, "err")
    BY DEF RequireEpochCycleAllowsStart
  <1>2. Follows(call[c][t].at, "start_decide")
    BY DEF RequireEpochCycleAllowsStart, At, Follows
  <1>3. Moved(c, t)
    BY <1>1, <1>2, GotoMoved, ReturnMoved
  <1>4. Counted
    BY SeesCounted DEF RequireEpochCycleAllowsStart
  <1> QED BY <1>3, <1>4, ReadHandlerStep DEF RequireEpochCycleAllowsStart

\* startEpochDecision.
LEMMA StartDecisionTyped ==
  ASSUME CycleTypeInv, NEW c \in Coordinators, NEW t \in Threads, StartEpochDecision(c, t)
  PROVE  CycleTypeInv' /\ Moved(c, t)
  <1> DEFINE g == call[c][t]
             last(e) == IF e.id > local[c].id THEN e.id ELSE local[c].id
             next(e) == IF g.id > 0 THEN g.id ELSE last(e) + 1
  <1>1. g \in Handler /\ HandlerOK(t, g) /\ g.at = "start_decide"
    BY HandlerTyped DEF CycleTypeInv, HandlersOK, StartEpochDecision, At
  <1>2. Counted
    BY SeesCounted DEF StartEpochDecision
  <1>3. CASE \E e \in {epoch} \cup former.epoch :
               /\ next(e) <= MaxEpoch
               /\ call' = [call EXCEPT ![c][t].at = "start_config", ![c][t].id = next(e)]
    <2>1. PICK e \in {epoch} \cup former.epoch :
               /\ next(e) <= MaxEpoch
               /\ call' = [call EXCEPT ![c][t].at = "start_config", ![c][t].id = next(e)]
      BY <1>3
    <2> DEFINE id == next(e)
               h == [g EXCEPT !.at = "start_config", !.id = id]
    <2>2. e.id \in EpochIDs /\ local[c].id \in EpochIDs /\ g.id \in EpochIDs
      BY <1>1 DEF CycleTypeInv, TypeOK, StoreTypeOK, EpochRecord, Handler
    <2>3. id \in EpochIDs /\ id >= 1
      BY <2>1, <2>2 DEF EpochIDs
    <2>4. call' = [call EXCEPT ![c][t] = h]
      BY <2>1
    <2> HIDE DEF id
    <2>5. /\ h \in Handler /\ h.at = "start_config" /\ h.id = id
          /\ h.started = g.started
      BY <1>1, <2>3 DEF Handler, Places
    <2> HIDE DEF h, g
    <2>6. HandlerOK(t, h)
      BY <1>1, <2>3, <2>5 DEF HandlerOK, StartPlaces, Deciding, Fanning, DonePlaces,
         Closing, Reporting, SkipPlaces, ApplyPlaces, Evaluating, Applying, PromotePlaces
    <2> QED BY <1>2, <2>4, <2>6, SetMoved, ReadHandlerStep DEF StartEpochDecision
  <1>4. CASE Return(c, t, "err")
    BY <1>2, <1>4, ReturnMoved, ReadHandlerStep DEF StartEpochDecision
  <1> QED BY <1>3, <1>4 DEF StartEpochDecision

\* activeShardConfig.
LEMMA StartReadsConfigTyped ==
  ASSUME CycleTypeInv, NEW c \in Coordinators, NEW t \in Threads, StartReadsConfig(c, t)
  PROVE  CycleTypeInv' /\ Moved(c, t)
  <1> DEFINE g == call[c][t]
  <1>1. g \in Handler /\ HandlerOK(t, g) /\ g.at = "start_config"
    BY HandlerTyped DEF CycleTypeInv, HandlersOK, StartReadsConfig, At
  <1>2. Counted
    BY SeesCounted DEF StartReadsConfig, Counted
  <1>3. ASSUME NEW seen \in {config} \cup former.config,
               call' = [call EXCEPT ![c][t].at = "start_shards", ![c][t].cfg = seen]
        PROVE  Moved(c, t)
    <2> DEFINE h == [g EXCEPT !.at = "start_shards", !.cfg = seen]
    <2>1. seen \in ConfigRecord
      BY DEF CycleTypeInv, TypeOK, StoreTypeOK
    <2>2. /\ h \in Handler /\ h.at = "start_shards" /\ h.id = g.id /\ h.cfg = seen
      BY <1>1, <2>1 DEF Handler, Places
    <2>3. call' = [call EXCEPT ![c][t] = h]
      BY <1>3
    <2> HIDE DEF g, h
    <2>4. HandlerOK(t, h)
      BY <1>1, <2>1, <2>2 DEF HandlerOK, StartPlaces, Deciding, Fanning, DonePlaces,
         Closing, Reporting, SkipPlaces, ApplyPlaces, Evaluating, Applying, PromotePlaces
    <2> QED BY <2>3, <2>4, SetMoved
  <1>4. Moved(c, t)
    BY <1>3, ReturnMoved DEF StartReadsConfig
  <1> QED BY <1>2, <1>4, ReadHandlerStep DEF StartReadsConfig

\* The fan-out is at a shard of the inventory as long as it is within the
\* configuration.
LEMMA NextShardTyped ==
  ASSUME CycleTypeInv, NEW c \in Coordinators, NEW t \in Threads
  PROVE  /\ IsFiniteSet(call[c][t].started)
         /\ NextShard(c, t) \in Nat \ {0}
         /\ call[c][t].at \in Fanning /\ NextShard(c, t) <= call[c][t].cfg.count =>
              NextShard(c, t) \in Shards
  <1>1. call[c][t] \in Handler /\ HandlerOK(t, call[c][t])
    BY HandlerTyped DEF CycleTypeInv, HandlersOK
  <1>2. IsFiniteSet(1 .. MaxShards)
    BY FS_Interval
  <1>3. call[c][t].started \subseteq 1 .. MaxShards
    BY <1>1 DEF Handler, Shards
  <1>4. IsFiniteSet(call[c][t].started)
    BY <1>2, <1>3, FS_Subset
  <1>5. Cardinality(call[c][t].started) \in Nat
    BY <1>4, FS_CardinalityType
  <1>6. call[c][t].at \in Fanning => call[c][t].cfg.count \in Shards
    BY <1>1 DEF HandlerOK, ConfigRecord
  <1> QED BY <1>4, <1>5, <1>6 DEF NextShard, Shards

\* A shard that starts has the types.
LEMMA ShardStartsTyped ==
  ASSUME CycleTypeInv, NEW s \in Shards, NEW id \in 1 .. MaxEpoch,
         ShardStarts(s, id) \/ UNCHANGED <<shard, ran>>
  PROVE  /\ shard' \in [Shards -> [id : EpochIDs,
                                   state : {"NoActive", "Active", "Merging", "Completed"}]]
         /\ ran' \in [Shards -> SUBSET (1 .. MaxEpoch)]
         /\ \A u \in Shards : ran[u] \subseteq ran'[u]
  <1>1. /\ shard \in [Shards -> [id : EpochIDs,
                                 state : {"NoActive", "Active", "Merging", "Completed"}]]
        /\ ran \in [Shards -> SUBSET (1 .. MaxEpoch)]
    BY DEF CycleTypeInv, TypeOK
  <1>2. CASE ShardStarts(s, id)
    BY <1>1, <1>2 DEF ShardStarts, EpochIDs
  <1>3. CASE UNCHANGED <<shard, ran>>
    BY <1>1, <1>3
  <1> QED BY <1>2, <1>3

\* One round of the fan-out.
LEMMA StartShardTyped ==
  ASSUME CycleTypeInv, NEW c \in Coordinators, NEW t \in Threads, StartShard(c, t)
  PROVE  CycleTypeInv' /\ Moved(c, t)
  <1> DEFINE g == call[c][t]
             s == NextShard(c, t)
             h == [g EXCEPT !.started = g.started \cup {s}]
  <1>1. g \in Handler /\ HandlerOK(t, g) /\ g.at = "start_shards" /\ s <= g.cfg.count
    BY HandlerTyped DEF CycleTypeInv, HandlersOK, StartShard, At
  <1>2. s \in Shards
    BY <1>1, NextShardTyped DEF Fanning
  <1>3. g.id \in 1 .. MaxEpoch
    BY <1>1 DEF HandlerOK, Handler, EpochIDs, Fanning
  <1>4. /\ \/ call' = [call EXCEPT ![c][t].started = @ \cup {s}]
           \/ Goto(c, t, "abort")
        /\ ShardStarts(s, g.id) \/ UNCHANGED <<shard, ran>>
        /\ Fault \/ NoFault
        /\ UNCHANGED <<storeVars, holder, local, timer, clients, auto, committed, applied>>
    BY DEF StartShard
  <1>5. ASSUME call' = [call EXCEPT ![c][t].started = @ \cup {s}] PROVE Moved(c, t)
    <2>1. /\ h \in Handler /\ h.at = g.at /\ h.id = g.id /\ h.cfg = g.cfg
      BY <1>1, <1>2 DEF Handler
    <2>2. call' = [call EXCEPT ![c][t] = h]
      BY <1>5
    <2> HIDE DEF g, h
    <2>3. HandlerOK(t, h)
      BY <1>1, <2>1 DEF HandlerOK, StartPlaces, Deciding, Fanning, DonePlaces,
       Closing, Reporting, SkipPlaces, ApplyPlaces, Evaluating, Applying, PromotePlaces
    <2> QED BY <2>2, <2>3, SetMoved
  <1>6. ASSUME Goto(c, t, "abort") PROVE Moved(c, t)
    BY <1>1, <1>6, GotoMoved DEF Follows
  <1>7. Moved(c, t)
    BY <1>4, <1>5, <1>6
  <1>8. RestOK /\ /\ shard' \in [Shards -> [id : EpochIDs,
                                   state : {"NoActive", "Active", "Merging", "Completed"}]]
                  /\ ran' \in [Shards -> SUBSET (1 .. MaxEpoch)]
    BY <1>2, <1>3, <1>4, ShardStartsTyped, TypeParts
  <1>9. used' \in Used
    BY <1>4, FaultTyped DEF Counted
  <1>10. RestOK'
    BY <1>4, <1>8, <1>9 DEF RestOK, StoreTypeOK, RecordsOK, storeVars
  <1> QED BY <1>7, <1>10, HandlerStep

\* The lease is required again.
LEMMA StartRequiresLeaseTyped ==
  ASSUME CycleTypeInv, NEW c \in Coordinators, NEW t \in Threads, StartRequiresLease(c, t)
  PROVE  CycleTypeInv' /\ Moved(c, t)
  <1>1. Goto(c, t, "start_snapshot") \/ Goto(c, t, "abort")
    BY DEF StartRequiresLease
  <1>2. Follows(call[c][t].at, "start_snapshot") /\ Follows(call[c][t].at, "abort")
    BY DEF StartRequiresLease, At, Follows
  <1>3. Moved(c, t)
    BY <1>1, <1>2, GotoMoved
  <1> QED BY <1>3, QuietHandlerStep DEF StartRequiresLease

\* The snapshot of the epoch.
LEMMA StartPutsSnapshotTyped ==
  ASSUME CycleTypeInv, NEW c \in Coordinators, NEW t \in Threads, StartPutsSnapshot(c, t)
  PROVE  CycleTypeInv' /\ Moved(c, t)
  <1> DEFINE g == call[c][t]
  <1>1. g \in Handler /\ HandlerOK(t, g) /\ g.at = "start_snapshot"
    BY HandlerTyped DEF CycleTypeInv, HandlersOK, StartPutsSnapshot, At
  <1>2. g.id \in 1 .. MaxEpoch /\ g.cfg \in ConfigRecord
    BY <1>1 DEF HandlerOK, Handler, EpochIDs, Fanning
  <1>3. /\ Goto(c, t, "start_store") \/ Goto(c, t, "abort")
        /\ snapshot' = [snapshot EXCEPT ![g.id] = g.cfg] \/ UNCHANGED snapshot
        /\ Fault \/ NoFault
        /\ UNCHANGED <<epoch, config, scaling, latest, cycle, former,
                       shard, holder, local, timer, clients, auto, historyVars>>
    BY DEF StartPutsSnapshot
  <1>4. Moved(c, t)
    BY <1>1, <1>3, GotoMoved DEF Follows
  <1>5. RestOK
    BY TypeParts
  <1>6. snapshot' \in [1 .. MaxEpoch -> ConfigRecord \cup {NoConfig}]
    BY <1>2, <1>3, <1>5 DEF RestOK, StoreTypeOK
  <1>7. used' \in Used
    BY <1>3, FaultTyped DEF Counted
  <1>8. RestOK'
    BY <1>3, <1>5, <1>6, <1>7 DEF RestOK, StoreTypeOK, RecordsOK, historyVars
  <1> QED BY <1>4, <1>8, HandlerStep

\* StartEpoch of the store.
LEMMA StartWritesStoreTyped ==
  ASSUME CycleTypeInv, NEW c \in Coordinators, NEW t \in Threads, StartWritesStore(c, t)
  PROVE  CycleTypeInv' /\ Moved(c, t)
  <1> DEFINE g == call[c][t]
  <1>1. g \in Handler /\ HandlerOK(t, g) /\ g.at = "start_store"
    BY HandlerTyped DEF CycleTypeInv, HandlersOK, StartWritesStore, At
  <1>2. g.id \in EpochIDs /\ g.cfg.version \in Versions
    BY <1>1 DEF HandlerOK, Handler, ConfigRecord, Fanning
  <1>3. /\ Goto(c, t, "start_from") \/ Goto(c, t, "abort")
        /\ StoreStartEpoch(g.id, g.cfg.version) \/ UNCHANGED <<epoch, config, former>>
        /\ Fault \/ NoFault
        /\ UNCHANGED <<snapshot, scaling, latest, cycle,
                       shard, holder, local, timer, clients, auto, historyVars>>
    BY DEF StartWritesStore
  <1>4. Moved(c, t)
    BY <1>1, <1>3, GotoMoved DEF Follows
  <1>5. RestOK
    BY TypeParts
  <1>6. StoreTypeOK
    BY <1>5 DEF RestOK
  <1>a. epoch' \in EpochRecord
    <2>1. epoch' = epoch \/ epoch' = [id |-> g.id, state |-> "Active"]
      BY <1>3 DEF StoreStartEpoch
    <2> QED BY <1>2, <1>6, <2>1 DEF StoreTypeOK, EpochRecord
  <1>b. config' \in ConfigRecord
    <2>1. config' = config \/ config' = [config EXCEPT !.version = g.cfg.version]
      BY <1>3 DEF StoreStartEpoch
    <2> QED BY <1>2, <1>6, <2>1 DEF StoreTypeOK, ConfigRecord
  <1>7. used' \in Used
    BY <1>3, FaultTyped DEF Counted
  <1>c. FormerOK'
    BY <1>3, RemembersOK DEF Remembers, StoreStartEpoch
  <1>8. RestOK'
    BY <1>3, <1>5, <1>a, <1>b, <1>c, <1>7
       DEF RestOK, StoreTypeOK, RecordsOK, FormerOK, historyVars
  <1> QED BY <1>4, <1>8, HandlerStep

\* The state of the cycle is read ...
LEMMA StartReadsCycleTyped ==
  ASSUME CycleTypeInv, NEW c \in Coordinators, NEW t \in Threads, StartReadsCycle(c, t)
  PROVE  CycleTypeInv' /\ Moved(c, t)
  <1> DEFINE g == call[c][t]
  <1>1. g \in Handler /\ HandlerOK(t, g) /\ g.at = "start_from"
    BY HandlerTyped DEF CycleTypeInv, HandlersOK, StartReadsCycle, At
  <1>2. PICK seen \in {cycle} \cup former.cycle :
          /\ Sees(seen, cycle)
          /\ call' = [call EXCEPT ![c][t].at = "start_active", ![c][t].from = seen]
    BY DEF StartReadsCycle
  <1> DEFINE h == [g EXCEPT !.at = "start_active", !.from = seen]
  <1>3. seen \in CycleStates
    BY <1>2 DEF CycleTypeInv, TypeOK, StoreTypeOK
  <1>4. /\ h \in Handler /\ h.at = "start_active" /\ h.id = g.id /\ h.cfg = g.cfg
    BY <1>1, <1>3 DEF Handler, Places
  <1>5. call' = [call EXCEPT ![c][t] = h]
    BY <1>2
  <1> HIDE DEF g, h
  <1>6. HandlerOK(t, h)
    BY <1>1, <1>4 DEF HandlerOK, StartPlaces, Deciding, Fanning, DonePlaces,
       Closing, Reporting, SkipPlaces, ApplyPlaces, Evaluating, Applying, PromotePlaces
  <1>7. Counted
    BY <1>2, SeesCounted
  <1> QED BY <1>5, <1>6, <1>7, SetMoved, ReadHandlerStep DEF StartReadsCycle

\* ... and moved.
LEMMA StartActivatesCycleTyped ==
  ASSUME CycleTypeInv, NEW c \in Coordinators, NEW t \in Threads, StartActivatesCycle(c, t)
  PROVE  CycleTypeInv' /\ Moved(c, t)
  <1>1. call[c][t] \in Handler /\ call[c][t].at = "start_active"
    BY HandlerTyped DEF StartActivatesCycle, At
  <1>2. call[c][t].from \in CycleStates /\ "active" \in CycleStates
    BY <1>1 DEF Handler, CycleStates
  <1>3. RestOK' /\ (Goto(c, t, "start_commit") \/ Goto(c, t, "abort"))
    BY <1>2, CyclePutTyped DEF StartActivatesCycle, CycleStep
  <1>4. Moved(c, t)
    BY <1>1, <1>3, GotoMoved DEF Follows
  <1> QED BY <1>3, <1>4, HandlerStep

\* commitStartedEpoch.
LEMMA CommitStartedTyped ==
  ASSUME CycleTypeInv, NEW c \in Coordinators, NEW t \in Threads, CommitStartedEpoch(c, t)
  PROVE  CycleTypeInv' /\ Moved(c, t)
  <1> DEFINE g == call[c][t]
  <1>1. g \in Handler /\ HandlerOK(t, g) /\ g.at = "start_commit"
    BY HandlerTyped DEF CycleTypeInv, HandlersOK, CommitStartedEpoch, At
  <1>2. g.id \in 1 .. MaxEpoch /\ g.cfg \in ConfigRecord /\ g.cfg.count \in Shards
    BY <1>1 DEF HandlerOK, Handler, EpochIDs, Fanning, ConfigRecord
  <1>3. /\ local' = [local EXCEPT ![c] = [id |-> g.id, state |-> "Active", count |-> g.cfg.count]]
        /\ timer' = [timer EXCEPT ![c] = TRUE]
        /\ committed' = committed \cup {<<g.id, g.cfg>>}
        /\ UNCHANGED <<storeVars, shard, holder, clients, auto, used, ran, applied>>
    BY DEF CommitStartedEpoch
  <1>4. Moved(c, t)
    BY ReturnMoved DEF CommitStartedEpoch
  <1>5. RestOK
    BY TypeParts
  <1> HIDE DEF g
  <1> DEFINE Local == [id : EpochIDs, state : {"NoActive", "Active", "Completed"},
                       count : 0 .. MaxShards]
             new == [id |-> g.id, state |-> "Active", count |-> g.cfg.count]
  <1>a. new \in Local /\ new.id >= 1 /\ new.count >= 1
    BY <1>2 DEF EpochIDs, Shards
  <1>d. local \in [Coordinators -> Local]
    BY <1>5 DEF RestOK
  <1>b. local' = [local EXCEPT ![c] = new]
    BY <1>3
  <1> HIDE DEF Local, new
  <1>c. /\ local' \in [Coordinators -> Local]
        /\ \A d \in Coordinators : local'[d].state = "Active" =>
             local'[d].id >= 1 /\ local'[d].count >= 1
    BY <1>a, <1>b, <1>d, <1>5 DEF RestOK, RecordsOK
  <1>6. /\ local' \in [Coordinators -> [id : EpochIDs,
                         state : {"NoActive", "Active", "Completed"}, count : 0 .. MaxShards]]
        /\ \A d \in Coordinators : local'[d].state = "Active" =>
             local'[d].id >= 1 /\ local'[d].count >= 1
    BY <1>c DEF Local
  <1>7. timer' \in [Coordinators -> BOOLEAN]
    BY <1>3, <1>5 DEF RestOK
  <1>8. committed' \subseteq (1 .. MaxEpoch) \X ConfigRecord
    BY <1>2, <1>3, <1>5 DEF RestOK
  <1>9. RestOK'
    BY <1>3, <1>5, <1>6, <1>7, <1>8 DEF RestOK, StoreTypeOK, RecordsOK, storeVars
  <1> QED BY <1>4, <1>9, HandlerStep

\* abortStarted.
LEMMA AbortStartedTyped ==
  ASSUME CycleTypeInv, NEW c \in Coordinators, NEW t \in Threads, AbortStarted(c, t)
  PROVE  CycleTypeInv' /\ Moved(c, t)
  <1> DEFINE g == call[c][t]
             s == CHOOSE x \in g.started : \A y \in g.started : x <= y
             h == [g EXCEPT !.started = g.started \ {s}]
  <1>1. g \in Handler /\ HandlerOK(t, g) /\ g.at = "abort"
    BY HandlerTyped DEF CycleTypeInv, HandlersOK, AbortStarted, At
  <1>2. /\ Return(c, t, "err") \/ call' = [call EXCEPT ![c][t].started = @ \ {s}]
        /\ \/ shard' = [shard EXCEPT ![s] = [id |-> 0, state |-> "NoActive"]]
           \/ UNCHANGED shard
        /\ Fault \/ NoFault
        /\ UNCHANGED <<storeVars, holder, local, timer, clients, auto, historyVars>>
    BY DEF AbortStarted
  <1> HIDE DEF s
  <1>3. ASSUME call' = [call EXCEPT ![c][t].started = @ \ {s}] PROVE Moved(c, t)
    <2>1. /\ h \in Handler /\ h.at = g.at /\ h.id = g.id /\ h.cfg = g.cfg
      BY <1>1 DEF Handler
    <2>2. call' = [call EXCEPT ![c][t] = h]
      BY <1>3
    <2> HIDE DEF g, h
    <2>3. HandlerOK(t, h)
      BY <1>1, <2>1 DEF HandlerOK, StartPlaces, Deciding, Fanning, DonePlaces,
       Closing, Reporting, SkipPlaces, ApplyPlaces, Evaluating, Applying, PromotePlaces
    <2> QED BY <2>2, <2>3, SetMoved
  <1>4. Moved(c, t)
    BY <1>2, <1>3, ReturnMoved
  <1>5. RestOK
    BY TypeParts
  <1> DEFINE Leader == [id : EpochIDs, state : {"NoActive", "Active", "Merging", "Completed"}]
             none == [id |-> 0, state |-> "NoActive"]
  <1>a. none \in Leader /\ shard \in [Shards -> Leader]
    BY <1>5 DEF RestOK, EpochIDs
  <1>b. shard' = [shard EXCEPT ![s] = none] \/ shard' = shard
    BY <1>2
  <1> HIDE DEF Leader, none
  <1>c. shard' \in [Shards -> Leader]
    BY <1>a, <1>b
  <1>6. shard' \in [Shards -> [id : EpochIDs, state : {"NoActive", "Active", "Merging", "Completed"}]]
    BY <1>c DEF Leader
  <1>7. used' \in Used
    BY <1>2, FaultTyped DEF Counted
  <1>8. RestOK'
    BY <1>2, <1>5, <1>6, <1>7 DEF RestOK, StoreTypeOK, RecordsOK, storeVars, historyVars
  <1> QED BY <1>4, <1>8, HandlerStep

\* StartEpoch keeps the types.
LEMMA StartStepsTyped ==
  ASSUME CycleTypeInv, NEW c \in Coordinators, NEW t \in Threads, StartSteps(c, t)
  PROVE  CycleTypeInv' /\ Moved(c, t)
  BY RequireCycleTyped, StartDecisionTyped, StartReadsConfigTyped, StartShardTyped,
     StartRequiresLeaseTyped, StartPutsSnapshotTyped, StartWritesStoreTyped,
     StartReadsCycleTyped, StartActivatesCycleTyped, CommitStartedTyped, AbortStartedTyped
     DEF StartSteps

-----------------------------------------------------------------------------
(***************************************************************************)
(* The completion of an epoch and the skipping of a recommendation keep    *)
(* the types                                                               *)
(***************************************************************************)

\* The timer fires.
LEMMA TimerFiresTyped ==
  ASSUME CycleTypeInv, NEW c \in Coordinators, TimerFires(c)
  PROVE  CycleTypeInv' /\ Moved(c, Timer)
  <1> DEFINE h == [Idle EXCEPT !.at = "done_decide"]
  <1>1. h \in Handler /\ h.at = "done_decide"
    BY IdleOK DEF Handler, Places, Idle, Threads
  <1>2. call' = [call EXCEPT ![c][Timer] = h] /\ Timer \in Threads
    BY DEF TimerFires, Threads
  <1> HIDE DEF h
  <1>3. HandlerOK(Timer, h)
    BY <1>1 DEF HandlerOK, StartPlaces, Deciding, Fanning, DonePlaces,
       Closing, Reporting, SkipPlaces, ApplyPlaces, Evaluating, Applying, PromotePlaces
  <1>4. Moved(c, Timer)
    BY <1>2, <1>3, SetMoved
  <1>5. RestOK
    BY TypeParts
  <1>6. timer' \in [Coordinators -> BOOLEAN]
    BY <1>5 DEF TimerFires, RestOK
  <1>7. RestOK'
    BY <1>5, <1>6 DEF TimerFires, RestOK, StoreTypeOK, RecordsOK, storeVars, historyVars
  <1> QED BY <1>2, <1>4, <1>7, HandlerStep

\* completeEpochDecision.
LEMMA CompleteDecisionTyped ==
  ASSUME CycleTypeInv, NEW c \in Coordinators, CompleteEpochDecision(c)
  PROVE  CycleTypeInv' /\ Moved(c, Timer)
  <1> DEFINE g == call[c][Timer]
             h == [g EXCEPT !.at = "done_lease", !.id = local[c].id]
  <1>1. g \in Handler /\ HandlerOK(Timer, g) /\ g.at = "done_decide" /\ Timer \in Threads
    BY HandlerTyped DEF CycleTypeInv, HandlersOK, CompleteEpochDecision, At, Threads
  <1>2. CASE local[c].state = "Active" /\ call' = [call EXCEPT ![c][Timer].at = "done_lease",
                                                             ![c][Timer].id = local[c].id]
    <2>1. local[c].id \in EpochIDs /\ local[c].id >= 1
      BY <1>2 DEF CycleTypeInv, TypeOK, RecordsOK
    <2>2. /\ h \in Handler /\ h.at = "done_lease" /\ h.id = local[c].id
      BY <1>1, <2>1 DEF Handler, Places
    <2>3. call' = [call EXCEPT ![c][Timer] = h]
      BY <1>2
    <2> HIDE DEF h, g
    <2>4. HandlerOK(Timer, h)
      BY <1>1, <2>1, <2>2 DEF HandlerOK, StartPlaces, Deciding, Fanning, DonePlaces,
       Closing, Reporting, SkipPlaces, ApplyPlaces, Evaluating, Applying, PromotePlaces
    <2> QED BY <1>1, <2>3, <2>4, SetMoved, QuietHandlerStep DEF CompleteEpochDecision
  <1>3. CASE Return(c, Timer, "err")
    BY <1>1, <1>3, ReturnMoved, QuietHandlerStep DEF CompleteEpochDecision
  <1> QED BY <1>2, <1>3 DEF CompleteEpochDecision

\* The lease is required.
LEMMA CompleteRequiresLeaseTyped ==
  ASSUME CycleTypeInv, NEW c \in Coordinators, CompleteRequiresLease(c)
  PROVE  CycleTypeInv' /\ Moved(c, Timer)
  <1>1. Timer \in Threads /\ (Goto(c, Timer, "done_commit") \/ Return(c, Timer, "err"))
    BY DEF CompleteRequiresLease, Threads
  <1>2. Follows(call[c][Timer].at, "done_commit")
    BY DEF CompleteRequiresLease, At, Follows
  <1>3. Moved(c, Timer)
    BY <1>1, <1>2, GotoMoved, ReturnMoved
  <1> QED BY <1>1, <1>3, QuietHandlerStep DEF CompleteRequiresLease

\* commitCompletedEpoch.
LEMMA CommitCompletedTyped ==
  ASSUME CycleTypeInv, NEW c \in Coordinators, CommitCompletedEpoch(c)
  PROVE  CycleTypeInv' /\ Moved(c, Timer)
  <1> DEFINE g == call[c][Timer]
  <1>1. g \in Handler /\ HandlerOK(Timer, g) /\ g.at = "done_commit" /\ Timer \in Threads
    BY HandlerTyped DEF CycleTypeInv, HandlersOK, CommitCompletedEpoch, At, Threads
  <1>2. RestOK
    BY TypeParts
  <1>3. CASE /\ local[c].state = "Active"
             /\ local' = [local EXCEPT ![c].state = "Completed"]
             /\ \E target \in Shards :
                  call' = [call EXCEPT ![c][Timer].at = "done_store",
                             ![c][Timer].rec = [epoch |-> g.id, version |-> 0,
                                                count |-> local[c].count, target |-> target]]
    <2>1. PICK target \in Shards :
            call' = [call EXCEPT ![c][Timer].at = "done_store",
                       ![c][Timer].rec = [epoch |-> g.id, version |-> 0,
                                          count |-> local[c].count, target |-> target]]
      BY <1>3
    <2> DEFINE rec == [epoch |-> g.id, version |-> 0, count |-> local[c].count, target |-> target]
               h == [g EXCEPT !.at = "done_store", !.rec = rec]
    <2>2. local[c].count \in 0 .. MaxShards /\ local[c].count >= 1 /\ local[c] \in
            [id : EpochIDs, state : {"NoActive", "Active", "Completed"}, count : 0 .. MaxShards]
      BY <1>2, <1>3 DEF RestOK, RecordsOK
    <2>3. g.id \in EpochIDs /\ g.id >= 1
      BY <1>1 DEF HandlerOK, Handler, Closing
    <2>4. rec \in Recommendation /\ rec.epoch >= 1 /\ rec.count >= 1 /\ rec.target >= 1
      BY <2>2, <2>3 DEF Recommendation, Shards
    <2>5. call' = [call EXCEPT ![c][Timer] = h]
      BY <2>1
    <2> HIDE DEF rec
    <2>6. h \in Handler /\ h.at = "done_store" /\ h.id = g.id /\ h.rec = rec
      BY <1>1, <2>4 DEF Handler, Places
    <2> HIDE DEF g, h
    <2>7. HandlerOK(Timer, h)
      BY <2>3, <2>4, <2>6 DEF HandlerOK, StartPlaces, Deciding, Fanning, DonePlaces,
       Closing, Reporting, SkipPlaces, ApplyPlaces, Evaluating, Applying, PromotePlaces
    <2>8. Moved(c, Timer)
      BY <1>1, <2>5, <2>7, SetMoved
    <2> DEFINE Local == [id : EpochIDs, state : {"NoActive", "Active", "Completed"},
                         count : 0 .. MaxShards]
               new == [local[c] EXCEPT !.state = "Completed"]
    <2>9. new \in Local /\ new.state = "Completed" /\ local' = [local EXCEPT ![c] = new]
      BY <1>3, <2>2
    <2>10. local \in [Coordinators -> Local]
      BY <1>2 DEF RestOK
    <2> HIDE DEF Local, new
    <2>11. /\ local' \in [Coordinators -> Local]
           /\ \A d \in Coordinators : local'[d].state = "Active" =>
                local'[d].id >= 1 /\ local'[d].count >= 1
      BY <2>9, <2>10, <1>2 DEF RestOK, RecordsOK
    <2>12. UNCHANGED <<storeVars, shard, holder, timer, clients, auto, used, historyVars>>
      BY DEF CommitCompletedEpoch
    <2>13. RestOK'
      BY <1>2, <2>11, <2>12 DEF RestOK, StoreTypeOK, RecordsOK, storeVars, historyVars, Local
    <2> QED BY <1>1, <2>8, <2>13, HandlerStep
  <1>4. CASE Return(c, Timer, "err") /\ UNCHANGED local
    BY <1>1, <1>4, ReturnMoved, QuietHandlerStep DEF CommitCompletedEpoch
  <1> QED BY <1>3, <1>4 DEF CommitCompletedEpoch

\* CompleteEpoch of the store.
LEMMA CompleteWritesStoreTyped ==
  ASSUME CycleTypeInv, NEW c \in Coordinators, CompleteWritesStore(c)
  PROVE  CycleTypeInv' /\ Moved(c, Timer)
  <1>1. call[c][Timer].at = "done_store" /\ Timer \in Threads
    BY DEF CompleteWritesStore, At, Threads
  <1>2. /\ Goto(c, Timer, "done_version") \/ Return(c, Timer, "err")
        /\ StoreCompleteEpoch \/ UNCHANGED <<epoch, former>>
        /\ Fault \/ NoFault
        /\ UNCHANGED <<config, snapshot, scaling, latest, cycle,
                       shard, holder, local, timer, clients, auto, historyVars>>
    BY DEF CompleteWritesStore
  <1>3. Moved(c, Timer)
    BY <1>1, <1>2, GotoMoved, ReturnMoved DEF Follows
  <1>4. RestOK
    BY TypeParts
  <1>5. epoch' \in EpochRecord
    <2>1. epoch \in EpochRecord
      BY <1>4 DEF RestOK, StoreTypeOK
    <2> QED BY <1>2, <2>1 DEF StoreCompleteEpoch, EpochRecord
  <1>6. used' \in Used /\ FormerOK'
    BY <1>2, FaultTyped, RemembersOK DEF Counted, Remembers, StoreCompleteEpoch
  <1>7. RestOK'
    BY <1>2, <1>4, <1>5, <1>6 DEF RestOK, StoreTypeOK, RecordsOK, FormerOK, historyVars
  <1> QED BY <1>1, <1>3, <1>7, HandlerStep

\* currentShardConfigVersion.
LEMMA CompleteReadsVersionTyped ==
  ASSUME CycleTypeInv, NEW c \in Coordinators, CompleteReadsVersion(c)
  PROVE  CycleTypeInv' /\ Moved(c, Timer)
  <1> DEFINE g == call[c][Timer]
  <1>1. g \in Handler /\ HandlerOK(Timer, g) /\ g.at = "done_version" /\ Timer \in Threads
    BY HandlerTyped DEF CycleTypeInv, HandlersOK, CompleteReadsVersion, At, Threads
  <1>a. PICK seen \in {config} \cup former.config :
          /\ Sees(seen, config)
          /\ call' = [call EXCEPT ![c][Timer].at = "done_scaling",
                        ![c][Timer].rec = [call[c][Timer].rec EXCEPT !.version = seen.version]]
    BY DEF CompleteReadsVersion
  <1> DEFINE rec == [g.rec EXCEPT !.version = seen.version]
             h == [g EXCEPT !.at = "done_scaling", !.rec = rec]
  <1>2. seen.version \in 0 .. MaxVersion
    BY DEF CycleTypeInv, TypeOK, StoreTypeOK, ConfigRecord, Versions
  <1>3. g.rec \in Recommendation /\ g.rec.epoch >= 1 /\ g.rec.count >= 1 /\ g.rec.target >= 1
    BY <1>1 DEF HandlerOK, Handler, Reporting
  <1>4. rec \in Recommendation /\ rec.epoch >= 1 /\ rec.count >= 1 /\ rec.target >= 1
    BY <1>2, <1>3 DEF Recommendation
  <1>5. call' = [call EXCEPT ![c][Timer] = h]
    BY <1>a
  <1> HIDE DEF rec
  <1>6. h \in Handler /\ h.at = "done_scaling" /\ h.id = g.id /\ h.rec = rec
    BY <1>1, <1>4 DEF Handler, Places
  <1> HIDE DEF g, h
  <1>7. HandlerOK(Timer, h)
    BY <1>1, <1>4, <1>6 DEF HandlerOK, StartPlaces, Deciding, Fanning, DonePlaces,
       Closing, Reporting, SkipPlaces, ApplyPlaces, Evaluating, Applying, PromotePlaces
  <1>8. Counted
    BY <1>a, SeesCounted
  <1> QED BY <1>1, <1>5, <1>7, <1>8, SetMoved, ReadHandlerStep DEF CompleteReadsVersion

\* PutScalingRecommendation.
LEMMA CompletePutsScalingTyped ==
  ASSUME CycleTypeInv, NEW c \in Coordinators, CompletePutsScaling(c)
  PROVE  CycleTypeInv' /\ Moved(c, Timer)
  <1> DEFINE g == call[c][Timer]
  <1>1. g \in Handler /\ HandlerOK(Timer, g) /\ g.at = "done_scaling" /\ Timer \in Threads
    BY HandlerTyped DEF CycleTypeInv, HandlersOK, CompletePutsScaling, At, Threads
  <1>2. g.rec \in Recommendation /\ g.rec.epoch >= 1 /\ g.rec.count >= 1 /\ g.rec.target >= 1
    BY <1>1 DEF HandlerOK, Handler, Reporting
  <1>3. /\ Goto(c, Timer, "done_ready") \/ Goto(c, Timer, "done_failed")
        /\ scaling' = scaling \cup {g.rec.epoch} \/ UNCHANGED scaling
        /\ latest' \in {latest, g.rec}
        /\ Counted
        /\ Remembers
        /\ UNCHANGED <<epoch, config, snapshot, cycle,
                       shard, holder, local, timer, clients, auto, historyVars>>
    BY DEF CompletePutsScaling, PutScaling, Counted, Remembers
  <1>4. Moved(c, Timer)
    BY <1>1, <1>3, GotoMoved DEF Follows
  <1>5. RestOK
    BY TypeParts
  <1>6. scaling' \subseteq 1 .. MaxEpoch
    <2>1. g.rec.epoch \in 1 .. MaxEpoch
      BY <1>2 DEF Recommendation, EpochIDs
    <2> HIDE DEF g
    <2> QED BY <1>3, <1>5, <2>1 DEF RestOK, StoreTypeOK
  <1>7. used' \in Used /\ FormerOK'
    BY <1>3, FaultTyped, RemembersOK
  <1> HIDE DEF g
  <1>8. RestOK'
    BY <1>2, <1>3, <1>5, <1>6, <1>7 DEF RestOK, StoreTypeOK, RecordsOK, FormerOK, historyVars
  <1> QED BY <1>1, <1>4, <1>8, HandlerStep

\* A handler's transition of the cycle that only gets it further or ends it.
LEMMA CycleStepTyped ==
  ASSUME CycleTypeInv, NEW c \in Coordinators, NEW t \in Threads,
         NEW from \in CycleStates, NEW to \in CycleStates, NEW done, NEW refused,
         CycleStep(from, to, done, refused),
         done => Moved(c, t), refused => Moved(c, t)
  PROVE  CycleTypeInv' /\ Moved(c, t)
  <1>1. RestOK' /\ (done \/ refused)
    BY CyclePutTyped DEF CycleStep
  <1> QED BY <1>1, HandlerStep

\* The completion and the skips move the cycle.
LEMMA CompleteCycleTyped ==
  ASSUME CycleTypeInv, NEW c \in Coordinators, CompleteFailsCycle(c) \/ CompleteReadiesCycle(c)
  PROVE  CycleTypeInv' /\ Moved(c, Timer)
  <1>1. Timer \in Threads /\ {"active", "failed", "recommendation_ready"} \subseteq CycleStates
    BY DEF Threads, CycleStates
  <1>2. CASE CompleteFailsCycle(c)
    <2>1. CycleStep("active", "failed", Return(c, Timer, "err"), Return(c, Timer, "err"))
      BY <1>2 DEF CompleteFailsCycle
    <2> QED BY <1>1, <2>1, ReturnMoved, CycleStepTyped
  <1>3. CASE CompleteReadiesCycle(c)
    <2> DEFINE rec == call[c][Timer].rec
               done == IF rec.target = rec.count THEN Goto(c, Timer, "skip_begin")
                                                 ELSE Return(c, Timer, "ok")
    <2>1. /\ CycleStep("active", "recommendation_ready", done, Return(c, Timer, "err"))
          /\ call[c][Timer].at = "done_ready"
      BY <1>3 DEF CompleteReadiesCycle, At
    <2>2. done => Moved(c, Timer)
      BY <1>1, <2>1, ReturnMoved, GotoMoved DEF Follows
    <2> HIDE DEF done
    <2> QED BY <1>1, <2>1, <2>2, ReturnMoved, CycleStepTyped
  <1> QED BY <1>2, <1>3

\* SkipScalingRecommendation and the skip of a recommendation to keep.
LEMMA SkipTyped ==
  ASSUME CycleTypeInv, NEW c \in Coordinators, NEW t \in Threads,
         SkipReadsCycle(c, t) \/ SkipReadsEpoch(c, t) \/ SkipBegins(c, t) \/ SkipEnds(c, t)
  PROVE  CycleTypeInv' /\ Moved(c, t)
  <1>1. {"recommendation_ready", "scaling_in_progress", "scaling_skipped"} \subseteq CycleStates
    BY DEF CycleStates
  <1>2. CASE SkipReadsCycle(c, t)
    <2>1. Moved(c, t)
      BY <1>2, GotoMoved, ReturnMoved DEF SkipReadsCycle, At, Follows
    <2>2. Counted
      BY <1>2, SeesCounted DEF SkipReadsCycle, Counted
    <2> QED BY <1>2, <2>1, <2>2, ReadHandlerStep DEF SkipReadsCycle
  <1>3. CASE SkipReadsEpoch(c, t)
    <2>1. Moved(c, t)
      BY <1>3, GotoMoved, ReturnMoved DEF SkipReadsEpoch, At, Follows
    <2>2. Counted
      BY <1>3, SeesCounted DEF SkipReadsEpoch, Counted
    <2> QED BY <1>3, <2>1, <2>2, ReadHandlerStep DEF SkipReadsEpoch
  <1>4. CASE SkipBegins(c, t)
    <2>1. Goto(c, t, "skip_end") => Moved(c, t)
      BY <1>4, GotoMoved DEF SkipBegins, At, Follows
    <2>2. CycleStep("recommendation_ready", "scaling_in_progress",
                    Goto(c, t, "skip_end"), Return(c, t, "err"))
      BY <1>4 DEF SkipBegins
    <2> QED BY <1>1, <2>1, <2>2, ReturnMoved, CycleStepTyped
  <1>5. CASE SkipEnds(c, t)
    <2>1. CycleStep("scaling_in_progress", "scaling_skipped",
                    Return(c, t, "ok"), Return(c, t, "err"))
      BY <1>5 DEF SkipEnds
    <2> QED BY <1>1, <2>1, ReturnMoved, CycleStepTyped
  <1> QED BY <1>2, <1>3, <1>4, <1>5

\* The completion keeps the types.
LEMMA CompleteStepsTyped ==
  ASSUME CycleTypeInv, NEW c \in Coordinators, CompleteSteps(c)
  PROVE  CycleTypeInv' /\ Moved(c, Timer)
  BY CompleteDecisionTyped, CompleteRequiresLeaseTyped, CommitCompletedTyped,
     CompleteWritesStoreTyped, CompleteReadsVersionTyped, CompletePutsScalingTyped,
     CompleteCycleTyped DEF CompleteSteps

-----------------------------------------------------------------------------
(***************************************************************************)
(* The application of a recommendation and the promotion keep the types    *)
(***************************************************************************)

\* A new handler of an operator or of the autoscaler.
LEMMA CallMoved ==
  ASSUME CycleTypeInv, NEW c \in Coordinators, NEW t \in Threads, NEW h \in Handler,
         call' = [call EXCEPT ![c][t] = h],
         h.at \in {"apply_config", "skip_cycle", "promote_config"},
         h.at = "apply_config" => t \in ApplyRpcs \cup AutoRpcs,
         h.at = "skip_cycle" => t \in SkipRpcs,
         h.at = "promote_config" => t \in PromoteRpcs
  PROVE  Moved(c, t) /\ call'[c][t] = h
  <1>1. HandlerOK(t, h)
    BY DEF HandlerOK, StartPlaces, Deciding, Fanning, DonePlaces,
       Closing, Reporting, SkipPlaces, ApplyPlaces, Evaluating, Applying, PromotePlaces
  <1>2. Moved(c, t)
    BY <1>1, SetMoved
  <1> QED BY <1>1, <1>2, ReplacedBecomes DEF Becomes

\* ApplyScalingRecommendation is called.
LEMMA ApplyMoved ==
  ASSUME CycleTypeInv, NEW c \in Coordinators, NEW t \in ApplyRpcs \cup AutoRpcs,
         NEW dry \in BOOLEAN, Apply(c, t, dry)
  PROVE  Moved(c, t) /\ call'[c][t].at = "apply_config" /\ call'[c][t].dry = dry
  <1> DEFINE h == [Idle EXCEPT !.at = "apply_config", !.dry = dry]
  <1>1. t \in Threads
    BY DEF Threads, Rpcs
  <1>2. h \in Handler /\ h.at = "apply_config" /\ h.dry = dry
    BY <1>1, IdleOK DEF Handler, Places, Idle
  <1>3. call' = [call EXCEPT ![c][t] = h]
    BY DEF Apply
  <1> HIDE DEF h
  <1>4. Moved(c, t)
    BY <1>1, <1>2, <1>3, CallMoved
  <1>5. call'[c][t] = h
    BY <1>1, <1>2, <1>3, ReplacedBecomes DEF Becomes
  <1> QED BY <1>2, <1>4, <1>5

\* The RPCs are called.
LEMMA CallsTyped ==
  ASSUME CycleTypeInv, NEW c \in Coordinators, NEW t \in Threads,
         \/ ApplyScalingRecommendation(c, t)
         \/ SkipScalingRecommendation(c, t)
         \/ PromoteShardStandby(c, t)
  PROVE  CycleTypeInv' /\ Moved(c, t)
  <1>1. UNCHANGED <<storeVars, shard, holder, local, timer, clients, auto, used, historyVars>>
    BY DEF ApplyScalingRecommendation, SkipScalingRecommendation, PromoteShardStandby
  <1>2. ASSUME ApplyScalingRecommendation(c, t) PROVE Moved(c, t)
    BY <1>2, ApplyMoved DEF ApplyScalingRecommendation
  <1>3. ASSUME SkipScalingRecommendation(c, t) PROVE Moved(c, t)
    <2> DEFINE h == [Idle EXCEPT !.at = "skip_cycle"]
    <2>1. h \in Handler /\ h.at = "skip_cycle"
      BY IdleOK DEF Handler, Places, Idle
    <2>2. t \in SkipRpcs /\ call' = [call EXCEPT ![c][t] = h]
      BY <1>3 DEF SkipScalingRecommendation
    <2> HIDE DEF h
    <2> QED BY <2>1, <2>2, CallMoved
  <1>4. ASSUME PromoteShardStandby(c, t) PROVE Moved(c, t)
    <2> DEFINE h == [Idle EXCEPT !.at = "promote_config"]
    <2>1. h \in Handler /\ h.at = "promote_config"
      BY IdleOK DEF Handler, Places, Idle
    <2>2. t \in PromoteRpcs /\ call' = [call EXCEPT ![c][t] = h]
      BY <1>4 DEF PromoteShardStandby
    <2> HIDE DEF h
    <2> QED BY <2>1, <2>2, CallMoved
  <1> QED BY <1>1, <1>2, <1>3, <1>4, QuietHandlerStep

\* evaluateScalingApply reads the configuration,
LEMMA ApplyReadsConfigTyped ==
  ASSUME CycleTypeInv, NEW c \in Coordinators, NEW t \in Threads, ApplyReadsConfig(c, t)
  PROVE  CycleTypeInv' /\ Moved(c, t)
  <1> DEFINE g == call[c][t]
  <1>1. g \in Handler /\ HandlerOK(t, g) /\ g.at = "apply_config"
    BY HandlerTyped DEF CycleTypeInv, HandlersOK, ApplyReadsConfig, At
  <1>2. Counted
    BY SeesCounted DEF ApplyReadsConfig, Counted
  <1>3. ASSUME NEW seen \in {config} \cup former.config,
               call' = [call EXCEPT ![c][t].at = "apply_epoch", ![c][t].cfg = seen]
        PROVE  Moved(c, t)
    <2> DEFINE h == [g EXCEPT !.at = "apply_epoch", !.cfg = seen]
    <2>1. seen \in ConfigRecord
      BY DEF CycleTypeInv, TypeOK, StoreTypeOK
    <2>2. /\ h \in Handler /\ h.at = "apply_epoch" /\ h.id = g.id /\ h.cfg = seen
      BY <1>1, <2>1 DEF Handler, Places
    <2>3. call' = [call EXCEPT ![c][t] = h]
      BY <1>3
    <2> HIDE DEF g, h
    <2>4. HandlerOK(t, h)
      BY <1>1, <2>1, <2>2 DEF HandlerOK, StartPlaces, Deciding, Fanning, DonePlaces,
         Closing, Reporting, SkipPlaces, ApplyPlaces, Evaluating, Applying, PromotePlaces
    <2> QED BY <2>3, <2>4, SetMoved
  <1>4. Moved(c, t)
    BY <1>3, ReturnMoved DEF ApplyReadsConfig
  <1> QED BY <1>2, <1>4, ReadHandlerStep DEF ApplyReadsConfig

\* and the recommendation.
LEMMA ApplyReadsLatestTyped ==
  ASSUME CycleTypeInv, NEW c \in Coordinators, NEW t \in Threads, ApplyReadsLatest(c, t)
  PROVE  CycleTypeInv' /\ Moved(c, t)
  <1> DEFINE g == call[c][t]
  <1>1. g \in Handler /\ HandlerOK(t, g) /\ g.at = "apply_latest"
    BY HandlerTyped DEF CycleTypeInv, HandlersOK, ApplyReadsLatest, At
  <1>2. ASSUME NEW seen \in {latest} \cup former.latest,
               seen.epoch > 0, g.cfg.version < MaxVersion,
               call' = [call EXCEPT ![c][t].at = "apply_cycle", ![c][t].rec = seen,
                                    ![c][t].cfg = Proposed(seen, g.cfg)]
        PROVE  Moved(c, t)
    <2> DEFINE new == Proposed(seen, g.cfg)
               h == [g EXCEPT !.at = "apply_cycle", !.rec = seen, !.cfg = new]
    <2>a. seen \in Recommendation
      BY DEF CycleTypeInv, TypeOK, StoreTypeOK
    <2>1. seen.epoch >= 1 /\ seen.count >= 1 /\ seen.target >= 1
      BY <1>2, <2>a DEF CycleTypeInv, RecordsOK, Recommendation, EpochIDs
    <2>2. g.cfg \in ConfigRecord
      BY <1>1 DEF HandlerOK, Evaluating
    <2>3. new \in ConfigRecord
      BY <1>2, <2>a, <2>1, <2>2 DEF Proposed, ConfigRecord, Versions, Shards, Recommendation
    <2>4. call' = [call EXCEPT ![c][t] = h]
      BY <1>2
    <2> HIDE DEF new
    <2>5. h \in Handler /\ h.at = "apply_cycle" /\ h.cfg = new /\ h.rec = seen
      BY <1>1, <2>a, <2>3 DEF Handler, Places
    <2> HIDE DEF g, h
    <2>6. HandlerOK(t, h)
      BY <1>1, <2>1, <2>3, <2>5 DEF HandlerOK, StartPlaces, Deciding, Fanning, DonePlaces,
       Closing, Reporting, SkipPlaces, ApplyPlaces, Evaluating, Applying, PromotePlaces
    <2> QED BY <2>4, <2>6, SetMoved
  <1>3. Moved(c, t)
    BY <1>2, ReturnMoved DEF ApplyReadsLatest
  <1>4. Counted
    BY SeesCounted DEF ApplyReadsLatest, Counted
  <1> QED BY <1>3, <1>4, ReadHandlerStep DEF ApplyReadsLatest

\* The shards of the proposal are dialled.
LEMMA ApplyConnectsTyped ==
  ASSUME CycleTypeInv, NEW c \in Coordinators, NEW t \in Threads, ApplyConnects(c, t)
  PROVE  CycleTypeInv' /\ Moved(c, t)
  <1> DEFINE g == call[c][t]
  <1>1. g \in Handler /\ HandlerOK(t, g) /\ g.at = "apply_connect"
    BY HandlerTyped DEF CycleTypeInv, HandlersOK, ApplyConnects, At
  <1>2. g.cfg.count \in Shards
    BY <1>1 DEF HandlerOK, Applying, ConfigRecord
  <1>3. /\ Goto(c, t, "apply_put") \/ Goto(c, t, "apply_failed")
        /\ clients' = [clients EXCEPT ![c] = @ \cup 1 .. g.cfg.count] \/ UNCHANGED clients
        /\ Fault \/ NoFault
        /\ UNCHANGED <<storeVars, shard, holder, local, timer, auto, historyVars>>
    BY DEF ApplyConnects
  <1>4. Moved(c, t)
    BY <1>1, <1>3, GotoMoved DEF Follows
  <1>5. RestOK
    BY TypeParts
  <1>6. clients' \in [Coordinators -> SUBSET Shards]
    <2>1. 1 .. g.cfg.count \subseteq Shards
      BY <1>2 DEF Shards
    <2> QED BY <1>3, <1>5, <2>1 DEF RestOK
  <1>7. used' \in Used
    BY <1>3, FaultTyped DEF Counted
  <1>8. RestOK'
    BY <1>3, <1>5, <1>6, <1>7 DEF RestOK, StoreTypeOK, RecordsOK, storeVars, historyVars
  <1> QED BY <1>4, <1>8, HandlerStep

\* The proposal is put.
LEMMA ApplyPutsConfigTyped ==
  ASSUME CycleTypeInv, NEW c \in Coordinators, NEW t \in Threads, ApplyPutsConfig(c, t)
  PROVE  CycleTypeInv' /\ Moved(c, t)
  <1> DEFINE g == call[c][t]
  <1>1. g \in Handler /\ HandlerOK(t, g) /\ g.at = "apply_put"
    BY HandlerTyped DEF CycleTypeInv, HandlersOK, ApplyPutsConfig, At
  <1>2. g.cfg \in ConfigRecord /\ g.rec \in Recommendation
    BY <1>1 DEF HandlerOK, Handler, Applying
  <1>3. /\ Goto(c, t, "apply_end") \/ Goto(c, t, "apply_failed")
        /\ \/ config' = g.cfg /\ applied' = applied \cup {<<g.rec, g.cfg>>}
           \/ UNCHANGED <<config, applied>>
        /\ Counted
        /\ Remembers
        /\ UNCHANGED <<epoch, snapshot, scaling, latest, cycle,
                       shard, holder, local, timer, clients, auto, committed, ran>>
    BY DEF ApplyPutsConfig, PutShardConfig, Counted, Remembers
  <1>4. Moved(c, t)
    BY <1>1, <1>3, GotoMoved DEF Follows
  <1>5. RestOK
    BY TypeParts
  <1> HIDE DEF g
  <1>6. config' \in ConfigRecord /\ applied' \subseteq Recommendation \X ConfigRecord
    BY <1>2, <1>3, <1>5 DEF RestOK, StoreTypeOK
  <1>7. used' \in Used /\ FormerOK'
    BY <1>3, FaultTyped, RemembersOK
  <1>8. RestOK'
    BY <1>3, <1>5, <1>6, <1>7 DEF RestOK, StoreTypeOK, RecordsOK, FormerOK
  <1> QED BY <1>4, <1>8, HandlerStep

\* The other steps of an application.
LEMMA ApplyQuietTyped ==
  ASSUME CycleTypeInv, NEW c \in Coordinators, NEW t \in Threads,
         \/ ApplyReadsEpoch(c, t) \/ ApplyReadsCycle(c, t) \/ ApplyBegins(c, t)
         \/ ApplyEnds(c, t) \/ ApplyFailsCycle(c, t)
  PROVE  CycleTypeInv' /\ Moved(c, t)
  <1>1. {"recommendation_ready", "scaling_in_progress", "scaling_applied", "failed"}
          \subseteq CycleStates
    BY DEF CycleStates
  <1>2. CASE ApplyReadsEpoch(c, t)
    <2>1. Moved(c, t)
      BY <1>2, GotoMoved, ReturnMoved DEF ApplyReadsEpoch, At, Follows
    <2>2. Counted
      BY <1>2, SeesCounted DEF ApplyReadsEpoch, Counted
    <2> QED BY <1>2, <2>1, <2>2, ReadHandlerStep DEF ApplyReadsEpoch
  <1>3. CASE ApplyReadsCycle(c, t)
    <2>1. Moved(c, t)
      BY <1>3, GotoMoved, ReturnMoved DEF ApplyReadsCycle, At, Follows
    <2>2. Counted
      BY <1>3, SeesCounted DEF ApplyReadsCycle, Counted
    <2> QED BY <1>3, <2>1, <2>2, ReadHandlerStep DEF ApplyReadsCycle
  <1>4. CASE ApplyBegins(c, t)
    <2>1. Goto(c, t, "apply_connect") => Moved(c, t)
      BY <1>4, GotoMoved DEF ApplyBegins, At, Follows
    <2>2. CycleStep("recommendation_ready", "scaling_in_progress",
                    Goto(c, t, "apply_connect"), Return(c, t, "err"))
      BY <1>4 DEF ApplyBegins
    <2> QED BY <1>1, <2>1, <2>2, ReturnMoved, CycleStepTyped
  <1>5. CASE ApplyEnds(c, t)
    <2>1. CycleStep("scaling_in_progress", "scaling_applied",
                    Return(c, t, "ok"), Return(c, t, "err"))
      BY <1>5 DEF ApplyEnds
    <2> QED BY <1>1, <2>1, ReturnMoved, CycleStepTyped
  <1>6. CASE ApplyFailsCycle(c, t)
    <2>1. CycleStep("scaling_in_progress", "failed", Return(c, t, "err"), Return(c, t, "err"))
      BY <1>6 DEF ApplyFailsCycle
    <2> QED BY <1>1, <2>1, ReturnMoved, CycleStepTyped
  <1> QED BY <1>2, <1>3, <1>4, <1>5, <1>6

\* The application keeps the types.
LEMMA ApplyStepsTyped ==
  ASSUME CycleTypeInv, NEW c \in Coordinators, NEW t \in Threads, ApplySteps(c, t)
  PROVE  CycleTypeInv' /\ Moved(c, t)
  BY ApplyReadsConfigTyped, ApplyReadsLatestTyped, ApplyConnectsTyped, ApplyPutsConfigTyped,
     ApplyQuietTyped DEF ApplySteps

\* The promotion reads the configuration,
LEMMA PromoteReadsConfigTyped ==
  ASSUME CycleTypeInv, NEW c \in Coordinators, NEW t \in Threads, PromoteReadsConfig(c, t)
  PROVE  CycleTypeInv' /\ Moved(c, t)
  <1> DEFINE g == call[c][t]
             new(old, s) == [old EXCEPT !.version = @ + 1,
                               !.swapped = IF s \in @ THEN @ \ {s} ELSE @ \cup {s}]
  <1>1. g \in Handler /\ HandlerOK(t, g) /\ g.at = "promote_config"
    BY HandlerTyped DEF CycleTypeInv, HandlersOK, PromoteReadsConfig, At
  <1>2. Counted
    BY SeesCounted DEF PromoteReadsConfig, Counted
  <1>3. ASSUME NEW old \in {config} \cup former.config, old.version < MaxVersion,
               NEW s \in 1 .. old.count,
               call' = [call EXCEPT ![c][t].at = "promote_put", ![c][t].cfg = new(old, s)]
        PROVE  Moved(c, t)
    <2> DEFINE cfg == new(old, s)
               h == [g EXCEPT !.at = "promote_put", !.cfg = cfg]
    <2>1. old \in ConfigRecord
      BY DEF CycleTypeInv, TypeOK, StoreTypeOK
    <2>2. s \in Shards
      BY <2>1 DEF ConfigRecord, Shards
    <2>3. cfg \in ConfigRecord
      <3> DEFINE pairs == IF s \in old.swapped THEN old.swapped \ {s}
                                               ELSE old.swapped \cup {s}
      <3>1. pairs \in SUBSET Shards /\ old.version + 1 \in Versions
        BY <1>3, <2>1, <2>2 DEF ConfigRecord, Versions
      <3>2. cfg = [old EXCEPT !.version = old.version + 1, !.swapped = pairs]
        BY <2>1 DEF ConfigRecord
      <3> HIDE DEF pairs, cfg
      <3> QED BY <2>1, <3>1, <3>2 DEF ConfigRecord
    <2>4. call' = [call EXCEPT ![c][t] = h]
      BY <1>3
    <2> HIDE DEF cfg
    <2>5. h \in Handler /\ h.at = "promote_put" /\ h.cfg = cfg
      BY <1>1, <2>3 DEF Handler, Places
    <2> HIDE DEF g, h
    <2>6. HandlerOK(t, h)
      BY <1>1, <2>3, <2>5 DEF HandlerOK, StartPlaces, Deciding, Fanning, DonePlaces,
       Closing, Reporting, SkipPlaces, ApplyPlaces, Evaluating, Applying, PromotePlaces
    <2> QED BY <2>4, <2>6, SetMoved
  <1> HIDE DEF g
  <1>4. Moved(c, t)
    BY <1>3, ReturnMoved DEF PromoteReadsConfig
  <1> QED BY <1>2, <1>4, ReadHandlerStep DEF PromoteReadsConfig

\* and puts it.
LEMMA PromotePutsConfigTyped ==
  ASSUME CycleTypeInv, NEW c \in Coordinators, NEW t \in Threads, PromotePutsConfig(c, t)
  PROVE  CycleTypeInv' /\ Moved(c, t)
  <1> DEFINE g == call[c][t]
  <1>1. HandlerOK(t, g) /\ g.at = "promote_put"
    BY DEF CycleTypeInv, HandlersOK, PromotePutsConfig, At
  <1>2. g.cfg \in ConfigRecord
    BY <1>1 DEF HandlerOK
  <1>3. /\ Return(c, t, "ok") \/ Return(c, t, "err")
        /\ config' = g.cfg \/ UNCHANGED config
        /\ Counted
        /\ Remembers
        /\ UNCHANGED <<epoch, snapshot, scaling, latest, cycle,
                       shard, holder, local, timer, clients, auto, historyVars>>
    BY DEF PromotePutsConfig, PutShardConfig, Counted, Remembers
  <1>4. Moved(c, t)
    BY <1>3, ReturnMoved
  <1>5. RestOK
    BY TypeParts
  <1>a. used' \in Used /\ FormerOK'
    BY <1>3, FaultTyped, RemembersOK
  <1> HIDE DEF g
  <1>6. RestOK'
    BY <1>2, <1>3, <1>5, <1>a DEF RestOK, StoreTypeOK, RecordsOK, FormerOK, historyVars
  <1> QED BY <1>4, <1>6, HandlerStep

\* A step of a called handler keeps the types.
LEMMA RpcStepsTyped ==
  ASSUME CycleTypeInv, NEW c \in Coordinators, NEW t \in Threads, RpcSteps(c, t)
  PROVE  CycleTypeInv' /\ Moved(c, t)
  BY StartStepsTyped, ApplyStepsTyped, SkipTyped, PromoteReadsConfigTyped,
     PromotePutsConfigTyped DEF RpcSteps, AdminSteps

-----------------------------------------------------------------------------
(***************************************************************************)
(* The autoscaler, take-overs and crashes keep the types                   *)
(***************************************************************************)

\* The autoscaler, by itself.
AutoOK ==
  /\ auto \in [at : AutoPlaces, rec : Recommendation, rpc : AutoRpcs \cup {Timer}]
  /\ auto.at \in {"dry_wait", "apply_wait"} => auto.rpc \in AutoRpcs

\* The autoscaler goes on, or starts over.
LEMMA AutoMoves ==
  ASSUME AutoOK, \/ \E place \in AutoPlaces \ {"dry_wait", "apply_wait"} : AutoGoto(place)
                 \/ AutoStop
  PROVE  AutoOK'
  <1>1. CASE \E place \in AutoPlaces \ {"dry_wait", "apply_wait"} : AutoGoto(place)
    BY <1>1 DEF AutoOK, AutoGoto
  <1>2. CASE AutoStop
    BY <1>2 DEF AutoOK, AutoStop, AutoPlaces, NoRecommendation, Recommendation, EpochIDs
  <1> QED BY <1>1, <1>2

\* A step of the autoscaler that leaves the store alone.
LEMMA AutoQuietStep ==
  ASSUME CycleTypeInv, AutoOK', Counted,
         UNCHANGED <<storeVars, shard, holder, local, timer, clients, historyVars>>
  PROVE  RestOK'
  <1>1. RestOK
    BY TypeParts
  <1>2. used' \in Used
    BY FaultTyped
  <1> QED BY <1>1, <1>2 DEF RestOK, AutoOK, StoreTypeOK, RecordsOK, storeVars, historyVars

\* A transition of the cycle by the autoscaler.
LEMMA AutoCycleStep ==
  ASSUME CycleTypeInv, NEW from \in CycleStates, NEW to \in CycleStates,
         NEW done, NEW refused, CyclePut(from, to, done, refused),
         done => AutoOK', refused => AutoOK'
  PROVE  RestOK'
  <1>1. RestOK
    BY TypeParts
  <1>2. /\ cycle' \in {cycle, to}
        /\ Counted
        /\ Remembers
        /\ AutoOK'
        /\ UNCHANGED <<epoch, config, snapshot, scaling, latest,
                       shard, holder, local, timer, clients, historyVars>>
    BY DEF CyclePut, PutEpochCycleTransition, Counted, Remembers
  <1>3. used' \in Used /\ FormerOK'
    BY <1>2, FaultTyped, RemembersOK
  <1> QED BY <1>1, <1>2, <1>3 DEF RestOK, AutoOK, StoreTypeOK, RecordsOK, FormerOK, historyVars

\* A step that leaves the handlers alone.
LEMMA NoHandlerStep ==
  ASSUME CycleTypeInv, RestOK', UNCHANGED call
  PROVE  CycleTypeInv'
  BY DEF CycleTypeInv, HandlersOK, RestOK, TypeOK, Handler

\* The autoscaler reads, writes and gives up.
LEMMA AutoAloneTyped ==
  ASSUME CycleTypeInv,
         \/ AutoReadsCycle \/ AutoReadsLatest \/ AutoReadsConfig \/ AutoReadsEpoch \/ AutoBegins
         \/ AutoFails \/ AutoSkips \/ AutoTimesOut
  PROVE  CycleTypeInv' /\ UNCHANGED call
  <1>1. /\ AutoOK
        /\ {"latest", "config", "epoch", "begin", "dry", "skip_begin", "skip_end",
            "failed_ready", "failed"} \subseteq AutoPlaces \ {"dry_wait", "apply_wait"}
        /\ {"recommendation_ready", "scaling_in_progress", "scaling_skipped", "failed"}
             \subseteq CycleStates
    BY DEF CycleTypeInv, TypeOK, RecordsOK, AutoOK, AutoPlaces, CycleStates
  <1>2. UNCHANGED call
    BY DEF AutoReadsCycle, AutoReadsLatest, AutoReadsConfig, AutoReadsEpoch, AutoBegins,
       AutoFails, AutoSkips, AutoTimesOut
  <1>3. ASSUME AutoReadsCycle PROVE RestOK'
    <2>1. AutoGoto("latest") /\ Counted
      BY <1>3, SeesCounted DEF AutoReadsCycle
    <2> QED BY <1>1, <1>3, <2>1, AutoMoves, AutoQuietStep DEF AutoReadsCycle
  <1>4. ASSUME AutoReadsLatest PROVE RestOK'
    <2>1. ASSUME NEW seen \in {latest} \cup former.latest,
                 auto' = [auto EXCEPT !.at = "config", !.rec = seen]
          PROVE  AutoOK'
      BY <1>1, <2>1 DEF AutoOK, CycleTypeInv, TypeOK, StoreTypeOK
    <2>2. Counted
      BY <1>4, SeesCounted DEF AutoReadsLatest, Counted
    <2>3. AutoOK'
      BY <1>1, <1>4, <2>1, AutoMoves DEF AutoReadsLatest
    <2> QED BY <1>4, <2>2, <2>3, AutoQuietStep DEF AutoReadsLatest
  <1>5. ASSUME AutoReadsConfig PROVE RestOK'
    <2>1. AutoGoto("epoch") \/ AutoGoto("skip_begin") \/ AutoGoto("failed_ready")
      BY <1>5 DEF AutoReadsConfig
    <2>2. Counted
      BY <1>5, SeesCounted DEF AutoReadsConfig, Counted
    <2> QED BY <1>1, <1>5, <2>1, <2>2, AutoMoves, AutoQuietStep DEF AutoReadsConfig
  <1>6. ASSUME AutoReadsEpoch PROVE RestOK'
    <2>1. AutoGoto("begin") \/ AutoGoto("failed_ready")
      BY <1>6 DEF AutoReadsEpoch
    <2>2. Counted
      BY <1>6, SeesCounted DEF AutoReadsEpoch
    <2> QED BY <1>1, <1>6, <2>1, <2>2, AutoMoves, AutoQuietStep DEF AutoReadsEpoch
  <1>7. ASSUME AutoBegins PROVE RestOK'
    <2>1. CyclePut("recommendation_ready", "scaling_in_progress", AutoGoto("dry"), AutoStop)
      BY <1>7 DEF AutoBegins
    <2>2. (AutoGoto("dry") => AutoOK') /\ (AutoStop => AutoOK')
      BY <1>1, AutoMoves
    <2> QED BY <1>1, <2>1, <2>2, AutoCycleStep
  <1>8. ASSUME AutoFails PROVE RestOK'
    <2>1. \/ CyclePut("scaling_in_progress", "failed", AutoStop, AutoStop)
          \/ CyclePut("recommendation_ready", "failed", AutoStop, AutoStop)
      BY <1>8 DEF AutoFails
    <2>2. AutoStop => AutoOK'
      BY <1>1, AutoMoves
    <2> QED BY <1>1, <2>1, <2>2, AutoCycleStep
  <1>9. ASSUME AutoSkips PROVE RestOK'
    <2>1. \/ CyclePut("recommendation_ready", "scaling_in_progress", AutoGoto("skip_end"), AutoStop)
          \/ CyclePut("scaling_in_progress", "scaling_skipped", AutoStop, AutoStop)
      BY <1>9 DEF AutoSkips
    <2>2. (AutoGoto("skip_end") => AutoOK') /\ (AutoStop => AutoOK')
      BY <1>1, AutoMoves
    <2> QED BY <1>1, <2>1, <2>2, AutoCycleStep
  <1>10. ASSUME AutoTimesOut PROVE RestOK'
    <2>1. AutoOK'
      BY <1>1, <1>10 DEF AutoTimesOut, AutoOK
    <2>2. RestOK
      BY TypeParts
    <2>3. used \in Used
      BY <2>2 DEF RestOK
    <2>4. used' \in Used
      BY <1>10, <2>3 DEF AutoTimesOut, Used, Unspent
    <2> QED BY <1>10, <2>1, <2>2, <2>4
            DEF AutoTimesOut, AutoOK, RestOK, StoreTypeOK, RecordsOK, storeVars, historyVars
  <1>11. RestOK'
    BY <1>3, <1>4, <1>5, <1>6, <1>7, <1>8, <1>9, <1>10
  <1> QED BY <1>2, <1>11, NoHandlerStep

\* The autoscaler sends the RPC,
LEMMA AutoCallsTyped ==
  ASSUME CycleTypeInv, AutoCalls
  PROVE  /\ CycleTypeInv'
         /\ \/ UNCHANGED call
            \/ \E t \in AutoRpcs : Moved(AutoTarget, t)
  <1>1. AutoOK /\ {"dry_wait", "apply_wait", "failed"} \subseteq AutoPlaces
    BY DEF CycleTypeInv, TypeOK, RecordsOK, AutoOK, AutoPlaces
  <1>2. /\ Counted
        /\ UNCHANGED <<storeVars, shard, holder, local, timer, clients, historyVars>>
    BY DEF AutoCalls, Counted
  <1>3. CASE AutoGoto("failed") /\ UNCHANGED call
    <2>1. AutoOK'
      BY <1>1, <1>3, AutoMoves
    <2> QED BY <1>2, <1>3, <2>1, AutoQuietStep, NoHandlerStep
  <1>4. CASE \E t \in AutoRpcs :
               /\ Apply(AutoTarget, t, auto.at = "dry")
               /\ auto' = [auto EXCEPT !.at = IF auto.at = "dry" THEN "dry_wait" ELSE "apply_wait",
                                       !.rpc = t]
    <2>1. PICK t \in AutoRpcs :
               /\ Apply(AutoTarget, t, auto.at = "dry")
               /\ auto' = [auto EXCEPT !.at = IF auto.at = "dry" THEN "dry_wait" ELSE "apply_wait",
                                       !.rpc = t]
      BY <1>4
    <2>2. AutoOK'
      BY <1>1, <2>1 DEF AutoOK
    <2>3. t \in Threads /\ Moved(AutoTarget, t)
      BY <2>1, ApplyMoved DEF Threads, Rpcs
    <2> QED BY <1>2, <2>2, <2>3, AutoQuietStep, HandlerStep
  <1> QED BY <1>3, <1>4 DEF AutoCalls

\* and gets the answer.
LEMMA AutoAnsweredTyped ==
  ASSUME CycleTypeInv, AutoAnswered
  PROVE  /\ CycleTypeInv'
         /\ Moved(AutoTarget, auto.rpc)
         /\ call'[AutoTarget][auto.rpc] = Idle
         /\ auto.rpc \in AutoRpcs
  <1>1. AutoOK /\ {"apply", "failed"} \subseteq AutoPlaces
    BY DEF CycleTypeInv, TypeOK, RecordsOK, AutoOK, AutoPlaces
  <1>2. auto.rpc \in AutoRpcs /\ auto.rpc \in Threads
    BY <1>1 DEF AutoAnswered, AutoOK, Threads, Rpcs
  <1>3. call' = [call EXCEPT ![AutoTarget][auto.rpc] = Idle]
    BY DEF AutoAnswered
  <1>4. Moved(AutoTarget, auto.rpc) /\ call'[AutoTarget][auto.rpc] = Idle
    BY <1>2, <1>3, IdleOK, SetMoved
  <1>5. AutoOK'
    <2>1. \/ AutoStop
          \/ auto' = [auto EXCEPT !.at = "apply", !.rpc = Timer]
          \/ auto' = [auto EXCEPT !.at = "failed", !.rpc = Timer]
      BY DEF AutoAnswered
    <2>2. ASSUME NEW place \in {"apply", "failed"},
                 auto' = [auto EXCEPT !.at = place, !.rpc = Timer]
          PROVE  AutoOK'
      BY <1>1, <2>2 DEF AutoOK
    <2> QED BY <1>1, <2>1, <2>2, AutoMoves
  <1>6. RestOK'
    BY <1>5, AutoQuietStep DEF AutoAnswered, NoFault, Counted
  <1> QED BY <1>2, <1>4, <1>6, HandlerStep

\* A coordinator crashes.
LEMMA CrashTyped ==
  ASSUME CycleTypeInv, NEW c \in Coordinators, Crash(c)
  PROVE  /\ CycleTypeInv'
         /\ \A t \in Threads : call'[c][t].at \in Ended
         /\ \A d \in Coordinators, t \in Threads : d # c => call'[d][t] = call[d][t]
  <1> DEFINE h(t) == IF Awaited(c, t) THEN [Idle EXCEPT !.at = "err"] ELSE Idle
  <1>1. \A t \in Threads : h(t) \in Handler /\ h(t).at \in Ended
    BY IdleOK DEF Handler, Places, Idle, Ended
  <1>2. \A t \in Threads : h(t).at # "idle" => t \in AutoRpcs
    BY DEF Idle, Awaited
  <1>3. call' = [call EXCEPT ![c] = [t \in Threads |-> h(t)]]
    BY DEF Crash
  <1>4. call \in [Coordinators -> [Threads -> Handler]]
    BY TypeParts
  <1> HIDE DEF h
  <1>5. /\ call' \in [Coordinators -> [Threads -> Handler]]
        /\ \A t \in Threads : call'[c][t] = h(t)
        /\ \A d \in Coordinators, t \in Threads : d # c => call'[d][t] = call[d][t]
    BY <1>1, <1>3, <1>4
  <1>6. \A t \in Threads : HandlerOK(t, h(t))
    BY <1>1, <1>2 DEF HandlerOK, StartPlaces, Deciding, Fanning, DonePlaces,
       Closing, Reporting, SkipPlaces, ApplyPlaces, Evaluating, Applying, PromotePlaces, Ended
  <1>7. HandlersOK'
    BY <1>5, <1>6 DEF CycleTypeInv, HandlersOK
  <1>8. RestOK
    BY TypeParts
  <1>9. used' \in Used
    <2>1. used \in Used
      BY <1>8 DEF RestOK
    <2>2. used.crashes + 1 \in 0 .. MaxMishaps /\ used.misreads + 1 \in 0 .. MaxMishaps
      BY <2>1 DEF Crash, Used, Unspent
    <2>3. \/ used' = [used EXCEPT !.crashes = @ + 1]
          \/ used' = [used EXCEPT !.crashes = @ + 1, !.misreads = @ + 1]
      BY DEF Crash
    <2>4. CASE used' = [used EXCEPT !.crashes = @ + 1]
      BY <2>1, <2>2, <2>4 DEF Used
    <2>5. CASE used' = [used EXCEPT !.crashes = @ + 1, !.misreads = @ + 1]
      BY <2>1, <2>2, <2>5 DEF Used
    <2> QED BY <2>3, <2>4, <2>5
  <1>10. /\ local' \in [Coordinators -> [id : EpochIDs,
                         state : {"NoActive", "Active", "Completed"}, count : 0 .. MaxShards]]
         /\ \A d \in Coordinators : local'[d].state = "Active" =>
              local'[d].id >= 1 /\ local'[d].count >= 1
    <2> DEFINE Local == [id : EpochIDs, state : {"NoActive", "Active", "Completed"},
                         count : 0 .. MaxShards]
    <2>1. NoLocalEpoch \in Local /\ NoLocalEpoch.state # "Active"
      BY DEF NoLocalEpoch, EpochIDs
    <2>2. local \in [Coordinators -> Local] /\ local' = [local EXCEPT ![c] = NoLocalEpoch]
      BY <1>8 DEF RestOK, Crash
    <2> HIDE DEF Local
    <2>3. /\ local' \in [Coordinators -> Local]
          /\ \A d \in Coordinators : local'[d].state = "Active" =>
               local'[d].id >= 1 /\ local'[d].count >= 1
      BY <1>8, <2>1, <2>2 DEF RestOK, RecordsOK
    <2> QED BY <2>3 DEF Local
  <1>11. timer' \in [Coordinators -> BOOLEAN]
    BY <1>8 DEF RestOK, Crash
  <1>12. clients' \in [Coordinators -> SUBSET Shards]
    <2>1. PICK n \in {cfg.count : cfg \in {config} \cup former.config} \cup {MaxShards} :
            clients' = [clients EXCEPT ![c] = 1 .. n]
      BY DEF Crash
    <2>2. n \in Shards
      BY <1>8, <2>1 DEF RestOK, StoreTypeOK, ConfigRecord, Shards
    <2>3. 1 .. n \subseteq Shards
      BY <2>2 DEF Shards
    <2> QED BY <1>8, <2>1, <2>3 DEF RestOK
  <1>13. RestOK'
    BY <1>8, <1>9, <1>10, <1>11, <1>12
       DEF Crash, RestOK, StoreTypeOK, RecordsOK, storeVars, historyVars
  <1>14. CycleTypeInv'
    BY <1>5, <1>7, <1>13 DEF CycleTypeInv, RestOK, TypeOK, Handler
  <1> QED BY <1>1, <1>5, <1>14

\* The lease moves, and a shard goes on.
LEMMA OutsideTyped ==
  ASSUME CycleTypeInv, \/ \E c \in Coordinators : TakeOver(c)
                       \/ \E s \in Shards : ShardEpochEnds(s)
  PROVE  CycleTypeInv' /\ UNCHANGED call
  <1>1. RestOK
    BY TypeParts
  <1>2. CASE \E c \in Coordinators : TakeOver(c)
    <2>1. holder' \in Coordinators /\ UNCHANGED <<storeVars, shard, local, timer, clients, call,
                                                 auto, historyVars>>
      BY <1>2 DEF TakeOver
    <2>2. used' \in Used
      BY <1>1, <1>2 DEF RestOK, TakeOver, Unspent, Used
    <2>3. RestOK'
      BY <1>1, <2>1, <2>2 DEF RestOK, StoreTypeOK, RecordsOK, storeVars, historyVars
    <2> QED BY <2>1, <2>3, NoHandlerStep
  <1>3. CASE \E s \in Shards : ShardEpochEnds(s)
    <2>1. UNCHANGED <<storeVars, holder, local, timer, clients, call, auto, used, historyVars>>
      BY <1>3 DEF ShardEpochEnds
    <2>2. shard' \in [Shards -> [id : EpochIDs,
                                state : {"NoActive", "Active", "Merging", "Completed"}]]
      <3> DEFINE Leader == [id : EpochIDs, state : {"NoActive", "Active", "Merging", "Completed"}]
      <3>1. PICK s \in Shards, state \in {"Merging", "Completed"} :
              shard' = [shard EXCEPT ![s].state = state]
        BY <1>3 DEF ShardEpochEnds
      <3>2. shard \in [Shards -> Leader]
        BY <1>1 DEF RestOK
      <3>3. [shard[s] EXCEPT !.state = state] \in Leader
        BY <3>2
      <3>4. shard' = [shard EXCEPT ![s] = [shard[s] EXCEPT !.state = state]]
        BY <3>1
      <3> HIDE DEF Leader
      <3>5. shard' \in [Shards -> Leader]
        BY <3>2, <3>3, <3>4
      <3> QED BY <3>5 DEF Leader
    <2>3. RestOK'
      BY <1>1, <2>1, <2>2 DEF RestOK, StoreTypeOK, RecordsOK, storeVars, historyVars
    <2> QED BY <2>1, <2>3, NoHandlerStep
  <1> QED BY <1>2, <1>3

-----------------------------------------------------------------------------
(***************************************************************************)
(* Type correctness                                                        *)
(***************************************************************************)

\* The initial state has the types.
LEMMA CycleInitTyped == Init => CycleTypeInv
  <1> SUFFICES ASSUME Init PROVE CycleTypeInv
    OBVIOUS
  <1>1. call = [c \in Coordinators |-> [t \in Threads |-> Idle]]
    BY DEF Init
  <1>2. call \in [Coordinators -> [Threads -> Handler]] /\ HandlersOK
    BY <1>1, IdleOK DEF HandlersOK
  <1>3. StoreTypeOK
    <2>1. config \in ConfigRecord /\ epoch \in EpochRecord
      BY DEF Init, StoreInit, ConfigRecord, Versions, Shards, EpochRecord, EpochIDs
    <2>2. latest \in Recommendation /\ cycle \in CycleStates
      BY DEF Init, StoreInit, NoRecommendation, Recommendation, EpochIDs, CycleStates
    <2> QED BY <2>1, <2>2 DEF Init, StoreInit, StoreTypeOK
  <1>4. shard \in [Shards -> [id : EpochIDs, state : {"NoActive", "Active", "Merging", "Completed"}]]
    BY DEF Init, EpochIDs
  <1>5. /\ holder \in Coordinators
        /\ local \in [Coordinators -> [id : EpochIDs, state : {"NoActive", "Active", "Completed"},
                                       count : 0 .. MaxShards]]
        /\ \A c \in Coordinators : local[c].state # "Active"
    BY DEF Init, NoLocalEpoch, EpochIDs
  <1>6. timer \in [Coordinators -> BOOLEAN] /\ clients \in [Coordinators -> SUBSET Shards]
    BY DEF Init, Shards
  <1>7. /\ auto \in [at : AutoPlaces, rec : Recommendation, rpc : AutoRpcs \cup {Timer}]
        /\ auto.at = "idle"
    BY DEF Init, NoRecommendation, Recommendation, EpochIDs, AutoPlaces
  <1>8. used \in Used
    BY DEF Init, Used
  <1>9. committed = {} /\ ran \in [Shards -> SUBSET (1 .. MaxEpoch)] /\ applied = {}
        /\ latest.epoch = 0 /\ former.latest = {}
    BY DEF Init, StoreInit, NoRecommendation
  <1>10. RestOK
    BY <1>3, <1>4, <1>5, <1>6, <1>7, <1>8, <1>9 DEF RestOK, RecordsOK
  <1> QED BY <1>2, <1>10, TypeParts

\* Every step keeps the types.
LEMMA CycleStepTypes == CycleTypeInv /\ [Next]_vars => CycleTypeInv'
  <1> SUFFICES ASSUME CycleTypeInv, [Next]_vars PROVE CycleTypeInv'
    OBVIOUS
  <1>1. CASE AutoSteps \/ AutoTimesOut
    BY <1>1, AutoAloneTyped, AutoCallsTyped, AutoAnsweredTyped DEF AutoSteps
  <1>2. CASE \E s \in Shards : ShardEpochEnds(s)
    BY <1>2, OutsideTyped
  <1>3. ASSUME NEW c \in Coordinators, TimerFires(c) \/ CompleteSteps(c) \/ TakeOver(c) \/ Crash(c)
        PROVE  CycleTypeInv'
    BY <1>3, TimerFiresTyped, CompleteStepsTyped, OutsideTyped, CrashTyped
  <1>4. ASSUME NEW c \in Coordinators, NEW t \in Rpcs,
               \/ \E id \in RequestIDs : StartEpoch(c, t, id)
               \/ ApplyScalingRecommendation(c, t)
               \/ SkipScalingRecommendation(c, t)
               \/ PromoteShardStandby(c, t)
        PROVE  CycleTypeInv'
    <2>1. t \in Threads
      BY DEF Threads
    <2> QED BY <1>4, <2>1, StartEpochTyped, CallsTyped
  <1>5. ASSUME NEW c \in Coordinators, NEW t \in Threads, RpcSteps(c, t)
        PROVE  CycleTypeInv'
    BY <1>5, RpcStepsTyped
  <1>6. CASE UNCHANGED vars
    <2>1. RestOK'
      BY <1>6, TypeParts, RestKept DEF vars, cycleVars
    <2> QED BY <1>6, <2>1, NoHandlerStep DEF vars, cycleVars
  <1> QED BY <1>1, <1>2, <1>3, <1>4, <1>5, <1>6 DEF Next

\* EpochCycle is type correct, and a handler carries an epoch, a configuration
\* and a recommendation wherever StartEpoch, completeEpoch and
\* ApplyScalingRecommendation use one.
THEOREM CycleTypeCorrect == Spec => []TypeOK
  <1>1. Spec => []CycleTypeInv
    BY CycleInitTyped, CycleStepTypes, PTL DEF Spec
  <1>2. CycleTypeInv => TypeOK
    BY DEF CycleTypeInv
  <1> QED BY <1>1, <1>2, PTL

-----------------------------------------------------------------------------
(***************************************************************************)
(* Where the steps lead, and what they leave alone                         *)
(***************************************************************************)

\* Handlers that change are at one of places then.
OnlyTo(places) ==
  \A d \in Coordinators, u \in Threads : call'[d][u] = call[d][u] \/ call'[d][u].at \in places

\* A handler that moved, moved there.
LEMMA MovedOnlyTo ==
  ASSUME NEW c, NEW t, Moved(c, t), NEW places, call'[c][t].at \in places
  PROVE  OnlyTo(places)
  BY DEF Moved, Becomes, OnlyTo

\* A change of place.
LEMMA GotoOnlyTo ==
  ASSUME CycleTypeInv, NEW c \in Coordinators, NEW t \in Threads, NEW place,
         Follows(call[c][t].at, place), Goto(c, t, place), NEW places, place \in places
  PROVE  OnlyTo(places)
  <1>1. Moved(c, t) /\ call'[c][t] = [call[c][t] EXCEPT !.at = place]
    BY GotoMoved
  <1>2. call'[c][t].at = place
    BY <1>1, HandlerTyped DEF Handler
  <1> QED BY <1>1, <1>2, MovedOnlyTo

\* A return.
LEMMA ReturnOnlyTo ==
  ASSUME CycleTypeInv, NEW c \in Coordinators, NEW t \in Threads, NEW answer \in {"ok", "err"},
         Return(c, t, answer), NEW places, Ended \subseteq places
  PROVE  OnlyTo(places)
  BY ReturnMoved, MovedOnlyTo

\* Some fields are replaced, the place among them.
LEMMA SetOnlyTo ==
  ASSUME CycleTypeInv, NEW c \in Coordinators, NEW t \in Threads, NEW h,
         call' = [call EXCEPT ![c][t] = h], NEW places, h.at \in places
  PROVE  OnlyTo(places)
  <1>1. call \in [Coordinators -> [Threads -> Handler]]
    BY HandlerTyped
  <1>2. call' = [call EXCEPT ![c] = [call[c] EXCEPT ![t] = h]]
    OBVIOUS
  <1> QED BY <1>1, <1>2 DEF OnlyTo

\* What a transition of the cycle leads to.
LEMMA CyclePutEffect ==
  ASSUME NEW from, NEW to, NEW done, NEW refused, CyclePut(from, to, done, refused)
  PROVE  /\ done \/ refused
         /\ Counted
         /\ UNCHANGED <<epoch, config, snapshot, scaling, latest,
                        shard, holder, local, timer, clients, historyVars>>
         /\ Remembers
  BY DEF CyclePut, PutEpochCycleTransition, Remembers, Counted

\* The completion of an epoch.
LEMMA CompleteProfile ==
  ASSUME CycleTypeInv, NEW c \in Coordinators, TimerFires(c) \/ CompleteSteps(c)
  PROVE  /\ OnlyTo(DonePlaces \cup {"skip_begin"} \cup Ended)
         /\ UNCHANGED <<config, snapshot, shard, holder, clients, auto, historyVars>>
         /\ Counted
  <1> DEFINE places == DonePlaces \cup {"skip_begin"} \cup Ended
  <1>1. Timer \in Threads /\ Ended \subseteq places /\ "done_decide" \in places
    BY DEF Threads, DonePlaces
  <1>2. call[c][Timer] \in Handler
    BY <1>1, HandlerTyped
  <1>3. CASE TimerFires(c)
    <2>1. [Idle EXCEPT !.at = "done_decide"].at = "done_decide"
      BY DEF Idle
    <2>2. call' = [call EXCEPT ![c][Timer] = [Idle EXCEPT !.at = "done_decide"]]
      BY <1>3 DEF TimerFires
    <2>3. OnlyTo(places)
      BY <1>1, <2>1, <2>2, SetOnlyTo
    <2> QED BY <1>3, <2>3 DEF TimerFires, storeVars, NoFault, Counted
  <1>4. CASE CompleteEpochDecision(c)
    <2> DEFINE h == [call[c][Timer] EXCEPT !.at = "done_lease", !.id = local[c].id]
    <2>1. Return(c, Timer, "err") \/ call' = [call EXCEPT ![c][Timer] = h]
      <3>1. \/ Return(c, Timer, "err")
            \/ call' = [call EXCEPT ![c][Timer].at = "done_lease", ![c][Timer].id = local[c].id]
        BY <1>4 DEF CompleteEpochDecision
      <3>2. ASSUME call' = [call EXCEPT ![c][Timer].at = "done_lease", ![c][Timer].id = local[c].id]
            PROVE  call' = [call EXCEPT ![c][Timer] = h]
        BY <3>2
      <3> QED BY <3>1, <3>2
    <2>2. h.at \in places
      BY <1>2 DEF Handler, DonePlaces, Closing
    <2> HIDE DEF h, places
    <2>3. OnlyTo(places)
      BY <1>1, <2>1, <2>2, SetOnlyTo, ReturnOnlyTo
    <2> QED BY <1>4, <2>3 DEF CompleteEpochDecision, storeVars, NoFault, Counted, places
  <1>5. CASE CompleteRequiresLease(c)
    <2>1. /\ Goto(c, Timer, "done_commit") \/ Return(c, Timer, "err")
          /\ Follows(call[c][Timer].at, "done_commit") /\ "done_commit" \in places
      BY <1>5 DEF CompleteRequiresLease, At, Follows, DonePlaces, Closing
    <2> HIDE DEF places
    <2>2. OnlyTo(places)
      BY <1>1, <2>1, GotoOnlyTo, ReturnOnlyTo
    <2> QED BY <1>5, <2>2 DEF CompleteRequiresLease, storeVars, NoFault, Counted, places
  <1>6. CASE CommitCompletedEpoch(c)
    <2> DEFINE h(target) == [call[c][Timer] EXCEPT !.at = "done_store",
                               !.rec = [epoch |-> call[c][Timer].id, version |-> 0,
                                        count |-> local[c].count, target |-> target]]
    <2>1. \/ Return(c, Timer, "err")
          \/ \E target \in Shards : call' = [call EXCEPT ![c][Timer] = h(target)]
      <3>1. \/ Return(c, Timer, "err")
            \/ \E target \in Shards :
                 call' = [call EXCEPT ![c][Timer].at = "done_store",
                            ![c][Timer].rec = [epoch |-> call[c][Timer].id, version |-> 0,
                                               count |-> local[c].count, target |-> target]]
        BY <1>6 DEF CommitCompletedEpoch
      <3>2. ASSUME NEW target \in Shards,
                   call' = [call EXCEPT ![c][Timer].at = "done_store",
                              ![c][Timer].rec = [epoch |-> call[c][Timer].id, version |-> 0,
                                                 count |-> local[c].count, target |-> target]]
            PROVE  call' = [call EXCEPT ![c][Timer] = h(target)]
        BY <3>2
      <3> QED BY <3>1, <3>2
    <2>2. \A target \in Shards : h(target).at \in places
      BY <1>2 DEF Handler, DonePlaces, Reporting
    <2> HIDE DEF h, places
    <2>3. OnlyTo(places)
      BY <1>1, <2>1, <2>2, SetOnlyTo, ReturnOnlyTo
    <2> QED BY <1>6, <2>3 DEF CommitCompletedEpoch, storeVars, NoFault, Counted, places
  <1>7. CASE CompleteWritesStore(c)
    <2>1. /\ Goto(c, Timer, "done_version") \/ Return(c, Timer, "err")
          /\ Follows(call[c][Timer].at, "done_version") /\ "done_version" \in places
      BY <1>7 DEF CompleteWritesStore, At, Follows, DonePlaces, Reporting
    <2> HIDE DEF places
    <2>2. OnlyTo(places)
      BY <1>1, <2>1, GotoOnlyTo, ReturnOnlyTo
    <2> QED BY <1>7, <2>2 DEF CompleteWritesStore, places, Counted
  <1>8. CASE CompleteReadsVersion(c)
    <2>a. PICK seen \in {config} \cup former.config :
            /\ Sees(seen, config)
            /\ call' = [call EXCEPT ![c][Timer].at = "done_scaling",
                          ![c][Timer].rec = [call[c][Timer].rec EXCEPT !.version = seen.version]]
      BY <1>8 DEF CompleteReadsVersion
    <2> DEFINE h == [call[c][Timer] EXCEPT !.at = "done_scaling",
                       !.rec = [call[c][Timer].rec EXCEPT !.version = seen.version]]
    <2>1. call' = [call EXCEPT ![c][Timer] = h]
      BY <2>a
    <2>2. h.at \in places
      BY <1>2 DEF Handler, DonePlaces, Reporting
    <2> HIDE DEF h, places
    <2>3. OnlyTo(places)
      BY <1>1, <2>1, <2>2, SetOnlyTo
    <2> QED BY <1>8, <2>a, <2>3, SeesCounted DEF CompleteReadsVersion, storeVars, places
  <1>9. CASE CompletePutsScaling(c)
    <2>1. /\ Goto(c, Timer, "done_ready") \/ Goto(c, Timer, "done_failed")
          /\ Follows(call[c][Timer].at, "done_ready") /\ Follows(call[c][Timer].at, "done_failed")
          /\ {"done_ready", "done_failed"} \subseteq places
      BY <1>9 DEF CompletePutsScaling, At, Follows, DonePlaces, Reporting
    <2> HIDE DEF places
    <2>2. OnlyTo(places)
      BY <1>1, <2>1, GotoOnlyTo
    <2> QED BY <1>9, <2>2 DEF CompletePutsScaling, places, Counted
  <1>10. CASE CompleteFailsCycle(c)
    <2>1. /\ CyclePut("active", "failed", Return(c, Timer, "err"), Return(c, Timer, "err"))
          /\ UNCHANGED auto
      BY <1>10 DEF CompleteFailsCycle, CycleStep
    <2> HIDE DEF places
    <2>2. OnlyTo(places)
      BY <1>1, <2>1, CyclePutEffect, ReturnOnlyTo
    <2> QED BY <2>1, <2>2, CyclePutEffect DEF places
  <1>11. CASE CompleteReadiesCycle(c)
    <2> DEFINE rec == call[c][Timer].rec
               done == IF rec.target = rec.count THEN Goto(c, Timer, "skip_begin")
                                                 ELSE Return(c, Timer, "ok")
    <2>1. /\ CyclePut("active", "recommendation_ready", done, Return(c, Timer, "err"))
          /\ UNCHANGED auto
          /\ Follows(call[c][Timer].at, "skip_begin") /\ "skip_begin" \in places
      BY <1>11 DEF CompleteReadiesCycle, At, CycleStep, Follows
    <2> HIDE DEF places
    <2>2. done => OnlyTo(places)
      BY <1>1, <2>1, GotoOnlyTo, ReturnOnlyTo
    <2> HIDE DEF done
    <2>3. OnlyTo(places)
      BY <1>1, <2>1, <2>2, CyclePutEffect, ReturnOnlyTo
    <2> QED BY <2>1, <2>3, CyclePutEffect DEF places
  <1> QED BY <1>3, <1>4, <1>5, <1>6, <1>7, <1>8, <1>9, <1>10, <1>11 DEF CompleteSteps

\* A skip.
LEMMA SkipProfile ==
  ASSUME CycleTypeInv, NEW c \in Coordinators, NEW t \in Threads,
         SkipReadsCycle(c, t) \/ SkipReadsEpoch(c, t) \/ SkipBegins(c, t) \/ SkipEnds(c, t)
  PROVE  /\ OnlyTo(SkipPlaces \cup Ended)
         /\ UNCHANGED <<epoch, config, snapshot, scaling, latest,
                        shard, holder, local, timer, clients, auto, historyVars>>
         /\ Counted
  <1> DEFINE places == SkipPlaces \cup Ended
  <1>1. Ended \subseteq places /\ {"skip_epoch", "skip_begin", "skip_end"} \subseteq places
    BY DEF SkipPlaces
  <1> HIDE DEF places
  <1>2. ASSUME SkipReadsCycle(c, t) \/ SkipReadsEpoch(c, t)
        PROVE  /\ OnlyTo(places) /\ UNCHANGED auto /\ Counted
               /\ UNCHANGED <<epoch, config, snapshot, scaling, latest,
                              shard, holder, local, timer, clients, historyVars>>
    <2>1. /\ \/ Goto(c, t, "skip_epoch") /\ Follows(call[c][t].at, "skip_epoch")
             \/ Goto(c, t, "skip_begin") /\ Follows(call[c][t].at, "skip_begin")
             \/ Return(c, t, "err")
          /\ Counted
          /\ UNCHANGED <<storeVars, shard, holder, local, timer, clients, auto, historyVars>>
      BY <1>2, SeesCounted DEF SkipReadsCycle, SkipReadsEpoch, At, Follows, Counted
    <2>2. OnlyTo(places)
      BY <1>1, <2>1, GotoOnlyTo, ReturnOnlyTo
    <2> QED BY <2>1, <2>2 DEF storeVars, NoFault
  <1>3. ASSUME SkipBegins(c, t) \/ SkipEnds(c, t)
        PROVE  /\ OnlyTo(places) /\ UNCHANGED auto /\ Counted
               /\ UNCHANGED <<epoch, config, snapshot, scaling, latest,
                              shard, holder, local, timer, clients, historyVars>>
    <2>1. /\ \/ /\ CyclePut("recommendation_ready", "scaling_in_progress",
                          Goto(c, t, "skip_end"), Return(c, t, "err"))
                /\ Follows(call[c][t].at, "skip_end")
             \/ CyclePut("scaling_in_progress", "scaling_skipped",
                          Return(c, t, "ok"), Return(c, t, "err"))
          /\ UNCHANGED auto
      BY <1>3 DEF SkipBegins, SkipEnds, CycleStep, At, Follows
    <2>2. (Goto(c, t, "skip_end") /\ Follows(call[c][t].at, "skip_end")) => OnlyTo(places)
      BY <1>1, GotoOnlyTo
    <2>3. (Return(c, t, "ok") \/ Return(c, t, "err")) => OnlyTo(places)
      BY <1>1, ReturnOnlyTo
    <2> QED BY <2>1, <2>2, <2>3, CyclePutEffect
  <1> QED BY <1>2, <1>3 DEF places

\* An application.
LEMMA ApplyProfile ==
  ASSUME CycleTypeInv, NEW c \in Coordinators, NEW t \in Threads, ApplySteps(c, t)
  PROVE  /\ OnlyTo(ApplyPlaces \cup Ended)
         /\ UNCHANGED <<epoch, snapshot, scaling, latest, shard, holder, local, timer, auto,
                        committed, ran>>
         /\ Counted
  <1> DEFINE places == ApplyPlaces \cup Ended
  <1>1. Ended \subseteq places
        /\ {"apply_epoch", "apply_latest", "apply_cycle", "apply_begin", "apply_connect",
            "apply_put", "apply_end", "apply_failed"} \subseteq places
    BY DEF ApplyPlaces, Evaluating, Applying
  <1>2. call[c][t] \in Handler
    BY HandlerTyped
  <1> HIDE DEF places
  <1>3. ASSUME ApplyReadsConfig(c, t) PROVE OnlyTo(places)
    <2>1. CASE Return(c, t, "err")
      BY <1>1, <2>1, ReturnOnlyTo
    <2>2. ASSUME NEW seen, call' = [call EXCEPT ![c][t].at = "apply_epoch", ![c][t].cfg = seen]
          PROVE  OnlyTo(places)
      <3> DEFINE h == [call[c][t] EXCEPT !.at = "apply_epoch", !.cfg = seen]
      <3>1. call' = [call EXCEPT ![c][t] = h]
        BY <2>2
      <3>2. h.at \in places
        BY <1>1, <1>2 DEF Handler
      <3> HIDE DEF h
      <3> QED BY <3>1, <3>2, SetOnlyTo
    <2> QED BY <1>3, <2>1, <2>2 DEF ApplyReadsConfig
  <1>4. ASSUME ApplyReadsLatest(c, t) PROVE OnlyTo(places)
    <2>1. CASE Return(c, t, "ok") \/ Return(c, t, "err")
      BY <1>1, <2>1, ReturnOnlyTo
    <2>2. ASSUME NEW seen, NEW new,
                 call' = [call EXCEPT ![c][t].at = "apply_cycle", ![c][t].rec = seen,
                                      ![c][t].cfg = new]
          PROVE  OnlyTo(places)
      <3> DEFINE h == [call[c][t] EXCEPT !.at = "apply_cycle", !.rec = seen, !.cfg = new]
      <3>1. call' = [call EXCEPT ![c][t] = h]
        BY <2>2
      <3>2. h.at \in places
        BY <1>1, <1>2 DEF Handler
      <3> HIDE DEF h
      <3> QED BY <3>1, <3>2, SetOnlyTo
    <2> QED BY <1>4, <2>1, <2>2 DEF ApplyReadsLatest
  <1>5. ASSUME \/ ApplyReadsEpoch(c, t) \/ ApplyReadsCycle(c, t) \/ ApplyConnects(c, t)
               \/ ApplyPutsConfig(c, t)
        PROVE  OnlyTo(places)
    <2>1. \/ Return(c, t, "err")
          \/ \E place \in {"apply_latest", "apply_begin", "apply_connect", "apply_put",
                            "apply_end", "apply_failed"} :
               Goto(c, t, place) /\ Follows(call[c][t].at, place)
      BY <1>5 DEF ApplyReadsEpoch, ApplyReadsCycle, ApplyConnects, ApplyPutsConfig, At, Follows
    <2> QED BY <1>1, <2>1, GotoOnlyTo, ReturnOnlyTo
  <1>6. ASSUME ApplyBegins(c, t) \/ ApplyEnds(c, t) \/ ApplyFailsCycle(c, t)
        PROVE  /\ OnlyTo(places) /\ UNCHANGED auto /\ Counted
               /\ UNCHANGED <<epoch, config, snapshot, scaling, latest,
                              shard, holder, local, timer, clients, historyVars>>
    <2>1. /\ \/ /\ CyclePut("recommendation_ready", "scaling_in_progress",
                          Goto(c, t, "apply_connect"), Return(c, t, "err"))
                /\ Follows(call[c][t].at, "apply_connect")
             \/ CyclePut("scaling_in_progress", "scaling_applied",
                          Return(c, t, "ok"), Return(c, t, "err"))
             \/ CyclePut("scaling_in_progress", "failed",
                          Return(c, t, "err"), Return(c, t, "err"))
          /\ UNCHANGED auto
      BY <1>6 DEF ApplyBegins, ApplyEnds, ApplyFailsCycle, CycleStep, At, Follows
    <2>2. (Goto(c, t, "apply_connect") /\ Follows(call[c][t].at, "apply_connect"))
            => OnlyTo(places)
      BY <1>1, GotoOnlyTo
    <2>3. (Return(c, t, "ok") \/ Return(c, t, "err")) => OnlyTo(places)
      BY <1>1, ReturnOnlyTo
    <2> QED BY <2>1, <2>2, <2>3, CyclePutEffect
  <1>7. OnlyTo(places)
    BY <1>3, <1>4, <1>5, <1>6 DEF ApplySteps
  <1>8. /\ UNCHANGED <<epoch, snapshot, scaling, latest, shard, holder, local, timer, auto,
                       committed, ran>>
        /\ Counted
    BY <1>6, SeesCounted DEF ApplySteps, ApplyReadsConfig, ApplyReadsEpoch, ApplyReadsLatest,
       ApplyReadsCycle, ApplyConnects, ApplyPutsConfig, storeVars, historyVars, Counted
  <1> QED BY <1>7, <1>8 DEF places

\* The promotion.
LEMMA PromoteProfile ==
  ASSUME CycleTypeInv, NEW c \in Coordinators, NEW t \in Threads,
         PromoteReadsConfig(c, t) \/ PromotePutsConfig(c, t)
  PROVE  /\ OnlyTo(PromotePlaces \cup Ended)
         /\ UNCHANGED <<epoch, snapshot, scaling, latest, cycle, shard, holder, local, timer,
                        clients, auto, historyVars>>
         /\ Counted
  <1> DEFINE places == PromotePlaces \cup Ended
  <1>1. Ended \subseteq places /\ "promote_put" \in places
    BY DEF PromotePlaces
  <1>2. call[c][t] \in Handler
    BY HandlerTyped
  <1> HIDE DEF places
  <1>3. ASSUME PromoteReadsConfig(c, t) PROVE OnlyTo(places)
    <2>1. CASE Return(c, t, "err")
      BY <1>1, <2>1, ReturnOnlyTo
    <2>2. ASSUME NEW new,
                 call' = [call EXCEPT ![c][t].at = "promote_put", ![c][t].cfg = new]
          PROVE  OnlyTo(places)
      <3> DEFINE h == [call[c][t] EXCEPT !.at = "promote_put", !.cfg = new]
      <3>1. call' = [call EXCEPT ![c][t] = h]
        BY <2>2
      <3>2. h.at \in places
        BY <1>1, <1>2 DEF Handler
      <3> HIDE DEF h
      <3> QED BY <3>1, <3>2, SetOnlyTo
    <2> QED BY <1>3, <2>1, <2>2 DEF PromoteReadsConfig
  <1>4. ASSUME PromotePutsConfig(c, t) PROVE OnlyTo(places)
    <2>1. Return(c, t, "ok") \/ Return(c, t, "err")
      BY <1>4 DEF PromotePutsConfig
    <2> QED BY <1>1, <2>1, ReturnOnlyTo
  <1>5. UNCHANGED <<epoch, snapshot, scaling, latest, cycle, shard, holder, local, timer,
                    clients, auto, historyVars>>
        /\ Counted
    BY SeesCounted DEF PromoteReadsConfig, PromotePutsConfig, storeVars, Counted
  <1> QED BY <1>3, <1>4, <1>5 DEF places

\* The calls of operators.
LEMMA CallsProfile ==
  ASSUME CycleTypeInv, NEW c \in Coordinators, NEW t \in Threads,
         \/ ApplyScalingRecommendation(c, t)
         \/ SkipScalingRecommendation(c, t)
         \/ PromoteShardStandby(c, t)
  PROVE  /\ OnlyTo({"apply_config", "skip_cycle", "promote_config"})
         /\ UNCHANGED <<storeVars, shard, holder, local, timer, clients, auto, used, historyVars>>
  <1>1. UNCHANGED <<storeVars, shard, holder, local, timer, clients, auto, used, historyVars>>
    BY DEF ApplyScalingRecommendation, SkipScalingRecommendation, PromoteShardStandby
  <1>2. PICK h \in {[Idle EXCEPT !.at = "apply_config", !.dry = FALSE],
                    [Idle EXCEPT !.at = "skip_cycle"],
                    [Idle EXCEPT !.at = "promote_config"]} : call' = [call EXCEPT ![c][t] = h]
    BY DEF ApplyScalingRecommendation, Apply, SkipScalingRecommendation, PromoteShardStandby
  <1>3. h.at \in {"apply_config", "skip_cycle", "promote_config"}
    BY <1>2 DEF Idle
  <1> QED BY <1>1, <1>2, <1>3, SetOnlyTo

\* The autoscaler.
LEMMA AutoProfile ==
  ASSUME CycleTypeInv, AutoSteps \/ AutoTimesOut
  PROVE  /\ OnlyTo({"apply_config", "idle"})
         /\ UNCHANGED <<epoch, config, snapshot, scaling, latest,
                        shard, holder, local, timer, clients, historyVars>>
         /\ Counted
  <1>1. ASSUME \/ AutoReadsCycle \/ AutoReadsLatest \/ AutoReadsConfig \/ AutoReadsEpoch
               \/ AutoCalls \/ AutoAnswered \/ AutoTimesOut
        PROVE  /\ UNCHANGED <<epoch, config, snapshot, scaling, latest,
                              shard, holder, local, timer, clients, historyVars>>
               /\ Counted
    BY <1>1, SeesCounted DEF AutoReadsCycle, AutoReadsLatest, AutoReadsConfig, AutoReadsEpoch,
       AutoCalls, AutoAnswered, AutoTimesOut, storeVars, NoFault, Counted, TimedOut
  <1>2. ASSUME AutoBegins \/ AutoFails \/ AutoSkips
        PROVE  /\ UNCHANGED <<epoch, config, snapshot, scaling, latest,
                              shard, holder, local, timer, clients, historyVars>>
               /\ Counted
    BY <1>2, CyclePutEffect DEF AutoBegins, AutoFails, AutoSkips
  <1>3. ASSUME UNCHANGED call PROVE OnlyTo({"apply_config", "idle"})
    BY <1>3 DEF OnlyTo
  <1>4. ASSUME AutoCalls PROVE OnlyTo({"apply_config", "idle"})
    <2>1. CASE UNCHANGED call
      BY <1>3, <2>1
    <2>2. CASE \E t \in AutoRpcs : Apply(AutoTarget, t, auto.at = "dry")
      <3>1. PICK t \in AutoRpcs : Apply(AutoTarget, t, auto.at = "dry")
        BY <2>2
      <3>2. Moved(AutoTarget, t) /\ call'[AutoTarget][t].at = "apply_config"
        BY <3>1, ApplyMoved
      <3> QED BY <3>2, MovedOnlyTo
    <2> QED BY <1>4, <2>1, <2>2 DEF AutoCalls
  <1>5. ASSUME AutoAnswered PROVE OnlyTo({"apply_config", "idle"})
    <2>1. Moved(AutoTarget, auto.rpc) /\ call'[AutoTarget][auto.rpc] = Idle
      BY <1>5, AutoAnsweredTyped
    <2> QED BY <2>1, MovedOnlyTo DEF Idle
  <1> QED BY <1>1, <1>2, <1>3, <1>4, <1>5, AutoAloneTyped DEF AutoSteps

\* A crash.
LEMMA CrashProfile ==
  ASSUME CycleTypeInv, NEW c \in Coordinators, Crash(c)
  PROVE  OnlyTo(Ended) /\ UNCHANGED <<storeVars, shard, holder, auto, historyVars>>
  <1>1. /\ \A t \in Threads : call'[c][t].at \in Ended
        /\ \A d \in Coordinators, t \in Threads : d # c => call'[d][t] = call[d][t]
    BY CrashTyped
  <1> QED BY <1>1 DEF OnlyTo, Crash

\* StartEpoch.
LEMMA StartProfile ==
  ASSUME CycleTypeInv, NEW c \in Coordinators, NEW t \in Threads, StartSteps(c, t)
  PROVE  /\ OnlyTo(StartPlaces \cup Ended)
         /\ UNCHANGED <<scaling, latest, holder, clients, auto, applied>>
         /\ Counted
  <1> DEFINE places == StartPlaces \cup Ended
             g == call[c][t]
  <1>1. Ended \subseteq places
        /\ {"start_decide", "start_config", "start_shards", "start_snapshot", "start_store",
            "start_from", "start_active", "start_commit", "abort"} \subseteq places
    BY DEF StartPlaces, Deciding, Fanning
  <1>2. g \in Handler
    BY HandlerTyped
  <1> HIDE DEF places
  <1>3. ASSUME \/ RequireEpochCycleAllowsStart(c, t) \/ StartRequiresLease(c, t)
               \/ StartPutsSnapshot(c, t) \/ StartWritesStore(c, t)
        PROVE  OnlyTo(places)
    <2>1. \/ Return(c, t, "err")
          \/ \E place \in {"start_decide", "start_snapshot", "start_store", "start_from", "abort"} :
               Goto(c, t, place) /\ Follows(g.at, place)
      BY <1>3 DEF RequireEpochCycleAllowsStart, StartRequiresLease, StartPutsSnapshot,
         StartWritesStore, At, Follows
    <2> QED BY <1>1, <2>1, GotoOnlyTo, ReturnOnlyTo
  <1>4. ASSUME StartEpochDecision(c, t) PROVE OnlyTo(places)
    <2>1. CASE Return(c, t, "err")
      BY <1>1, <2>1, ReturnOnlyTo
    <2>2. ASSUME NEW next, call' = [call EXCEPT ![c][t].at = "start_config", ![c][t].id = next]
          PROVE  OnlyTo(places)
      <3> DEFINE h == [g EXCEPT !.at = "start_config", !.id = next]
      <3>1. call' = [call EXCEPT ![c][t] = h]
        BY <2>2
      <3>2. h.at \in places
        BY <1>1, <1>2 DEF Handler
      <3> HIDE DEF h
      <3> QED BY <3>1, <3>2, SetOnlyTo
    <2> QED BY <1>4, <2>1, <2>2 DEF StartEpochDecision
  <1>5. ASSUME StartReadsConfig(c, t) PROVE OnlyTo(places)
    <2>1. CASE Return(c, t, "err")
      BY <1>1, <2>1, ReturnOnlyTo
    <2>2. ASSUME NEW seen, call' = [call EXCEPT ![c][t].at = "start_shards", ![c][t].cfg = seen]
          PROVE  OnlyTo(places)
      <3> DEFINE h == [g EXCEPT !.at = "start_shards", !.cfg = seen]
      <3>1. call' = [call EXCEPT ![c][t] = h]
        BY <2>2
      <3>2. h.at \in places
        BY <1>1, <1>2 DEF Handler
      <3> HIDE DEF h
      <3> QED BY <3>1, <3>2, SetOnlyTo
    <2> QED BY <1>5, <2>1, <2>2 DEF StartReadsConfig
  <1>6. ASSUME StartShard(c, t) PROVE OnlyTo(places)
    <2> DEFINE s == NextShard(c, t)
               h == [g EXCEPT !.started = g.started \cup {s}]
    <2> HIDE DEF s
    <2>1. /\ \/ Goto(c, t, "abort")
             \/ call' = [call EXCEPT ![c][t].started = @ \cup {s}]
          /\ g.at = "start_shards" /\ Follows(g.at, "abort")
      BY <1>6 DEF StartShard, s, At, Follows
    <2>2. ASSUME call' = [call EXCEPT ![c][t].started = @ \cup {s}]
          PROVE  call' = [call EXCEPT ![c][t] = h]
      BY <2>2
    <2>3. h.at \in places
      BY <1>1, <1>2, <2>1 DEF Handler
    <2> HIDE DEF h
    <2> QED BY <1>1, <2>1, <2>2, <2>3, SetOnlyTo, GotoOnlyTo
  <1>7. ASSUME StartReadsCycle(c, t) PROVE OnlyTo(places)
    <2>a. PICK seen : call' = [call EXCEPT ![c][t].at = "start_active", ![c][t].from = seen]
      BY <1>7 DEF StartReadsCycle
    <2> DEFINE h == [g EXCEPT !.at = "start_active", !.from = seen]
    <2>1. call' = [call EXCEPT ![c][t] = h]
      BY <2>a
    <2>2. h.at \in places
      BY <1>1, <1>2 DEF Handler
    <2> HIDE DEF h
    <2> QED BY <2>1, <2>2, SetOnlyTo
  <1>8. ASSUME StartActivatesCycle(c, t)
        PROVE  /\ OnlyTo(places) /\ UNCHANGED auto /\ Counted
               /\ UNCHANGED <<epoch, config, snapshot, scaling, latest,
                              shard, holder, local, timer, clients, historyVars>>
    <2>1. /\ CyclePut(g.from, "active", Goto(c, t, "start_commit"), Goto(c, t, "abort"))
          /\ Follows(g.at, "start_commit") /\ Follows(g.at, "abort")
          /\ UNCHANGED auto
      BY <1>8 DEF StartActivatesCycle, CycleStep, At, Follows
    <2>2. Goto(c, t, "start_commit") \/ Goto(c, t, "abort")
      BY <2>1, CyclePutEffect
    <2>3. OnlyTo(places)
      BY <1>1, <2>1, <2>2, GotoOnlyTo
    <2> QED BY <2>1, <2>3, CyclePutEffect
  <1>9. ASSUME CommitStartedEpoch(c, t) PROVE OnlyTo(places)
    BY <1>1, <1>9, ReturnOnlyTo DEF CommitStartedEpoch
  <1>10. ASSUME AbortStarted(c, t) PROVE OnlyTo(places)
    <2> DEFINE s == CHOOSE x \in g.started : \A y \in g.started : x <= y
               h == [g EXCEPT !.started = g.started \ {s}]
    <2>1. /\ Return(c, t, "err") \/ call' = [call EXCEPT ![c][t].started = @ \ {s}]
          /\ g.at = "abort"
      BY <1>10 DEF AbortStarted, At
    <2> HIDE DEF s
    <2>2. ASSUME call' = [call EXCEPT ![c][t].started = @ \ {s}]
          PROVE  call' = [call EXCEPT ![c][t] = h]
      BY <2>2
    <2>3. h.at \in places
      BY <1>1, <1>2, <2>1 DEF Handler
    <2> HIDE DEF h
    <2> QED BY <1>1, <2>1, <2>2, <2>3, SetOnlyTo, ReturnOnlyTo
  <1>11. OnlyTo(places)
    BY <1>3, <1>4, <1>5, <1>6, <1>7, <1>8, <1>9, <1>10 DEF StartSteps
  <1>12. UNCHANGED <<scaling, latest, holder, clients, auto, applied>> /\ Counted
    BY <1>8, SeesCounted DEF StartSteps, RequireEpochCycleAllowsStart, StartEpochDecision,
       StartReadsConfig, StartShard, StartRequiresLease, StartPutsSnapshot, StartWritesStore,
       StartReadsCycle, CommitStartedEpoch, AbortStarted, storeVars, historyVars, NoFault, Counted
  <1> QED BY <1>11, <1>12 DEF places

\* Only a handler that was called takes steps.
LEMMA Called ==
  ASSUME NEW c, NEW t
  PROVE  /\ RpcSteps(c, t) => call[c][t].at # "idle"
         /\ CompleteSteps(c) => call[c][Timer].at # "idle"
  <1>1. ASSUME StartSteps(c, t) PROVE call[c][t].at # "idle"
    BY <1>1 DEF StartSteps, RequireEpochCycleAllowsStart, StartEpochDecision, StartReadsConfig,
       StartShard, StartRequiresLease, StartPutsSnapshot, StartWritesStore, StartReadsCycle,
       StartActivatesCycle, CommitStartedEpoch, AbortStarted, At
  <1>2. ASSUME ApplySteps(c, t) PROVE call[c][t].at # "idle"
    BY <1>2 DEF ApplySteps, ApplyReadsConfig, ApplyReadsEpoch, ApplyReadsLatest, ApplyReadsCycle,
       ApplyBegins, ApplyConnects, ApplyPutsConfig, ApplyEnds, ApplyFailsCycle, At
  <1>3. ASSUME AdminSteps(c, t) PROVE call[c][t].at # "idle"
    BY <1>3 DEF AdminSteps, SkipReadsCycle, SkipReadsEpoch, SkipBegins, SkipEnds,
       PromoteReadsConfig, PromotePutsConfig, At
  <1>4. ASSUME CompleteSteps(c) PROVE call[c][Timer].at # "idle"
    BY <1>4 DEF CompleteSteps, CompleteEpochDecision, CompleteRequiresLease, CommitCompletedEpoch,
       CompleteWritesStore, CompleteReadsVersion, CompletePutsScaling, CompleteFailsCycle,
       CompleteReadiesCycle, At
  <1> QED BY <1>1, <1>2, <1>3, <1>4 DEF RpcSteps

\* Handlers that change are at one of a larger set of places, too.
LEMMA OnlyToMore ==
  ASSUME NEW S, NEW T, S \subseteq T, OnlyTo(S)
  PROVE  OnlyTo(T)
  BY DEF OnlyTo

\* Outside StartEpoch, or where it begins.
Elsewhere == (Places \ StartPlaces) \cup {"start_cycle"}

\* A step that is none of StartEpoch's brings no handler further into it.
LEMMA NotStarting ==
  ASSUME CycleTypeInv, [Next]_vars
  PROVE  \/ \E c \in Coordinators, t \in Threads : StartSteps(c, t)
         \/ OnlyTo(Elsewhere) /\ UNCHANGED <<snapshot, ran, committed>>
  <1>1. /\ DonePlaces \cup {"skip_begin"} \cup Ended \subseteq Elsewhere
        /\ SkipPlaces \cup Ended \subseteq Elsewhere
        /\ ApplyPlaces \cup Ended \subseteq Elsewhere
        /\ PromotePlaces \cup Ended \subseteq Elsewhere
        /\ {"apply_config", "skip_cycle", "promote_config"} \subseteq Elsewhere
        /\ {"apply_config", "idle"} \subseteq Elsewhere
        /\ Ended \subseteq Elsewhere
        /\ "start_cycle" \in Elsewhere
    BY DEF DonePlaces, Closing, Reporting, SkipPlaces, ApplyPlaces, Evaluating, Applying,
       PromotePlaces, Ended, Places, StartPlaces, Deciding, Fanning, Elsewhere
  <1> DEFINE Goal == OnlyTo(Elsewhere) /\ UNCHANGED <<snapshot, ran, committed>>
  <1>2. ASSUME AutoSteps \/ AutoTimesOut PROVE Goal
    BY <1>1, <1>2, AutoProfile, OnlyToMore DEF historyVars
  <1>3. ASSUME NEW s \in Shards, ShardEpochEnds(s) PROVE Goal
    BY <1>3, OutsideTyped DEF OnlyTo, ShardEpochEnds, storeVars, historyVars
  <1>4. ASSUME NEW c \in Coordinators, TimerFires(c) \/ CompleteSteps(c) PROVE Goal
    BY <1>1, <1>4, CompleteProfile, OnlyToMore DEF historyVars
  <1>5. ASSUME NEW c \in Coordinators, TakeOver(c) PROVE Goal
    BY <1>5, OutsideTyped DEF OnlyTo, TakeOver, storeVars, historyVars
  <1>6. ASSUME NEW c \in Coordinators, Crash(c) PROVE Goal
    BY <1>1, <1>6, CrashProfile, OnlyToMore DEF storeVars, historyVars
  <1>7. ASSUME NEW c \in Coordinators, NEW t \in Rpcs,
               \/ ApplyScalingRecommendation(c, t)
               \/ SkipScalingRecommendation(c, t)
               \/ PromoteShardStandby(c, t)
        PROVE  Goal
    <2>1. t \in Threads
      BY DEF Threads
    <2> QED BY <1>1, <1>7, <2>1, CallsProfile, OnlyToMore DEF storeVars, historyVars
  <1>8. ASSUME NEW c \in Coordinators, NEW t \in Rpcs, NEW id \in RequestIDs, StartEpoch(c, t, id)
        PROVE  Goal
    <2>1. t \in Threads /\ [Idle EXCEPT !.at = "start_cycle", !.id = id].at = "start_cycle"
      BY DEF Threads, Idle
    <2>2. call' = [call EXCEPT ![c][t] = [Idle EXCEPT !.at = "start_cycle", !.id = id]]
      BY <1>8 DEF StartEpoch
    <2>3. OnlyTo(Elsewhere)
      BY <1>1, <2>1, <2>2, SetOnlyTo
    <2> QED BY <1>8, <2>3 DEF StartEpoch, storeVars, historyVars
  <1>9. ASSUME NEW c \in Coordinators, NEW t \in Threads, ApplySteps(c, t) \/ AdminSteps(c, t)
        PROVE  Goal
    <2>1. CASE ApplySteps(c, t)
      BY <1>1, <2>1, ApplyProfile, OnlyToMore
    <2>2. CASE SkipReadsCycle(c, t) \/ SkipReadsEpoch(c, t) \/ SkipBegins(c, t) \/ SkipEnds(c, t)
      BY <1>1, <2>2, SkipProfile, OnlyToMore DEF historyVars
    <2>3. CASE PromoteReadsConfig(c, t) \/ PromotePutsConfig(c, t)
      BY <1>1, <2>3, PromoteProfile, OnlyToMore DEF historyVars
    <2> QED BY <1>9, <2>1, <2>2, <2>3 DEF AdminSteps
  <1>10. ASSUME UNCHANGED vars PROVE Goal
    BY <1>10 DEF vars, cycleVars, storeVars, historyVars, OnlyTo
  <1> HIDE DEF Goal
  <1>11. Goal \/ \E c \in Coordinators, t \in Threads : StartSteps(c, t)
    BY <1>2, <1>3, <1>4, <1>5, <1>6, <1>7, <1>8, <1>9, <1>10 DEF Next, RpcSteps
  <1> QED BY <1>11 DEF Goal

-----------------------------------------------------------------------------
(***************************************************************************)
(* An epoch that was started is consistent                                 *)
(***************************************************************************)

\* What StartEpoch has done by the time it is at a place: the shards it
\* counts ran the epoch, and the snapshot is the configuration it carries.
Started(h) ==
  /\ h.at = "start_shards" =>
       \E n \in Nat : h.started = 1 .. n /\ \A s \in 1 .. n : s \in Shards /\ h.id \in ran[s]
  /\ h.at \in {"start_snapshot", "start_store", "start_from", "start_active", "start_commit"} =>
       \A s \in 1 .. h.cfg.count : h.id \in ran[s]
  /\ h.at \in {"start_store", "start_from", "start_active", "start_commit"} =>
       snapshot[h.id] = h.cfg

StartedInv ==
  /\ \A c \in Coordinators, t \in Threads : Started(call[c][t])
  /\ StartedEpochIsConsistent

\* Shards do not forget epochs, and a snapshot is immutable.
Lasting ==
  /\ \A s \in Shards : ran[s] \subseteq ran'[s]
  /\ \A e \in 1 .. MaxEpoch : snapshot[e] \in ConfigRecord => snapshot'[e] = snapshot[e]

\* What StartEpoch has done, lasts.
LEMMA StartedLasts ==
  ASSUME CycleTypeInv, Lasting, NEW c \in Coordinators, NEW t \in Threads,
         Started(call[c][t]), call'[c][t] = call[c][t]
  PROVE  Started(call[c][t])'
  <1> DEFINE h == call[c][t]
  <1>1. h \in Handler /\ HandlerOK(t, h)
    BY HandlerTyped DEF CycleTypeInv, HandlersOK
  <1>2. h.at \in Fanning => h.id \in 1 .. MaxEpoch /\ h.cfg \in ConfigRecord
                           /\ \A s \in 1 .. h.cfg.count : s \in Shards
    BY <1>1 DEF HandlerOK, Handler, EpochIDs, ConfigRecord, Shards
  <1>3. Started(h) /\ call'[c][t] = h
    OBVIOUS
  <1> HIDE DEF h
  <1> QED BY <1>2, <1>3 DEF Lasting, Started, Fanning

\* So does what it reported.
LEMMA ReportLasts ==
  ASSUME CycleTypeInv, Lasting, StartedEpochIsConsistent, UNCHANGED committed
  PROVE  StartedEpochIsConsistent'
  <1>1. \A cfg \in ConfigRecord : \A s \in 1 .. cfg.count : s \in Shards
    BY DEF ConfigRecord, Shards
  <1> QED BY <1>1 DEF StartedEpochIsConsistent, Lasting

\* One handler of StartEpoch moves.
LEMMA StartedMoves ==
  ASSUME CycleTypeInv, StartedInv, Lasting, UNCHANGED committed,
         NEW c \in Coordinators, NEW t \in Threads, Moved(c, t), Started(call[c][t])'
  PROVE  StartedInv'
  <1>1. ASSUME NEW d \in Coordinators, NEW u \in Threads PROVE Started(call[d][u])'
    <2>1. CASE d = c /\ u = t
      BY <2>1
    <2>2. CASE d # c \/ u # t
      <3>1. call'[d][u] = call[d][u] /\ Started(call[d][u])
        BY <2>2 DEF Moved, Becomes, StartedInv
      <3> QED BY <3>1, StartedLasts
    <2> QED BY <2>1, <2>2
  <1>2. StartedEpochIsConsistent'
    BY ReportLasts DEF StartedInv
  <1> QED BY <1>1, <1>2 DEF StartedInv

\* A handler outside the fan-out has done nothing.
LEMMA OutsideStarted ==
  ASSUME NEW c, NEW t, call'[c][t].at \notin Fanning \ {"abort"}
  PROVE  Started(call[c][t])'
  BY DEF Started, Fanning

\* Before the fan-out, and when it is given up, there is nothing to show.
LEMMA StartedQuiet ==
  ASSUME CycleTypeInv, StartedInv, NEW c \in Coordinators, NEW t \in Threads,
         \/ RequireEpochCycleAllowsStart(c, t) \/ StartEpochDecision(c, t) \/ AbortStarted(c, t)
  PROVE  StartedInv'
  <1> DEFINE g == call[c][t]
  <1>1. g \in Handler
    BY HandlerTyped
  <1>2. UNCHANGED <<snapshot, ran, committed>>
    BY DEF RequireEpochCycleAllowsStart, StartEpochDecision, AbortStarted, storeVars, historyVars
  <1>3. Lasting
    BY <1>2 DEF Lasting
  <1> DEFINE places == Places \ (Fanning \ {"abort"})
  <1>4. Ended \subseteq places /\ {"start_decide", "start_config", "abort"} \subseteq places
    BY DEF Ended, Places, Fanning
  <1>5. OnlyTo(places)
    <2> HIDE DEF places
    <2>1. CASE RequireEpochCycleAllowsStart(c, t)
      <3>1. Goto(c, t, "start_decide") \/ Return(c, t, "err")
        BY <2>1 DEF RequireEpochCycleAllowsStart
      <3>2. Follows(call[c][t].at, "start_decide")
        BY <2>1 DEF RequireEpochCycleAllowsStart, At, Follows
      <3> QED BY <1>4, <3>1, <3>2, GotoOnlyTo, ReturnOnlyTo
    <2>2. CASE StartEpochDecision(c, t)
      <3>1. CASE Return(c, t, "err")
        BY <1>4, <3>1, ReturnOnlyTo
      <3>2. ASSUME NEW next, call' = [call EXCEPT ![c][t].at = "start_config", ![c][t].id = next]
            PROVE  OnlyTo(places)
        <4> DEFINE h == [g EXCEPT !.at = "start_config", !.id = next]
        <4>1. call' = [call EXCEPT ![c][t] = h]
          BY <3>2
        <4>2. h.at \in places
          BY <1>1, <1>4 DEF Handler
        <4> HIDE DEF h
        <4> QED BY <4>1, <4>2, SetOnlyTo
      <3> QED BY <2>2, <3>1, <3>2 DEF StartEpochDecision
    <2>3. CASE AbortStarted(c, t)
      <3> DEFINE s == CHOOSE x \in g.started : \A y \in g.started : x <= y
                 h == [g EXCEPT !.started = g.started \ {s}]
      <3>1. /\ Return(c, t, "err") \/ call' = [call EXCEPT ![c][t].started = @ \ {s}]
            /\ g.at = "abort"
        BY <2>3 DEF AbortStarted, At
      <3> HIDE DEF s
      <3>2. ASSUME call' = [call EXCEPT ![c][t].started = @ \ {s}]
            PROVE  call' = [call EXCEPT ![c][t] = h]
        BY <3>2
      <3>3. h.at \in places
        BY <1>1, <1>4, <3>1 DEF Handler
      <3> HIDE DEF h
      <3> QED BY <1>4, <3>1, <3>2, <3>3, SetOnlyTo, ReturnOnlyTo
    <2> QED BY <2>1, <2>2, <2>3
  <1>6. ASSUME NEW d \in Coordinators, NEW u \in Threads PROVE Started(call[d][u])'
    <2>1. CASE call'[d][u] = call[d][u]
      BY <1>3, <2>1, StartedLasts DEF StartedInv
    <2>2. CASE call'[d][u].at \in places
      BY <2>2, OutsideStarted
    <2> QED BY <1>5, <2>1, <2>2 DEF OnlyTo
  <1>7. StartedEpochIsConsistent'
    BY <1>2, <1>3, ReportLasts DEF StartedInv
  <1> QED BY <1>6, <1>7 DEF StartedInv

\* The fan-out begins with no shard.
LEMMA StartedBegins ==
  ASSUME CycleTypeInv, StartedInv, NEW c \in Coordinators, NEW t \in Threads,
         StartReadsConfig(c, t)
  PROVE  StartedInv'
  <1>1. UNCHANGED <<snapshot, ran, committed>>
    BY DEF StartReadsConfig, storeVars, historyVars
  <1>2. Lasting
    BY <1>1 DEF Lasting
  <1>3. CASE Return(c, t, "err")
    <2>1. Moved(c, t) /\ call'[c][t].at \in Ended
      BY <1>3, ReturnMoved
    <2>2. call'[c][t].at \notin Fanning \ {"abort"}
      BY <2>1 DEF Ended, Fanning
    <2> QED BY <1>1, <1>2, <2>1, <2>2, OutsideStarted, StartedMoves
  <1>4. ASSUME NEW seen \in {config} \cup former.config,
               call' = [call EXCEPT ![c][t].at = "start_shards", ![c][t].cfg = seen]
        PROVE  StartedInv'
    <2> DEFINE g == call[c][t]
               h == [g EXCEPT !.at = "start_shards", !.cfg = seen]
    <2>1. g \in Handler /\ HandlerOK(t, g) /\ g.at = "start_config"
      BY HandlerTyped DEF CycleTypeInv, HandlersOK, StartReadsConfig, At
    <2>2. g.started = {} /\ seen \in ConfigRecord
      BY <2>1 DEF HandlerOK, CycleTypeInv, TypeOK, StoreTypeOK
    <2>3. h \in Handler /\ h.at = "start_shards" /\ h.started = {} /\ h.id = g.id /\ h.cfg = seen
      BY <2>1, <2>2 DEF Handler, Places
    <2>4. call' = [call EXCEPT ![c][t] = h]
      BY <1>4
    <2> HIDE DEF g, h
    <2>5. HandlerOK(t, h)
      BY <2>1, <2>2, <2>3 DEF HandlerOK, StartPlaces, Deciding, Fanning, DonePlaces,
         Closing, Reporting, SkipPlaces, ApplyPlaces, Evaluating, Applying, PromotePlaces
    <2>6. Moved(c, t) /\ call'[c][t] = h
      BY <2>4, <2>5, SetMoved
    <2>7. Started(call[c][t])'
      <3>1. {} = 1 .. 0 /\ 0 \in Nat
        OBVIOUS
      <3> QED BY <2>3, <2>6, <3>1 DEF Started
    <2> QED BY <1>1, <1>2, <2>6, <2>7, StartedMoves
  <1> QED BY <1>3, <1>4 DEF StartReadsConfig

\* Each round adds the next shard.
LEMMA StartedRound ==
  ASSUME CycleTypeInv, StartedInv, NEW c \in Coordinators, NEW t \in Threads, StartShard(c, t)
  PROVE  StartedInv'
  <1> DEFINE g == call[c][t]
             s == NextShard(c, t)
             h == [g EXCEPT !.started = g.started \cup {s}]
  <1>1. g \in Handler /\ HandlerOK(t, g) /\ g.at = "start_shards" /\ s <= g.cfg.count
    BY HandlerTyped DEF CycleTypeInv, HandlersOK, StartShard, At
  <1>2. s \in Shards /\ g.id \in 1 .. MaxEpoch
    BY <1>1, NextShardTyped DEF Fanning, HandlerOK, Handler, EpochIDs
  <1>3. /\ \/ /\ call' = [call EXCEPT ![c][t].started = @ \cup {s}]
              /\ ShardStarts(s, g.id)
           \/ Goto(c, t, "abort")
        /\ ShardStarts(s, g.id) \/ UNCHANGED <<shard, ran>>
        /\ UNCHANGED <<snapshot, committed>>
    BY DEF StartShard, storeVars
  <1>4. Lasting
    BY <1>2, <1>3, ShardStartsTyped DEF Lasting
  <1>5. Moved(c, t)
    BY StartShardTyped
  <1>6. CASE /\ call' = [call EXCEPT ![c][t].started = @ \cup {s}]
             /\ ShardStarts(s, g.id)
    <2>1. PICK n \in Nat : g.started = 1 .. n /\ \A u \in 1 .. n : u \in Shards /\ g.id \in ran[u]
      BY <1>1 DEF StartedInv, Started
    <2>2. Cardinality(1 .. n) = n
      BY FS_Interval
    <2>3. s = n + 1
      BY <2>1, <2>2 DEF NextShard
    <2>4. h \in Handler /\ h.at = "start_shards" /\ h.id = g.id /\ h.started = g.started \cup {s}
      BY <1>1, <1>2 DEF Handler
    <2>5. call' = [call EXCEPT ![c][t] = h]
      BY <1>6
    <2>6. call'[c][t] = h
      <3> HIDE DEF h
      <3> QED BY <2>4, <2>5, ReplacedBecomes DEF Becomes
    <2>7. g.id \in ran'[s] /\ \A u \in Shards : ran[u] \subseteq ran'[u]
      BY <1>2, <1>4, <1>6 DEF ShardStarts, CycleTypeInv, TypeOK, Lasting
    <2>8. g.started \cup {s} = 1 .. n + 1
      BY <2>1, <2>3
    <2> HIDE DEF g, h, s
    <2>9. \A u \in 1 .. n + 1 : u \in Shards /\ g.id \in ran'[u]
      <3> SUFFICES ASSUME NEW u \in 1 .. n + 1 PROVE u \in Shards /\ g.id \in ran'[u]
        OBVIOUS
      <3>1. CASE u \in 1 .. n
        BY <2>1, <2>7, <3>1
      <3>2. CASE u = s
        BY <1>2, <2>7, <3>2
      <3> QED BY <2>3, <3>1, <3>2
    <2>10. Started(call[c][t])'
      <3>1. call'[c][t].at = "start_shards" /\ call'[c][t].id = g.id
        BY <2>4, <2>6
      <3>2. call'[c][t].started = 1 .. n + 1
        BY <2>4, <2>6, <2>8, Zenon
      <3>3. n + 1 \in Nat
        OBVIOUS
      <3> QED BY <2>9, <3>1, <3>2, <3>3 DEF Started
    <2> QED BY <1>3, <1>4, <1>5, <2>10, StartedMoves
  <1>7. CASE Goto(c, t, "abort")
    <2>1. call'[c][t].at = "abort"
      BY <1>1, <1>7, GotoKeeps DEF Follows
    <2> QED BY <1>3, <1>4, <1>5, <2>1, OutsideStarted, StartedMoves
  <1> QED BY <1>3, <1>6, <1>7

\* The fan-out is complete when it is past the last shard.
LEMMA StartedAll ==
  ASSUME CycleTypeInv, StartedInv, NEW c \in Coordinators, NEW t \in Threads,
         StartRequiresLease(c, t)
  PROVE  StartedInv'
  <1> DEFINE g == call[c][t]
  <1>1. HandlerOK(t, g) /\ g.at = "start_shards" /\ NextShard(c, t) > g.cfg.count
    BY DEF CycleTypeInv, HandlersOK, StartRequiresLease, At
  <1>2. PICK place \in {"start_snapshot", "abort"} : Goto(c, t, place)
    BY DEF StartRequiresLease
  <1>3. UNCHANGED <<snapshot, ran, committed>>
    BY DEF StartRequiresLease, storeVars, historyVars
  <1>4. Lasting
    BY <1>3 DEF Lasting
  <1>5. Follows(g.at, place)
    BY <1>1, <1>2 DEF Follows
  <1>6. Moved(c, t) /\ call'[c][t].at = place /\ call'[c][t].id = g.id /\ call'[c][t].cfg = g.cfg
    BY <1>2, <1>5, GotoKeeps
  <1>7. PICK n \in Nat : g.started = 1 .. n /\ \A u \in 1 .. n : u \in Shards /\ g.id \in ran[u]
    BY <1>1 DEF StartedInv, Started
  <1>8. Cardinality(1 .. n) = n
    BY FS_Interval
  <1>9. g.cfg.count \in Nat /\ g.cfg.count <= n
    BY <1>1, <1>7, <1>8 DEF NextShard, HandlerOK, Fanning, ConfigRecord, Shards
  <1>10. \A u \in 1 .. g.cfg.count : g.id \in ran[u]
    BY <1>7, <1>9
  <1> HIDE DEF g
  <1>11. Started(call[c][t])'
    BY <1>2, <1>3, <1>6, <1>10 DEF Started
  <1> QED BY <1>3, <1>4, <1>6, <1>11, StartedMoves

\* The snapshot is the configuration of the fan-out, or StartEpoch gives up.
LEMMA StartedSnapshot ==
  ASSUME CycleTypeInv, StartedInv, NEW c \in Coordinators, NEW t \in Threads,
         StartPutsSnapshot(c, t)
  PROVE  StartedInv'
  <1> DEFINE g == call[c][t]
  <1>1. g \in Handler /\ HandlerOK(t, g) /\ g.at = "start_snapshot" /\ Started(g)
    BY HandlerTyped DEF CycleTypeInv, HandlersOK, StartPutsSnapshot, At, StartedInv
  <1>2. g.id \in 1 .. MaxEpoch /\ g.cfg \in ConfigRecord
    BY <1>1 DEF HandlerOK, Handler, EpochIDs, Fanning
  <1>3. /\ \/ /\ PutEpochShardConfigAllowed(g.id, g.cfg)
              /\ snapshot' = [snapshot EXCEPT ![g.id] = g.cfg]
           \/ UNCHANGED snapshot
        /\ \/ Goto(c, t, "start_store") /\ snapshot' = [snapshot EXCEPT ![g.id] = g.cfg]
           \/ Goto(c, t, "abort")
        /\ UNCHANGED <<ran, committed>>
    BY DEF StartPutsSnapshot, historyVars
  <1>4. snapshot \in [1 .. MaxEpoch -> ConfigRecord \cup {NoConfig}]
    BY DEF CycleTypeInv, TypeOK, StoreTypeOK
  <1>5. NoConfig \notin ConfigRecord
    BY DEF NoConfig, ConfigRecord, Versions
  <1>6. Lasting
    BY <1>2, <1>3, <1>4, <1>5 DEF Lasting, PutEpochShardConfigAllowed
  <1>7. CASE Goto(c, t, "start_store") /\ snapshot' = [snapshot EXCEPT ![g.id] = g.cfg]
    <2>1. /\ Moved(c, t) /\ call'[c][t].at = "start_store"
          /\ call'[c][t].id = g.id /\ call'[c][t].cfg = g.cfg
      BY <1>1, <1>7, GotoKeeps DEF Follows
    <2>2. snapshot'[g.id] = g.cfg
      BY <1>2, <1>4, <1>7
    <2> HIDE DEF g
    <2>3. Started(call[c][t])'
      BY <1>1, <1>3, <2>1, <2>2 DEF Started
    <2> QED BY <1>3, <1>6, <2>1, <2>3, StartedMoves
  <1>8. CASE Goto(c, t, "abort")
    <2>1. Moved(c, t) /\ call'[c][t].at = "abort"
      BY <1>1, <1>8, GotoKeeps DEF Follows
    <2> QED BY <1>3, <1>6, <2>1, OutsideStarted, StartedMoves
  <1> QED BY <1>3, <1>7, <1>8

\* The store and the cycle follow.
LEMMA StartedFollows ==
  ASSUME CycleTypeInv, StartedInv, NEW c \in Coordinators, NEW t \in Threads,
         StartWritesStore(c, t) \/ StartActivatesCycle(c, t)
  PROVE  StartedInv'
  <1> DEFINE g == call[c][t]
  <1>1. Started(g)
    BY DEF StartedInv
  <1>2. PICK place \in {"start_from", "start_commit", "abort"} :
          Goto(c, t, place) /\ Follows(g.at, place) /\ g.at \in {"start_store", "start_active"}
    BY CyclePutEffect DEF StartWritesStore, StartActivatesCycle, CycleStep, At, Follows
  <1>3. UNCHANGED <<snapshot, ran, committed>>
    BY CyclePutEffect DEF StartWritesStore, StartActivatesCycle, CycleStep, historyVars
  <1>4. Lasting
    BY <1>3 DEF Lasting
  <1>5. Moved(c, t) /\ call'[c][t].at = place /\ call'[c][t].id = g.id /\ call'[c][t].cfg = g.cfg
    BY <1>2, GotoKeeps
  <1> HIDE DEF g
  <1>6. Started(call[c][t])'
    BY <1>1, <1>2, <1>3, <1>5 DEF Started
  <1> QED BY <1>3, <1>4, <1>5, <1>6, StartedMoves

\* The cycle is read.
LEMMA StartedReads ==
  ASSUME CycleTypeInv, StartedInv, NEW c \in Coordinators, NEW t \in Threads,
         StartReadsCycle(c, t)
  PROVE  StartedInv'
  <1>a. PICK seen \in {cycle} \cup former.cycle :
          call' = [call EXCEPT ![c][t].at = "start_active", ![c][t].from = seen]
    BY DEF StartReadsCycle
  <1> DEFINE g == call[c][t]
             h == [g EXCEPT !.at = "start_active", !.from = seen]
  <1>1. g \in Handler /\ HandlerOK(t, g) /\ g.at = "start_from" /\ Started(g)
    BY HandlerTyped DEF CycleTypeInv, HandlersOK, StartReadsCycle, At, StartedInv
  <1>2. seen \in CycleStates
    BY DEF CycleTypeInv, TypeOK, StoreTypeOK
  <1>3. h \in Handler /\ h.at = "start_active" /\ h.id = g.id /\ h.cfg = g.cfg
    BY <1>1, <1>2 DEF Handler, Places
  <1>4. call' = [call EXCEPT ![c][t] = h]
    BY <1>a
  <1>5. UNCHANGED <<snapshot, ran, committed>>
    BY DEF StartReadsCycle, storeVars, historyVars
  <1>6. Lasting
    BY <1>5 DEF Lasting
  <1> HIDE DEF g, h
  <1>7. HandlerOK(t, h)
    BY <1>1, <1>3 DEF HandlerOK, StartPlaces, Deciding, Fanning, DonePlaces,
       Closing, Reporting, SkipPlaces, ApplyPlaces, Evaluating, Applying, PromotePlaces
  <1>8. Moved(c, t) /\ call'[c][t] = h
    BY <1>4, <1>7, SetMoved
  <1>9. Started(call[c][t])'
    BY <1>1, <1>3, <1>5, <1>8 DEF Started
  <1> QED BY <1>5, <1>6, <1>8, <1>9, StartedMoves

\* What is reported was done.
LEMMA StartedReported ==
  ASSUME CycleTypeInv, StartedInv, NEW c \in Coordinators, NEW t \in Threads,
         CommitStartedEpoch(c, t)
  PROVE  StartedInv'
  <1> DEFINE g == call[c][t]
  <1>1. Started(g) /\ g.at = "start_commit"
    BY DEF StartedInv, CommitStartedEpoch, At
  <1>2. /\ committed' = committed \cup {<<g.id, g.cfg>>}
        /\ UNCHANGED <<snapshot, ran>>
    BY DEF CommitStartedEpoch, storeVars
  <1>3. Lasting
    BY <1>2 DEF Lasting
  <1>4. Moved(c, t) /\ call'[c][t].at \in Ended
    BY ReturnMoved DEF CommitStartedEpoch
  <1>5. Started(call[c][t])'
    BY <1>4, OutsideStarted DEF Ended, Fanning
  <1>6. ASSUME NEW d \in Coordinators, NEW u \in Threads PROVE Started(call[d][u])'
    <2>1. CASE d # c \/ u # t
      <3>1. call'[d][u] = call[d][u] /\ Started(call[d][u])
        BY <1>4, <2>1 DEF Moved, Becomes, StartedInv
      <3> QED BY <1>3, <3>1, StartedLasts
    <2> QED BY <1>5, <2>1
  <1>7. StartedEpochIsConsistent
    BY DEF StartedInv
  <1> HIDE DEF g
  <1>8. StartedEpochIsConsistent'
    <2> SUFFICES ASSUME NEW e \in 1 .. MaxEpoch, NEW cfg \in ConfigRecord,
                        <<e, cfg>> \in committed'
                 PROVE  snapshot[e] = cfg /\ \A s \in 1 .. cfg.count : e \in ran[s]
      BY <1>2 DEF StartedEpochIsConsistent
    <2>1. CASE <<e, cfg>> \in committed
      BY <1>7, <2>1 DEF StartedEpochIsConsistent
    <2>2. CASE e = g.id /\ cfg = g.cfg
      BY <1>1, <2>2 DEF Started
    <2> QED BY <1>2, <2>1, <2>2
  <1> QED BY <1>6, <1>8 DEF StartedInv

\* Every step keeps it.
LEMMA StartedStep == CycleTypeInv /\ StartedInv /\ [Next]_vars => StartedInv'
  <1> SUFFICES ASSUME CycleTypeInv, StartedInv, [Next]_vars PROVE StartedInv'
    OBVIOUS
  <1>1. ASSUME NEW c \in Coordinators, NEW t \in Threads, StartSteps(c, t) PROVE StartedInv'
    BY <1>1, StartedQuiet, StartedBegins, StartedRound, StartedAll, StartedSnapshot,
       StartedFollows, StartedReads, StartedReported DEF StartSteps
  <1>2. CASE OnlyTo(Elsewhere) /\ UNCHANGED <<snapshot, ran, committed>>
    <2>1. Lasting
      BY <1>2 DEF Lasting
    <2>2. ASSUME NEW d \in Coordinators, NEW u \in Threads PROVE Started(call[d][u])'
      <3>1. CASE call'[d][u] = call[d][u]
        BY <2>1, <3>1, StartedLasts DEF StartedInv
      <3>2. CASE call'[d][u].at \in Elsewhere
        <4>1. Elsewhere \subseteq Places \ Fanning
          BY DEF Elsewhere, Places, StartPlaces, Deciding, Fanning
        <4> QED BY <3>2, <4>1, OutsideStarted
      <3> QED BY <1>2, <3>1, <3>2 DEF OnlyTo
    <2>3. StartedEpochIsConsistent'
      BY <1>2, <2>1, ReportLasts DEF StartedInv
    <2> QED BY <2>2, <2>3 DEF StartedInv
  <1> QED BY <1>1, <1>2, NotStarting

\* An epoch that StartEpoch reported as started ran on every shard of the
\* configuration it was started with, which is its snapshot, whoever else was
\* starting epochs or took over, and whatever failed.
THEOREM StartedIsConsistent == Spec => []StartedEpochIsConsistent
  <1>1. Init => StartedInv
    <2> SUFFICES ASSUME Init PROVE StartedInv
      OBVIOUS
    <2>1. \A c \in Coordinators, t \in Threads : call[c][t].at = "idle"
      BY DEF Init, Idle
    <2>2. committed = {}
      BY DEF Init
    <2> QED BY <2>1, <2>2 DEF StartedInv, Started, StartedEpochIsConsistent
  <1>2. Spec => []CycleTypeInv
    BY CycleInitTyped, CycleStepTypes, PTL DEF Spec
  <1>3. StartedInv => StartedEpochIsConsistent
    BY DEF StartedInv
  <1> QED BY <1>1, <1>2, <1>3, StartedStep, PTL DEF Spec

-----------------------------------------------------------------------------
(***************************************************************************)
(* A recommendation is applied once                                        *)
(***************************************************************************)

\* Every step remembers what it replaces in the store.
LEMMA StepRemembers ==
  ASSUME CycleTypeInv, [Next]_vars
  PROVE  Remembers
  <1>1. ASSUME UNCHANGED storeVars PROVE Remembers
    BY <1>1 DEF storeVars, Remembers
  <1>2. ASSUME AutoSteps \/ AutoTimesOut PROVE Remembers
    BY <1>1, <1>2, CyclePutEffect DEF AutoSteps, AutoReadsCycle, AutoReadsLatest, AutoReadsConfig,
       AutoReadsEpoch, AutoBegins, AutoCalls, AutoAnswered, AutoTimesOut, AutoFails, AutoSkips
  <1>3. ASSUME NEW c \in Coordinators, CompleteSteps(c) PROVE Remembers
    <2>1. CASE CompleteWritesStore(c) \/ CompletePutsScaling(c)
      BY <2>1 DEF CompleteWritesStore, CompletePutsScaling, StoreCompleteEpoch, PutScaling, Remembers
    <2>2. CASE CompleteFailsCycle(c) \/ CompleteReadiesCycle(c)
      BY <2>2, CyclePutEffect DEF CompleteFailsCycle, CompleteReadiesCycle, CycleStep
    <2> QED BY <1>1, <1>3, <2>1, <2>2 DEF CompleteSteps, CompleteEpochDecision,
            CompleteRequiresLease, CommitCompletedEpoch, CompleteReadsVersion
  <1>4. ASSUME NEW c \in Coordinators, NEW t \in Threads, StartSteps(c, t) PROVE Remembers
    <2>1. CASE StartPutsSnapshot(c, t) \/ StartWritesStore(c, t)
      BY <2>1 DEF StartPutsSnapshot, StartWritesStore, StoreStartEpoch, Remembers
    <2>2. CASE StartActivatesCycle(c, t)
      BY <2>2, CyclePutEffect DEF StartActivatesCycle, CycleStep
    <2> QED BY <1>1, <1>4, <2>1, <2>2 DEF StartSteps, RequireEpochCycleAllowsStart,
            StartEpochDecision, StartReadsConfig, StartShard, StartRequiresLease, StartReadsCycle,
            CommitStartedEpoch, AbortStarted
  <1>5. ASSUME NEW c \in Coordinators, NEW t \in Threads, ApplySteps(c, t) PROVE Remembers
    <2>1. CASE ApplyPutsConfig(c, t)
      BY <2>1 DEF ApplyPutsConfig, PutShardConfig, Remembers
    <2>2. CASE ApplyBegins(c, t) \/ ApplyEnds(c, t) \/ ApplyFailsCycle(c, t)
      BY <2>2, CyclePutEffect DEF ApplyBegins, ApplyEnds, ApplyFailsCycle, CycleStep
    <2> QED BY <1>1, <1>5, <2>1, <2>2 DEF ApplySteps, ApplyReadsConfig, ApplyReadsEpoch,
            ApplyReadsLatest, ApplyReadsCycle, ApplyConnects
  <1>6. ASSUME NEW c \in Coordinators, NEW t \in Threads, AdminSteps(c, t) PROVE Remembers
    <2>1. CASE PromotePutsConfig(c, t)
      BY <2>1 DEF PromotePutsConfig, PutShardConfig, Remembers
    <2>2. CASE SkipBegins(c, t) \/ SkipEnds(c, t)
      BY <2>2, CyclePutEffect DEF SkipBegins, SkipEnds, CycleStep
    <2> QED BY <1>1, <1>6, <2>1, <2>2 DEF AdminSteps, SkipReadsCycle, SkipReadsEpoch,
            PromoteReadsConfig
  <1>7. ASSUME \/ \E s \in Shards : ShardEpochEnds(s)
               \/ \E c \in Coordinators : TimerFires(c) \/ TakeOver(c) \/ Crash(c)
               \/ \E c \in Coordinators, t \in Rpcs :
                    \/ \E id \in RequestIDs : StartEpoch(c, t, id)
                    \/ ApplyScalingRecommendation(c, t)
                    \/ SkipScalingRecommendation(c, t)
                    \/ PromoteShardStandby(c, t)
               \/ UNCHANGED vars
        PROVE  Remembers
    <2>1. UNCHANGED storeVars
      BY <1>7 DEF ShardEpochEnds, TimerFires, TakeOver, Crash, StartEpoch,
         ApplyScalingRecommendation, SkipScalingRecommendation, PromoteShardStandby, vars
    <2> QED BY <1>1, <2>1
  <1> QED BY <1>2, <1>3, <1>4, <1>5, <1>6, <1>7 DEF Next, RpcSteps

\* The recommendations that are or were in the store, on their way, and
\* applied.
Known(r) ==
  \/ r = latest
  \/ r \in former.latest
  \/ \E c \in Coordinators, t \in Threads : call[c][t].at \in Applying /\ call[c][t].rec = r
  \/ \E x \in applied : x[1] = r

\* The configuration a recommendation leads to.
Outcome(r) == [version |-> r.version + 1, count |-> r.target, swapped |-> {}]

\* An epoch has one recommendation, its record is in the store, and whoever
\* applies it writes the same configuration.
AppliedInv ==
  /\ \A r, q \in Recommendation : Known(r) /\ Known(q) /\ r.epoch = q.epoch => r = q
  /\ \A r \in Recommendation : Known(r) /\ r.epoch >= 1 => r.epoch \in scaling
  /\ \A c \in Coordinators, t \in Threads :
       call[c][t].at \in Applying => call[c][t].cfg = Outcome(call[c][t].rec)
  /\ \A x \in applied : x[2] = Outcome(x[1])

\* A step that leaves the recommendations alone and brings no application
\* on its way.
LEMMA NothingNew ==
  ASSUME AppliedInv, OnlyTo(Places \ Applying), UNCHANGED <<scaling, latest, applied>>,
         former'.latest \subseteq former.latest \cup {latest}
  PROVE  AppliedInv'
  <1>1. \A c \in Coordinators, t \in Threads :
          call'[c][t].at \in Applying => call'[c][t] = call[c][t]
    BY DEF OnlyTo
  <1>2. \A r \in Recommendation : Known(r)' => Known(r)
    BY <1>1 DEF Known
  <1> QED BY <1>1, <1>2 DEF AppliedInv

\* A handler that carries what was known, and writes what it carries.
LEMMA KnownMoves ==
  ASSUME AppliedInv, NEW c \in Coordinators, NEW t \in Threads, Moved(c, t),
         UNCHANGED <<scaling, latest>>, former'.latest \subseteq former.latest \cup {latest},
         call'[c][t].at \in Applying =>
           Known(call'[c][t].rec) /\ call'[c][t].cfg = Outcome(call'[c][t].rec),
         \A x \in applied' : x \in applied \/ (Known(x[1]) /\ x[2] = Outcome(x[1]))
  PROVE  AppliedInv'
  <1>1. \A d \in Coordinators, u \in Threads :
          (d = c /\ u = t) \/ call'[d][u] = call[d][u]
    BY DEF Moved, Becomes
  <1>2. \A r \in Recommendation : Known(r)' => Known(r)
    BY <1>1 DEF Known
  <1>3. \A d \in Coordinators, u \in Threads :
          call'[d][u].at \in Applying => call'[d][u].cfg = Outcome(call'[d][u].rec)
    BY <1>1 DEF AppliedInv
  <1>4. \A x \in applied' : x[2] = Outcome(x[1])
    BY DEF AppliedInv
  <1> HIDE DEF Known, Outcome
  <1> QED BY <1>2, <1>3, <1>4 DEF AppliedInv, Outcome

\* The application.
LEMMA AppliedByApply ==
  ASSUME CycleTypeInv, AppliedInv, NEW c \in Coordinators, NEW t \in Threads, ApplySteps(c, t),
         former'.latest \subseteq former.latest \cup {latest}
  PROVE  AppliedInv'
  <1> DEFINE g == call[c][t]
  <1>1. g \in Handler /\ HandlerOK(t, g)
    BY HandlerTyped DEF CycleTypeInv, HandlersOK
  <1>2. UNCHANGED <<scaling, latest>> /\ Moved(c, t)
    BY ApplyProfile, ApplyStepsTyped
  <1>3. g.at \in Applying => Known(g.rec) /\ g.cfg = Outcome(g.rec)
    BY DEF Known, AppliedInv
  <1>4. CASE ApplyReadsLatest(c, t)
    <2>1. UNCHANGED applied
      BY <1>4 DEF ApplyReadsLatest, historyVars
    <2>2. ASSUME Return(c, t, "ok") \/ Return(c, t, "err") PROVE AppliedInv'
      <3>1. call'[c][t].at \notin Applying
        BY <2>2, ReturnMoved DEF Ended, Applying
      <3> QED BY <1>2, <2>1, <3>1, KnownMoves
    <2>3. ASSUME NEW seen \in {latest} \cup former.latest, seen.version = g.cfg.version,
                 call' = [call EXCEPT ![c][t].at = "apply_cycle", ![c][t].rec = seen,
                                      ![c][t].cfg = Proposed(seen, g.cfg)]
          PROVE  AppliedInv'
      <3> DEFINE new == Proposed(seen, g.cfg)
                 h == [g EXCEPT !.at = "apply_cycle", !.rec = seen, !.cfg = new]
      <3>1. new = Outcome(seen)
        BY <2>3 DEF Proposed, Outcome
      <3> HIDE DEF new
      <3>2. call' = [call EXCEPT ![c][t] = h]
        BY <2>3 DEF new
      <3>3. h.at = "apply_cycle" /\ h.rec = seen /\ h.cfg = new
        BY <1>1 DEF Handler
      <3>4. call'[c][t] = h
        <4>1. call \in [Coordinators -> [Threads -> Handler]]
          BY HandlerTyped
        <4> HIDE DEF h
        <4> QED BY <3>2, <4>1
      <3> HIDE DEF h
      <3>5. Known(seen)
        BY <2>3 DEF Known
      <3> QED BY <1>2, <2>1, <3>1, <3>3, <3>4, <3>5, KnownMoves
    <2> QED BY <1>4, <2>2, <2>3 DEF ApplyReadsLatest
  <1>5. CASE ApplyPutsConfig(c, t)
    <2>1. /\ g.at = "apply_put"
          /\ Goto(c, t, "apply_end") \/ Goto(c, t, "apply_failed")
          /\ applied' = applied \cup {<<g.rec, g.cfg>>} \/ UNCHANGED applied
      BY <1>5 DEF ApplyPutsConfig, At
    <2>2. Follows(g.at, "apply_end") /\ Follows(g.at, "apply_failed")
      BY <2>1 DEF Follows
    <2>3. call'[c][t].at \in {"apply_end", "apply_failed"}
      BY <2>1, <2>2, GotoKeeps
    <2>4. Known(g.rec) /\ g.cfg = Outcome(g.rec)
      BY <1>3, <2>1 DEF Applying
    <2> HIDE DEF g
    <2>5. \A x \in applied' : x \in applied \/ (Known(x[1]) /\ x[2] = Outcome(x[1]))
      BY <2>1, <2>4
    <2>6. call'[c][t].at \notin Applying
      BY <2>3 DEF Applying
    <2> QED BY <1>2, <2>5, <2>6, KnownMoves
  <1>6. CASE ApplyReadsCycle(c, t) \/ ApplyBegins(c, t) \/ ApplyConnects(c, t)
    <2>1. /\ UNCHANGED applied
          /\ g.at \in Applying
          /\ \/ Return(c, t, "err")
             \/ \E place \in {"apply_begin", "apply_connect", "apply_put", "apply_failed"} :
                  Goto(c, t, place) /\ Follows(g.at, place)
      <3>1. CASE ApplyReadsCycle(c, t) \/ ApplyConnects(c, t)
        BY <3>1 DEF ApplyReadsCycle, ApplyConnects, historyVars, At, Follows, Applying
      <3>2. CASE ApplyBegins(c, t)
        BY <3>2, CyclePutEffect DEF ApplyBegins, CycleStep, historyVars, At, Follows, Applying
      <3> QED BY <1>6, <3>1, <3>2
    <2>2. \/ call'[c][t].at \in Ended
          \/ call'[c][t].rec = g.rec /\ call'[c][t].cfg = g.cfg
      BY <2>1, ReturnMoved, GotoKeeps
    <2>3. call'[c][t].at \in Applying =>
            Known(call'[c][t].rec) /\ call'[c][t].cfg = Outcome(call'[c][t].rec)
      BY <1>3, <2>1, <2>2 DEF Ended, Applying
    <2> QED BY <1>2, <2>1, <2>3, KnownMoves
  <1>7. CASE \/ ApplyReadsConfig(c, t) \/ ApplyReadsEpoch(c, t) \/ ApplyEnds(c, t)
             \/ ApplyFailsCycle(c, t)
    <2>1. UNCHANGED applied
      BY <1>7, CyclePutEffect DEF ApplyReadsConfig, ApplyReadsEpoch, ApplyEnds, ApplyFailsCycle,
         CycleStep, historyVars
    <2>2. call'[c][t].at \in Ended \cup {"apply_epoch", "apply_latest"}
      <3>1. CASE ApplyReadsConfig(c, t)
        <4>1. CASE Return(c, t, "err")
          BY <4>1, ReturnMoved
        <4>2. ASSUME NEW seen, call' = [call EXCEPT ![c][t].at = "apply_epoch", ![c][t].cfg = seen]
              PROVE  call'[c][t].at = "apply_epoch"
          <5> DEFINE h == [g EXCEPT !.at = "apply_epoch", !.cfg = seen]
          <5>1. call' = [call EXCEPT ![c][t] = h]
                /\ call \in [Coordinators -> [Threads -> Handler]]
            BY <4>2, HandlerTyped
          <5>2. h.at = "apply_epoch"
            BY <1>1 DEF Handler
          <5> HIDE DEF h
          <5> QED BY <5>1, <5>2
        <4> QED BY <3>1, <4>1, <4>2 DEF ApplyReadsConfig
      <3>2. CASE ApplyReadsEpoch(c, t)
        BY <3>2, ReturnMoved, GotoKeeps DEF ApplyReadsEpoch, At, Follows
      <3>3. CASE ApplyEnds(c, t) \/ ApplyFailsCycle(c, t)
        <4>1. Return(c, t, "ok") \/ Return(c, t, "err")
          BY <3>3, CyclePutEffect DEF ApplyEnds, ApplyFailsCycle, CycleStep
        <4> QED BY <4>1, ReturnMoved
      <3> QED BY <1>7, <3>1, <3>2, <3>3
    <2>3. call'[c][t].at \notin Applying
      BY <2>2 DEF Ended, Applying
    <2> QED BY <1>2, <2>1, <2>3, KnownMoves
  <1> QED BY <1>4, <1>5, <1>6, <1>7 DEF ApplySteps

\* A recommendation is stored, the first of its epoch.
LEMMA AppliedByPut ==
  ASSUME CycleTypeInv, AppliedInv, NEW c \in Coordinators, CompletePutsScaling(c),
         former'.latest \subseteq former.latest \cup {latest}
  PROVE  AppliedInv'
  <1> DEFINE new == call[c][Timer].rec
  <1>1. HandlerOK(Timer, call[c][Timer]) /\ call[c][Timer].at = "done_scaling"
    BY DEF CycleTypeInv, HandlersOK, CompletePutsScaling, At, Threads
  <1>2. new \in Recommendation /\ new.epoch >= 1
    BY <1>1 DEF HandlerOK, Handler, Reporting
  <1>3. /\ scaling \subseteq scaling'
        /\ \/ latest' = new /\ new.epoch \notin scaling /\ new.epoch \in scaling'
           \/ latest' = latest
    BY DEF CompletePutsScaling, PutScaling, PutScalingAllowed
  <1>4. OnlyTo(Places \ Applying) /\ UNCHANGED applied
    <2>1. DonePlaces \cup {"skip_begin"} \cup Ended \subseteq Places \ Applying
      BY DEF DonePlaces, Closing, Reporting, Ended, Places, Applying
    <2> QED BY <2>1, CompleteProfile, OnlyToMore DEF CompleteSteps, historyVars
  <1>5. \A d \in Coordinators, t \in Threads :
          call'[d][t].at \in Applying => call'[d][t] = call[d][t]
    BY <1>4 DEF OnlyTo
  <1> HIDE DEF new
  <1>6. \A r \in Recommendation : Known(r)' =>
          Known(r) \/ (r = new /\ new.epoch \notin scaling /\ new.epoch \in scaling')
    BY <1>3, <1>4, <1>5 DEF Known
  <1>7. \A r \in Recommendation : Known(r)' /\ r.epoch >= 1 => r.epoch \in scaling'
    BY <1>3, <1>6 DEF AppliedInv
  <1>8. \A r, q \in Recommendation : Known(r)' /\ Known(q)' /\ r.epoch = q.epoch => r = q
    BY <1>2, <1>6 DEF AppliedInv
  <1> QED BY <1>4, <1>5, <1>7, <1>8 DEF AppliedInv

\* The other steps concern no recommendation.
LEMMA NotApplying ==
  ASSUME CycleTypeInv, [Next]_vars
  PROVE  \/ \E c \in Coordinators, t \in Threads : ApplySteps(c, t)
         \/ \E c \in Coordinators : CompletePutsScaling(c)
         \/ OnlyTo(Places \ Applying) /\ UNCHANGED <<scaling, latest, applied>>
  <1>1. /\ DonePlaces \cup {"skip_begin"} \cup Ended \subseteq Places \ Applying
        /\ SkipPlaces \cup Ended \subseteq Places \ Applying
        /\ StartPlaces \cup Ended \subseteq Places \ Applying
        /\ PromotePlaces \cup Ended \subseteq Places \ Applying
        /\ {"apply_config", "skip_cycle", "promote_config"} \subseteq Places \ Applying
        /\ {"apply_config", "idle"} \subseteq Places \ Applying
        /\ Ended \subseteq Places \ Applying
        /\ "start_cycle" \in Places \ Applying
    BY DEF DonePlaces, Closing, Reporting, SkipPlaces, StartPlaces, Deciding, Fanning,
       PromotePlaces, Ended, Places, Applying
  <1> DEFINE Goal == OnlyTo(Places \ Applying) /\ UNCHANGED <<scaling, latest, applied>>
  <1>2. ASSUME AutoSteps \/ AutoTimesOut PROVE Goal
    BY <1>1, <1>2, AutoProfile, OnlyToMore DEF historyVars
  <1>3. ASSUME NEW s \in Shards, ShardEpochEnds(s) PROVE Goal
    BY <1>3, OutsideTyped DEF OnlyTo, ShardEpochEnds, storeVars, historyVars
  <1>4. ASSUME NEW c \in Coordinators, TimerFires(c) \/ CompleteSteps(c),
               ~CompletePutsScaling(c)
        PROVE  Goal
    <2>1. OnlyTo(Places \ Applying) /\ UNCHANGED applied
      BY <1>1, <1>4, CompleteProfile, OnlyToMore DEF historyVars
    <2>2. UNCHANGED <<scaling, latest>>
      <3>1. CASE CompleteFailsCycle(c) \/ CompleteReadiesCycle(c)
        BY <3>1, CyclePutEffect DEF CompleteFailsCycle, CompleteReadiesCycle, CycleStep
      <3> QED BY <1>4, <3>1 DEF TimerFires, CompleteSteps, CompleteEpochDecision,
              CompleteRequiresLease, CommitCompletedEpoch, CompleteWritesStore,
              CompleteReadsVersion, storeVars
    <2> QED BY <2>1, <2>2
  <1>5. ASSUME NEW c \in Coordinators, TakeOver(c) PROVE Goal
    BY <1>5, OutsideTyped DEF OnlyTo, TakeOver, storeVars, historyVars
  <1>6. ASSUME NEW c \in Coordinators, Crash(c) PROVE Goal
    BY <1>1, <1>6, CrashProfile, OnlyToMore DEF storeVars, historyVars
  <1>7. ASSUME NEW c \in Coordinators, NEW t \in Rpcs,
               \/ ApplyScalingRecommendation(c, t)
               \/ SkipScalingRecommendation(c, t)
               \/ PromoteShardStandby(c, t)
        PROVE  Goal
    <2>1. t \in Threads
      BY DEF Threads
    <2> QED BY <1>1, <1>7, <2>1, CallsProfile, OnlyToMore DEF storeVars, historyVars
  <1>8. ASSUME NEW c \in Coordinators, NEW t \in Rpcs, NEW id \in RequestIDs, StartEpoch(c, t, id)
        PROVE  Goal
    <2>1. t \in Threads /\ [Idle EXCEPT !.at = "start_cycle", !.id = id].at = "start_cycle"
      BY DEF Threads, Idle
    <2>2. call' = [call EXCEPT ![c][t] = [Idle EXCEPT !.at = "start_cycle", !.id = id]]
      BY <1>8 DEF StartEpoch
    <2>3. OnlyTo(Places \ Applying)
      BY <1>1, <2>1, <2>2, SetOnlyTo
    <2> QED BY <1>8, <2>3 DEF StartEpoch, storeVars, historyVars
  <1>9. ASSUME NEW c \in Coordinators, NEW t \in Threads, StartSteps(c, t) \/ AdminSteps(c, t)
        PROVE  Goal
    <2>1. CASE StartSteps(c, t)
      BY <1>1, <2>1, StartProfile, OnlyToMore
    <2>2. CASE SkipReadsCycle(c, t) \/ SkipReadsEpoch(c, t) \/ SkipBegins(c, t) \/ SkipEnds(c, t)
      BY <1>1, <2>2, SkipProfile, OnlyToMore DEF historyVars
    <2>3. CASE PromoteReadsConfig(c, t) \/ PromotePutsConfig(c, t)
      BY <1>1, <2>3, PromoteProfile, OnlyToMore DEF historyVars
    <2> QED BY <1>9, <2>1, <2>2, <2>3 DEF AdminSteps
  <1>10. ASSUME UNCHANGED vars PROVE Goal
    BY <1>10 DEF vars, cycleVars, storeVars, historyVars, OnlyTo
  <1> HIDE DEF Goal
  <1>11. \/ Goal
         \/ \E c \in Coordinators, t \in Threads : ApplySteps(c, t)
         \/ \E c \in Coordinators : CompletePutsScaling(c)
    BY <1>2, <1>3, <1>4, <1>5, <1>6, <1>7, <1>8, <1>9, <1>10 DEF Next, RpcSteps
  <1> QED BY <1>11 DEF Goal

\* A recommendation is applied as one configuration, although operators and
\* the autoscaler apply it side by side, handlers outlive their lease and
\* their caller, failed writes are repeated and old values are read.
THEOREM RecommendationAppliedOnce == Spec => []AppliedOnce
  <1>1. Init => AppliedInv
    <2> SUFFICES ASSUME Init PROVE AppliedInv
      OBVIOUS
    <2>1. \A c \in Coordinators, t \in Threads : call[c][t].at \notin Applying
      BY DEF Init, Idle, Applying
    <2>2. applied = {} /\ latest.epoch = 0 /\ former.latest = {}
      BY DEF Init, StoreInit, NoRecommendation
    <2>3. \A r \in Recommendation : Known(r) => r = latest
      BY <2>1, <2>2 DEF Known
    <2> QED BY <2>1, <2>2, <2>3 DEF AppliedInv
  <1>2. CycleTypeInv /\ AppliedInv /\ [Next]_vars => AppliedInv'
    BY NotApplying, NothingNew, AppliedByApply, AppliedByPut, StepRemembers, RemembersOK
  <1>3. CycleTypeInv /\ AppliedInv => AppliedOnce
    <2> SUFFICES ASSUME CycleTypeInv, AppliedInv, NEW x \in applied, NEW y \in applied,
                        x[1].epoch = y[1].epoch
                 PROVE  x = y
      BY DEF AppliedOnce
    <2>1. x \in Recommendation \X ConfigRecord /\ y \in Recommendation \X ConfigRecord
      BY DEF CycleTypeInv, TypeOK
    <2>2. Known(x[1]) /\ Known(y[1])
      BY DEF Known
    <2>3. x[1] = y[1]
      BY <2>1, <2>2 DEF AppliedInv
    <2>4. x[2] = y[2]
      BY <2>3 DEF AppliedInv
    <2> QED BY <2>1, <2>3, <2>4
  <1>4. Spec => []CycleTypeInv
    BY CycleInitTyped, CycleStepTypes, PTL DEF Spec
  <1> QED BY <1>1, <1>2, <1>3, <1>4, PTL DEF Spec

-----------------------------------------------------------------------------
(***************************************************************************)
(* The holder reaches the shards                                           *)
(***************************************************************************)

\* Where no read was wrong, this one is not.
LEMMA SeesExactly ==
  ASSUME CycleTypeInv, ExactReads', NEW seen, NEW item, Sees(seen, item)
  PROVE  seen = item /\ NoFault
  <1>1. used \in Used
    BY DEF CycleTypeInv, TypeOK
  <1>2. ~Misread
    BY <1>1 DEF Misread, ExactReads, Used
  <1> QED BY <1>2 DEF Sees

\* A transition of the cycle that reads exactly.
ExactPut(from, to, done, refused) ==
  LET allowed == PutEpochCycleTransitionAllowed(from, to) IN
  /\ \/ allowed /\ cycle' = to /\ done /\ NoFault
     \/ ~allowed /\ refused /\ NoFault /\ UNCHANGED cycle
     \/ Fault /\ ((allowed /\ cycle' = to) \/ UNCHANGED cycle) /\ refused
  /\ UNCHANGED <<epoch, config, snapshot, scaling, latest,
                 shard, holder, local, timer, clients, historyVars>>

LEMMA PutsExactly ==
  ASSUME CycleTypeInv, ExactReads', NEW from, NEW to, NEW done, NEW refused,
         CyclePut(from, to, done, refused)
  PROVE  ExactPut(from, to, done, refused)
  <1>1. used \in Used
    BY DEF CycleTypeInv, TypeOK
  <1>2. ~Misread
    BY <1>1 DEF Misread, ExactReads, Used
  <1> QED BY <1>2 DEF CyclePut, ExactPut, PutEpochCycleTransition

\* As long as nobody has taken over, the other coordinators do nothing, and
\* a configuration is written by a handler of the holder that has dialled
\* its shards.
HolderInv ==
  used.takeovers = 0 =>
    /\ holder = AutoTarget
    /\ \A c \in Coordinators \ {AutoTarget} :
         ~timer[c] /\ \A t \in Threads : call[c][t].at = "idle"
    /\ ExactReads =>
         /\ 1 .. config.count \subseteq clients[AutoTarget]
         /\ \A t \in Threads :
              call[AutoTarget][t].at \in {"apply_put", "promote_put"} =>
                1 .. call[AutoTarget][t].cfg.count \subseteq clients[AutoTarget]

\* Places of a handler that is about to write a configuration.
Writing == {"apply_put", "promote_put"}

\* A step of one handler, or of none, that writes no configuration, keeps the
\* clients and gets no handler to the point of writing.
LEMMA HolderQuiet ==
  ASSUME HolderInv, UNCHANGED holder, used'.takeovers = used.takeovers, ExactReads' => ExactReads,
         config'.count = config.count, UNCHANGED clients,
         \A c \in Coordinators : timer'[c] => timer[c] \/ used.takeovers # 0 \/ c = AutoTarget,
         OnlyTo(Places \ Writing),
         \A c \in Coordinators \ {AutoTarget}, t \in Threads :
           used.takeovers = 0 => call'[c][t] = call[c][t]
  PROVE  HolderInv'
  BY DEF HolderInv, OnlyTo, Writing

\* A handler moves only where the lease was held.
LEMMA HolderAlone ==
  ASSUME CycleTypeInv, HolderInv, NEW c \in Coordinators, NEW t \in Threads, Moved(c, t),
         call[c][t].at # "idle" \/ holder = c \/ timer[c]
  PROVE  \A d \in Coordinators \ {AutoTarget}, u \in Threads :
           used.takeovers = 0 => call'[d][u] = call[d][u]
  <1>1. used.takeovers = 0 => c = AutoTarget
    BY DEF HolderInv
  <1> QED BY <1>1 DEF Moved, Becomes

\* Faults and misreads leave the count of take-overs alone; misreads stay
\* counted.
LEMMA FaultsApart ==
  ASSUME CycleTypeInv, Counted
  PROVE  used'.takeovers = used.takeovers /\ (ExactReads' => ExactReads)
  BY FaultTyped DEF CycleTypeInv, TypeOK, Used, ExactReads

\* StartEpoch does not change the shard count.
LEMMA HolderStart ==
  ASSUME CycleTypeInv, HolderInv, NEW c \in Coordinators, NEW t \in Threads, StartSteps(c, t)
  PROVE  HolderInv'
  <1>1. /\ OnlyTo(StartPlaces \cup Ended)
        /\ UNCHANGED <<holder, clients>>
        /\ Counted
    BY StartProfile
  <1>2. StartPlaces \cup Ended \subseteq Places \ Writing
    BY DEF StartPlaces, Deciding, Fanning, Ended, Places, Writing
  <1>3. Moved(c, t) /\ call[c][t].at # "idle"
    BY StartStepsTyped, Called DEF RpcSteps
  <1>4. config \in ConfigRecord
    BY DEF CycleTypeInv, TypeOK, StoreTypeOK
  <1>5. config'.count = config.count
    <2>1. CASE StartWritesStore(c, t)
      <3>1. config' = config \/ config' = [config EXCEPT !.version = call[c][t].cfg.version]
        BY <2>1 DEF StartWritesStore, StoreStartEpoch
      <3> QED BY <1>4, <3>1 DEF ConfigRecord
    <2>2. CASE StartActivatesCycle(c, t)
      BY <2>2, CyclePutEffect DEF StartActivatesCycle, CycleStep
    <2> QED BY <2>1, <2>2 DEF StartSteps, RequireEpochCycleAllowsStart, StartEpochDecision,
            StartReadsConfig, StartShard, StartRequiresLease, StartPutsSnapshot,
            StartReadsCycle, CommitStartedEpoch, AbortStarted, storeVars
  <1>6. \A d \in Coordinators : timer'[d] => timer[d] \/ d = c
    <2>1. timer \in [Coordinators -> BOOLEAN]
      BY DEF CycleTypeInv, TypeOK
    <2>2. UNCHANGED timer \/ timer' = [timer EXCEPT ![c] = TRUE]
      <3>1. CASE StartActivatesCycle(c, t)
        BY <3>1, CyclePutEffect DEF StartActivatesCycle, CycleStep
      <3> QED BY <3>1 DEF StartSteps, RequireEpochCycleAllowsStart, StartEpochDecision,
              StartReadsConfig, StartShard, StartRequiresLease, StartPutsSnapshot,
              StartWritesStore, StartReadsCycle, CommitStartedEpoch, AbortStarted
    <2> QED BY <2>1, <2>2
  <1>7. used.takeovers = 0 => c = AutoTarget
    BY <1>3 DEF HolderInv
  <1>8. used'.takeovers = used.takeovers /\ (ExactReads' => ExactReads)
    BY <1>1, FaultsApart
  <1>9. OnlyTo(Places \ Writing)
    BY <1>1, <1>2, OnlyToMore
  <1>10. \A d \in Coordinators \ {AutoTarget}, u \in Threads :
           used.takeovers = 0 => call'[d][u] = call[d][u]
    BY <1>3, HolderAlone
  <1> QED BY <1>1, <1>5, <1>6, <1>7, <1>8, <1>9, <1>10, HolderQuiet

\* The completion and the skips write no configuration.
LEMMA HolderComplete ==
  ASSUME CycleTypeInv, HolderInv, NEW c \in Coordinators, TimerFires(c) \/ CompleteSteps(c)
  PROVE  HolderInv'
  <1>1. /\ OnlyTo(DonePlaces \cup {"skip_begin"} \cup Ended)
        /\ UNCHANGED <<config, holder, clients>>
        /\ Counted
    BY CompleteProfile
  <1>2. DonePlaces \cup {"skip_begin"} \cup Ended \subseteq Places \ Writing
    BY DEF DonePlaces, Closing, Reporting, Ended, Places, Writing
  <1>3. Moved(c, Timer) /\ (call[c][Timer].at # "idle" \/ timer[c]) /\ Timer \in Threads
    BY TimerFiresTyped, CompleteStepsTyped, Called DEF TimerFires, Threads
  <1>4. \A d \in Coordinators : timer'[d] => timer[d]
    <2>1. timer \in [Coordinators -> BOOLEAN]
      BY DEF CycleTypeInv, TypeOK
    <2>2. UNCHANGED timer \/ timer' = [timer EXCEPT ![c] = FALSE]
      <3>1. CASE CompleteFailsCycle(c) \/ CompleteReadiesCycle(c)
        BY <3>1, CyclePutEffect DEF CompleteFailsCycle, CompleteReadiesCycle, CycleStep
      <3> QED BY <3>1 DEF TimerFires, CompleteSteps, CompleteEpochDecision,
              CompleteRequiresLease, CommitCompletedEpoch, CompleteWritesStore,
              CompleteReadsVersion, CompletePutsScaling
    <2> QED BY <2>1, <2>2
  <1>5. used'.takeovers = used.takeovers /\ (ExactReads' => ExactReads)
    BY <1>1, FaultsApart
  <1>6. OnlyTo(Places \ Writing)
    BY <1>1, <1>2, OnlyToMore
  <1>7. \A d \in Coordinators \ {AutoTarget}, u \in Threads :
          used.takeovers = 0 => call'[d][u] = call[d][u]
    BY <1>3, HolderAlone
  <1> QED BY <1>1, <1>4, <1>5, <1>6, <1>7, HolderQuiet

\* Calls are made to the holder.
LEMMA HolderCalls ==
  ASSUME CycleTypeInv, HolderInv, NEW c \in Coordinators, NEW t \in Threads,
         \/ \E id \in RequestIDs : StartEpoch(c, t, id)
         \/ ApplyScalingRecommendation(c, t)
         \/ SkipScalingRecommendation(c, t)
         \/ PromoteShardStandby(c, t)
  PROVE  HolderInv'
  <1>1. /\ Moved(c, t) /\ holder = c
        /\ UNCHANGED <<config, holder, clients, timer>>
    BY StartEpochTyped, CallsTyped DEF StartEpoch, ApplyScalingRecommendation, Apply,
       SkipScalingRecommendation, PromoteShardStandby, storeVars
  <1>2. used'.takeovers = used.takeovers /\ (ExactReads' => ExactReads)
    <2>1. used \in Used
      BY DEF CycleTypeInv, TypeOK
    <2>2. UNCHANGED used \/ used' = [used EXCEPT !.starts = @ + 1]
      BY DEF StartEpoch, ApplyScalingRecommendation, SkipScalingRecommendation,
         PromoteShardStandby
    <2> QED BY <2>1, <2>2 DEF Used, ExactReads
  <1>3. OnlyTo(Places \ Writing)
    <2>1. {"start_cycle", "apply_config", "skip_cycle", "promote_config"} \subseteq Places \ Writing
      BY DEF Places, Writing
    <2>2. ASSUME NEW id \in RequestIDs, StartEpoch(c, t, id) PROVE OnlyTo(Places \ Writing)
      <3>1. [Idle EXCEPT !.at = "start_cycle", !.id = id].at = "start_cycle"
        BY DEF Idle
      <3>2. call' = [call EXCEPT ![c][t] = [Idle EXCEPT !.at = "start_cycle", !.id = id]]
        BY <2>2 DEF StartEpoch
      <3> QED BY <2>1, <3>1, <3>2, SetOnlyTo
    <2> QED BY <2>1, <2>2, CallsProfile, OnlyToMore
  <1>4. \A d \in Coordinators \ {AutoTarget}, u \in Threads :
          used.takeovers = 0 => call'[d][u] = call[d][u]
    BY <1>1, HolderAlone
  <1> QED BY <1>1, <1>2, <1>3, <1>4, HolderQuiet

\* A handler of the holder that dialled the shards of its proposal writes it.
LEMMA HolderApply ==
  ASSUME CycleTypeInv, HolderInv, NEW c \in Coordinators, NEW t \in Threads, ApplySteps(c, t)
  PROVE  HolderInv'
  <1> DEFINE g == call[c][t]
  <1>1. OnlyTo(ApplyPlaces \cup Ended) /\ UNCHANGED <<holder, timer>> /\ Counted
    BY ApplyProfile
  <1>2. used'.takeovers = used.takeovers /\ (ExactReads' => ExactReads)
    BY <1>1, FaultsApart
  <1>3. Moved(c, t) /\ g.at # "idle"
    BY ApplyStepsTyped, Called DEF RpcSteps
  <1>4. used.takeovers = 0 => c = AutoTarget
    BY <1>3 DEF HolderInv
  <1>5. \A d \in Coordinators \ {AutoTarget}, u \in Threads :
          used.takeovers = 0 => call'[d][u] = call[d][u]
    BY <1>3, HolderAlone
  <1>6. CASE ApplyConnects(c, t)
    <2>1. /\ \/ Goto(c, t, "apply_put") /\ clients' = [clients EXCEPT ![c] = @ \cup 1 .. g.cfg.count]
             \/ Goto(c, t, "apply_failed") /\ UNCHANGED clients
          /\ UNCHANGED config /\ Follows(g.at, "apply_put") /\ Follows(g.at, "apply_failed")
      BY <1>6 DEF ApplyConnects, storeVars, At, Follows
    <2>2. clients \in [Coordinators -> SUBSET Shards]
      BY DEF CycleTypeInv, TypeOK
    <2>3. \/ /\ call'[c][t].cfg = g.cfg
             /\ clients' = [clients EXCEPT ![c] = @ \cup 1 .. g.cfg.count]
          \/ call'[c][t].at = "apply_failed" /\ UNCHANGED clients
      BY <2>1, GotoKeeps
    <2> HIDE DEF g
    <2>4. /\ \A d \in Coordinators : clients[d] \subseteq clients'[d]
          /\ call'[c][t].at \in Writing => 1 .. call'[c][t].cfg.count \subseteq clients'[c]
      BY <2>2, <2>3 DEF Writing
    <2>5. \A u \in Threads : used.takeovers = 0 =>
            u = t \/ call'[AutoTarget][u] = call[AutoTarget][u]
      BY <1>3, <1>4 DEF Moved, Becomes
    <2> QED BY <1>1, <1>2, <1>4, <1>5, <2>1, <2>4, <2>5 DEF HolderInv, Writing
  <1>7. CASE ApplyPutsConfig(c, t)
    <2>1. /\ g.at = "apply_put"
          /\ Goto(c, t, "apply_end") \/ Goto(c, t, "apply_failed")
          /\ config' = g.cfg \/ UNCHANGED config
          /\ UNCHANGED clients
      BY <1>7 DEF ApplyPutsConfig, PutShardConfig, At
    <2>2. call'[c][t].at \in {"apply_end", "apply_failed"}
      BY <2>1, GotoKeeps DEF Follows
    <2>3. \A u \in Threads : used.takeovers = 0 =>
            u = t \/ call'[AutoTarget][u] = call[AutoTarget][u]
      BY <1>3, <1>4 DEF Moved, Becomes
    <2>4. used.takeovers = 0 /\ ExactReads => 1 .. config'.count \subseteq clients'[AutoTarget]
      BY <1>4, <2>1 DEF HolderInv
    <2> HIDE DEF g
    <2> QED BY <1>1, <1>2, <1>4, <1>5, <2>1, <2>2, <2>3, <2>4 DEF HolderInv
  <1>8. CASE ~ApplyConnects(c, t) /\ ~ApplyPutsConfig(c, t)
    <2>1. UNCHANGED <<config, clients>>
      <3>1. CASE ApplyBegins(c, t) \/ ApplyEnds(c, t) \/ ApplyFailsCycle(c, t)
        BY <3>1, CyclePutEffect DEF ApplyBegins, ApplyEnds, ApplyFailsCycle, CycleStep
      <3> QED BY <1>8, <3>1 DEF ApplySteps, ApplyReadsConfig, ApplyReadsEpoch, ApplyReadsLatest,
              ApplyReadsCycle, storeVars
    <2>2. call'[c][t].at \in ApplyPlaces \cup Ended /\ call'[c][t].at # "apply_put"
      <3>1. CASE ApplyReadsConfig(c, t)
        <4>1. ASSUME NEW seen,
                     call' = [call EXCEPT ![c][t].at = "apply_epoch", ![c][t].cfg = seen]
              PROVE  call'[c][t].at = "apply_epoch"
          <5> DEFINE h == [g EXCEPT !.at = "apply_epoch", !.cfg = seen]
          <5>1. call' = [call EXCEPT ![c][t] = h] /\ call \in [Coordinators -> [Threads -> Handler]]
            BY <4>1, HandlerTyped
          <5>2. h.at = "apply_epoch"
            BY HandlerTyped DEF Handler
          <5> HIDE DEF h
          <5> QED BY <5>1, <5>2
        <4>2. call'[c][t].at \in Ended \cup {"apply_epoch"}
          BY <3>1, <4>1, ReturnMoved DEF ApplyReadsConfig
        <4> QED BY <4>2 DEF ApplyPlaces, Evaluating, Ended
      <3>2. CASE ApplyReadsLatest(c, t)
        <4>1. ASSUME NEW seen, NEW new,
                     call' = [call EXCEPT ![c][t].at = "apply_cycle", ![c][t].rec = seen,
                                          ![c][t].cfg = new]
              PROVE  call'[c][t].at = "apply_cycle"
          <5> DEFINE h == [g EXCEPT !.at = "apply_cycle", !.rec = seen, !.cfg = new]
          <5>1. call' = [call EXCEPT ![c][t] = h] /\ call \in [Coordinators -> [Threads -> Handler]]
            BY <4>1, HandlerTyped
          <5>2. h.at = "apply_cycle"
            BY HandlerTyped DEF Handler
          <5> HIDE DEF h
          <5> QED BY <5>1, <5>2
        <4>2. call'[c][t].at \in Ended \cup {"apply_cycle"}
          BY <3>2, <4>1, ReturnMoved DEF ApplyReadsLatest
        <4> QED BY <4>2 DEF ApplyPlaces, Applying, Ended
      <3>3. CASE ApplyReadsEpoch(c, t) \/ ApplyReadsCycle(c, t)
        <4>1. \/ Return(c, t, "err")
              \/ \E place \in {"apply_latest", "apply_begin", "apply_connect"} :
                   Goto(c, t, place) /\ Follows(g.at, place)
          BY <3>3 DEF ApplyReadsEpoch, ApplyReadsCycle, At, Follows
        <4>2. call'[c][t].at \in Ended \cup {"apply_latest", "apply_begin", "apply_connect"}
          BY <4>1, ReturnMoved, GotoKeeps
        <4> QED BY <4>2 DEF ApplyPlaces, Evaluating, Applying, Ended
      <3>4. CASE ApplyBegins(c, t) \/ ApplyEnds(c, t) \/ ApplyFailsCycle(c, t)
        <4>1. \/ Return(c, t, "ok") \/ Return(c, t, "err")
              \/ Goto(c, t, "apply_connect") /\ Follows(g.at, "apply_connect")
          BY <3>4, CyclePutEffect DEF ApplyBegins, ApplyEnds, ApplyFailsCycle, CycleStep, At, Follows
        <4>2. call'[c][t].at \in Ended \cup {"apply_connect"}
          BY <4>1, ReturnMoved, GotoKeeps
        <4> QED BY <4>2 DEF ApplyPlaces, Applying, Ended
      <3> QED BY <1>8, <3>1, <3>2, <3>3, <3>4 DEF ApplySteps
    <2>3. call'[c][t].at \in Places \ Writing
      BY <2>2 DEF ApplyPlaces, Evaluating, Applying, Ended, Places, Writing
    <2>4. OnlyTo(Places \ Writing)
      BY <1>3, <2>3, MovedOnlyTo
    <2> QED BY <1>1, <1>2, <1>5, <2>1, <2>4, HolderQuiet
  <1> QED BY <1>6, <1>7, <1>8

\* A promotion writes the shards the configuration has.
LEMMA HolderPromote ==
  ASSUME CycleTypeInv, HolderInv, NEW c \in Coordinators, NEW t \in Threads,
         PromoteReadsConfig(c, t) \/ PromotePutsConfig(c, t)
  PROVE  HolderInv'
  <1> DEFINE g == call[c][t]
  <1>1. /\ UNCHANGED <<holder, timer, clients>>
        /\ used'.takeovers = used.takeovers /\ (ExactReads' => ExactReads)
    BY PromoteProfile, FaultsApart
  <1>2. Moved(c, t) /\ g.at # "idle"
    BY PromoteReadsConfigTyped, PromotePutsConfigTyped, Called DEF RpcSteps, AdminSteps
  <1>3. used.takeovers = 0 => c = AutoTarget
    BY <1>2 DEF HolderInv
  <1>4. \A d \in Coordinators \ {AutoTarget}, u \in Threads :
          used.takeovers = 0 => call'[d][u] = call[d][u]
    BY <1>2, HolderAlone
  <1>5. \A u \in Threads : used.takeovers = 0 =>
          u = t \/ call'[AutoTarget][u] = call[AutoTarget][u]
    BY <1>2, <1>3 DEF Moved, Becomes
  <1>6. CASE PromoteReadsConfig(c, t)
    <2>1. ExactReads' => call'[c][t].at \in Ended \/ call'[c][t].cfg.count = config.count
      <3> DEFINE new(s) == [config EXCEPT !.version = @ + 1,
                              !.swapped = IF s \in @ THEN @ \ {s} ELSE @ \cup {s}]
                 h(s) == [g EXCEPT !.at = "promote_put", !.cfg = new(s)]
      <3> SUFFICES ASSUME ExactReads'
                   PROVE  call'[c][t].at \in Ended \/ call'[c][t].cfg.count = config.count
        OBVIOUS
      <3>1. \/ Return(c, t, "err")
            \/ \E s \in 1 .. config.count :
                 call' = [call EXCEPT ![c][t].at = "promote_put", ![c][t].cfg = new(s)]
        <4>1. CASE Return(c, t, "err")
          BY <4>1
        <4>2. ASSUME NEW seen, Sees(seen, config), NEW s \in 1 .. seen.count,
                     call' = [call EXCEPT ![c][t].at = "promote_put",
                                ![c][t].cfg = [seen EXCEPT !.version = @ + 1,
                                  !.swapped = IF s \in @ THEN @ \ {s} ELSE @ \cup {s}]]
              PROVE  \E r \in 1 .. config.count :
                       call' = [call EXCEPT ![c][t].at = "promote_put", ![c][t].cfg = new(r)]
          <5>1. seen = config
            BY <4>2, SeesExactly
          <5> QED BY <4>2, <5>1
        <4> HIDE DEF new
        <4> QED BY <1>6, <4>1, <4>2 DEF PromoteReadsConfig
      <3>2. ASSUME NEW s \in 1 .. config.count,
                   call' = [call EXCEPT ![c][t].at = "promote_put", ![c][t].cfg = new(s)]
            PROVE  call'[c][t].cfg.count = config.count
        <4>1. new(s).count = config.count
          BY DEF CycleTypeInv, TypeOK, StoreTypeOK, ConfigRecord
        <4> HIDE DEF new
        <4>2. call' = [call EXCEPT ![c][t] = h(s)] /\ call \in [Coordinators -> [Threads -> Handler]]
          BY <3>2, HandlerTyped
        <4>3. h(s).cfg = new(s)
          BY HandlerTyped DEF Handler
        <4> HIDE DEF h
        <4> QED BY <4>1, <4>2, <4>3
      <3> QED BY <3>1, <3>2, ReturnMoved
    <2>2. UNCHANGED config
      BY <1>6 DEF PromoteReadsConfig, storeVars
    <2> HIDE DEF g
    <2> QED BY <1>1, <1>3, <1>4, <1>5, <2>1, <2>2 DEF HolderInv, Ended
  <1>7. CASE PromotePutsConfig(c, t)
    <2>1. /\ g.at = "promote_put"
          /\ Return(c, t, "ok") \/ Return(c, t, "err")
          /\ config' = g.cfg \/ UNCHANGED config
      BY <1>7 DEF PromotePutsConfig, PutShardConfig, At
    <2>2. call'[c][t].at \in Ended
      BY <2>1, ReturnMoved
    <2>3. used.takeovers = 0 /\ ExactReads => 1 .. config'.count \subseteq clients'[AutoTarget]
      BY <1>1, <1>3, <2>1 DEF HolderInv
    <2> HIDE DEF g
    <2> QED BY <1>1, <1>3, <1>4, <1>5, <2>2, <2>3 DEF HolderInv, Ended
  <1> QED BY <1>6, <1>7

\* A crash: the process dials the shards of the stored configuration.
LEMMA HolderCrash ==
  ASSUME CycleTypeInv, HolderInv, NEW c \in Coordinators, Crash(c)
  PROVE  HolderInv'
  <1>1. /\ used \in Used
        /\ timer \in [Coordinators -> BOOLEAN] /\ clients \in [Coordinators -> SUBSET Shards]
        /\ call \in [Coordinators -> [Threads -> Handler]]
    BY TypeParts DEF CycleTypeInv, TypeOK
  <1>2. used'.takeovers = used.takeovers /\ (ExactReads' => ExactReads)
    <2>1. \/ used' = [used EXCEPT !.crashes = @ + 1]
          \/ used' = [used EXCEPT !.crashes = @ + 1, !.misreads = @ + 1]
      BY DEF Crash
    <2>2. used.misreads \in 0 .. MaxMishaps /\ MaxMishaps \in Nat
      BY <1>1, BoundsAssumption DEF Used
    <2>3. used'.takeovers = used.takeovers /\ used'.misreads \in {used.misreads, used.misreads + 1}
      BY <1>1, <2>1 DEF Used
    <2> QED BY <2>2, <2>3 DEF ExactReads
  <1>3. /\ \A d \in Coordinators : timer'[d] => timer[d]
        /\ \A d \in Coordinators : d # c => clients'[d] = clients[d]
        /\ ExactReads' => clients'[c] = 1 .. config.count
        /\ UNCHANGED <<config, holder>>
    <2>1. /\ \A d \in Coordinators : timer'[d] => timer[d]
          /\ UNCHANGED <<config, holder>>
      BY <1>1 DEF Crash, storeVars
    <2>2. PICK n : /\ clients' = [clients EXCEPT ![c] = 1 .. n]
                   /\ \/ n = config.count
                      \/ used' = [used EXCEPT !.crashes = @ + 1, !.misreads = @ + 1]
      BY DEF Crash
    <2>3. ExactReads' => n = config.count
      <3>1. used.misreads \in 0 .. MaxMishaps /\ MaxMishaps \in Nat
        BY <1>1, BoundsAssumption DEF Used
      <3>2. n = config.count \/ used'.misreads = used.misreads + 1
        BY <1>1, <2>2 DEF Used
      <3> QED BY <3>1, <3>2 DEF ExactReads
    <2> QED BY <1>1, <2>1, <2>2, <2>3
  <1>4. /\ \A t \in Threads : call'[c][t].at \in Ended
        /\ \A d \in Coordinators, t \in Threads : d # c => call'[d][t] = call[d][t]
    BY CrashTyped
  <1>5. c # AutoTarget => \A t \in Threads : call'[c][t].at = "idle"
    <2> DEFINE h(t) == IF Awaited(c, t) THEN [Idle EXCEPT !.at = "err"] ELSE Idle
    <2>1. call' = [call EXCEPT ![c] = [t \in Threads |-> h(t)]]
      BY DEF Crash
    <2>2. c # AutoTarget => \A t \in Threads : h(t).at = "idle"
      BY DEF Awaited, Idle
    <2> HIDE DEF h
    <2> QED BY <1>1, <2>1, <2>2
  <1> SUFFICES ASSUME used.takeovers = 0 PROVE HolderInv'
    BY <1>2 DEF HolderInv
  <1>6. holder' = AutoTarget
    BY <1>3 DEF HolderInv
  <1>7. ASSUME NEW d \in Coordinators \ {AutoTarget}
        PROVE  ~timer'[d] /\ \A t \in Threads : call'[d][t].at = "idle"
    <2>1. ~timer[d] /\ \A t \in Threads : call[d][t].at = "idle"
      BY DEF HolderInv
    <2> QED BY <1>3, <1>4, <1>5, <2>1
  <1>8. ExactReads' => 1 .. config'.count \subseteq clients'[AutoTarget]
    BY <1>2, <1>3 DEF HolderInv
  <1>9. ASSUME ExactReads', NEW t \in Threads, call'[AutoTarget][t].at \in {"apply_put", "promote_put"}
        PROVE  1 .. call'[AutoTarget][t].cfg.count \subseteq clients'[AutoTarget]
    <2>1. AutoTarget # c
      BY <1>4, <1>9 DEF Ended
    <2> QED BY <1>2, <1>3, <1>4, <1>9, <2>1 DEF HolderInv
  <1> QED BY <1>6, <1>7, <1>8, <1>9 DEF HolderInv

\* The autoscaler and what happens outside the coordinators.
LEMMA HolderAuto ==
  ASSUME CycleTypeInv, HolderInv,
         \/ AutoSteps \/ AutoTimesOut
         \/ \E s \in Shards : ShardEpochEnds(s)
         \/ UNCHANGED vars
  PROVE  HolderInv'
  <1>1. {"apply_config", "idle"} \subseteq Places \ Writing
    BY DEF Places, Writing
  <1>2. CASE AutoSteps \/ AutoTimesOut
    <2>1. /\ OnlyTo({"apply_config", "idle"})
          /\ UNCHANGED <<config, holder, timer, clients>>
          /\ Counted
      BY <1>2, AutoProfile
    <2>2. \/ UNCHANGED call
          \/ \E t \in Threads : Moved(AutoTarget, t)
      BY <1>2, AutoAloneTyped, AutoCallsTyped, AutoAnsweredTyped DEF AutoSteps, Threads, Rpcs
    <2>3. \A d \in Coordinators \ {AutoTarget}, u \in Threads : call'[d][u] = call[d][u]
      BY <2>2 DEF Moved, Becomes
    <2>4. used'.takeovers = used.takeovers /\ (ExactReads' => ExactReads)
      BY <2>1, FaultsApart
    <2>5. OnlyTo(Places \ Writing)
      BY <1>1, <2>1, OnlyToMore
    <2> QED BY <2>1, <2>3, <2>4, <2>5, HolderQuiet
  <1>3. CASE UNCHANGED <<config, holder, timer, clients, used, call>>
    <2>1. OnlyTo(Places \ Writing)
      BY <1>3 DEF OnlyTo
    <2>2. ExactReads' => ExactReads
      BY <1>3 DEF ExactReads
    <2> QED BY <1>3, <2>1, <2>2, HolderQuiet
  <1> QED BY <1>2, <1>3 DEF ShardEpochEnds, storeVars, vars, cycleVars

\* Every step keeps it.
LEMMA HolderStep == CycleTypeInv /\ HolderInv /\ [Next]_vars => HolderInv'
  <1> SUFFICES ASSUME CycleTypeInv, HolderInv, [Next]_vars PROVE HolderInv'
    OBVIOUS
  <1>1. ASSUME NEW c \in Coordinators, TakeOver(c) PROVE HolderInv'
    <2>1. used'.takeovers # 0
      <3>1. used \in Used
        BY DEF CycleTypeInv, TypeOK
      <3> QED BY <1>1, <3>1, BoundsAssumption DEF TakeOver, Used
    <2> QED BY <2>1 DEF HolderInv
  <1>2. ASSUME NEW c \in Coordinators, NEW t \in Threads,
               SkipReadsCycle(c, t) \/ SkipReadsEpoch(c, t) \/ SkipBegins(c, t) \/ SkipEnds(c, t)
        PROVE  HolderInv'
    <2>1. OnlyTo(SkipPlaces \cup Ended) /\ UNCHANGED <<config, holder, timer, clients>>
          /\ Counted
      BY <1>2, SkipProfile
    <2>2. SkipPlaces \cup Ended \subseteq Places \ Writing
      BY DEF SkipPlaces, Ended, Places, Writing
    <2>3. Moved(c, t) /\ call[c][t].at # "idle"
      BY <1>2, SkipTyped, Called DEF RpcSteps, AdminSteps
    <2>4. used'.takeovers = used.takeovers /\ (ExactReads' => ExactReads)
      BY <2>1, FaultsApart
    <2>5. \A d \in Coordinators \ {AutoTarget}, u \in Threads :
            used.takeovers = 0 => call'[d][u] = call[d][u]
      BY <2>3, HolderAlone
    <2> QED BY <2>1, <2>2, <2>4, <2>5, OnlyToMore, HolderQuiet
  <1>3. ASSUME NEW c \in Coordinators, NEW t \in Rpcs,
               \/ \E id \in RequestIDs : StartEpoch(c, t, id)
               \/ ApplyScalingRecommendation(c, t)
               \/ SkipScalingRecommendation(c, t)
               \/ PromoteShardStandby(c, t)
        PROVE  HolderInv'
    <2>1. t \in Threads
      BY DEF Threads
    <2> QED BY <1>3, <2>1, HolderCalls
  <1>4. ASSUME NEW c \in Coordinators, NEW t \in Threads, RpcSteps(c, t) PROVE HolderInv'
    BY <1>2, <1>4, HolderStart, HolderApply, HolderPromote DEF RpcSteps, AdminSteps
  <1> QED BY <1>1, <1>3, <1>4, HolderComplete, HolderCrash, HolderAuto DEF Next

\* The coordinator in charge has a client for every shard of the
\* configuration, through crashes, faults and half-done applications, as
\* long as the lease stays where it is and reads are exact.
THEOREM ShardsAreReached == Spec => []HolderReachesShards
  <1>1. Init => HolderInv
    <2> SUFFICES ASSUME Init PROVE HolderInv
      OBVIOUS
    <2>1. \A c \in Coordinators, t \in Threads : call[c][t].at = "idle"
      BY DEF Init, Idle
    <2> QED BY <2>1 DEF HolderInv, Init, StoreInit
  <1>2. HolderInv => HolderReachesShards
    BY DEF HolderInv, HolderReachesShards
  <1>3. Spec => []CycleTypeInv
    BY CycleInitTyped, CycleStepTypes, PTL DEF Spec
  <1> QED BY <1>1, <1>2, <1>3, HolderStep, PTL DEF Spec

-----------------------------------------------------------------------------
(***************************************************************************)
(* StartEpoch finds the cycle where it looked                              *)
(***************************************************************************)

\* StartEpoch between its look at the cycle and its transition.
Gated == {"start_decide", "start_config", "start_shards", "start_snapshot", "start_store",
          "start_from", "start_active"}

\* With one StartEpoch at a time the cycle stays settled until that moves it:
\* no other transition leaves a settled state.
GateInv ==
  OneStart =>
    \A c \in Coordinators, t \in Threads :
      /\ call[c][t].at \in Gated => cycle \in Settled
      /\ call[c][t].at = "start_active" => call[c][t].from = cycle

\* A transition from another state does not move a settled cycle.
LEMMA CyclePutSettled ==
  ASSUME NEW from, NEW to, NEW done, NEW refused, CyclePut(from, to, done, refused),
         from \notin Settled, cycle \in Settled
  PROVE  cycle' = cycle
  BY DEF CyclePut, PutEpochCycleTransitionAllowed

\* Only StartEpoch moves a settled cycle.
LEMMA SettledStays ==
  ASSUME [Next]_vars, cycle \in Settled
  PROVE  cycle' = cycle \/ \E c \in Coordinators, t \in Threads : StartActivatesCycle(c, t)
  <1>1. {"active", "recommendation_ready", "scaling_in_progress"} \cap Settled = {}
    BY DEF Settled
  <1>2. ASSUME AutoSteps \/ AutoTimesOut PROVE cycle' = cycle
    <2>1. CASE AutoBegins \/ AutoFails \/ AutoSkips
      BY <1>1, <2>1, CyclePutSettled DEF AutoBegins, AutoFails, AutoSkips
    <2> QED BY <1>2, <2>1 DEF AutoSteps, AutoReadsCycle, AutoReadsLatest, AutoReadsConfig,
            AutoReadsEpoch, AutoCalls, AutoAnswered, AutoTimesOut, storeVars
  <1>3. ASSUME NEW c \in Coordinators, TimerFires(c) \/ CompleteSteps(c) PROVE cycle' = cycle
    <2>1. CASE CompleteFailsCycle(c) \/ CompleteReadiesCycle(c)
      BY <1>1, <2>1, CyclePutSettled DEF CompleteFailsCycle, CompleteReadiesCycle, CycleStep
    <2> QED BY <1>3, <2>1 DEF TimerFires, CompleteSteps, CompleteEpochDecision,
            CompleteRequiresLease, CommitCompletedEpoch, CompleteWritesStore,
            CompleteReadsVersion, CompletePutsScaling, storeVars
  <1>4. ASSUME NEW c \in Coordinators, NEW t \in Threads, ApplySteps(c, t) \/ AdminSteps(c, t)
        PROVE  cycle' = cycle
    <2>1. CASE \/ ApplyBegins(c, t) \/ ApplyEnds(c, t) \/ ApplyFailsCycle(c, t)
               \/ SkipBegins(c, t) \/ SkipEnds(c, t)
      BY <1>1, <2>1, CyclePutSettled DEF ApplyBegins, ApplyEnds, ApplyFailsCycle, SkipBegins,
         SkipEnds, CycleStep
    <2> QED BY <1>4, <2>1 DEF ApplySteps, AdminSteps, ApplyReadsConfig, ApplyReadsEpoch,
            ApplyReadsLatest, ApplyReadsCycle, ApplyConnects, ApplyPutsConfig, SkipReadsCycle,
            SkipReadsEpoch, PromoteReadsConfig, PromotePutsConfig, storeVars
  <1>5. ASSUME NEW c \in Coordinators, NEW t \in Threads, StartSteps(c, t)
        PROVE  cycle' = cycle \/ StartActivatesCycle(c, t)
    BY <1>5 DEF StartSteps, RequireEpochCycleAllowsStart, StartEpochDecision,
       StartReadsConfig, StartShard, StartRequiresLease, StartPutsSnapshot, StartWritesStore,
       StartReadsCycle, CommitStartedEpoch, AbortStarted, storeVars
  <1>6. ASSUME NEW c \in Coordinators, NEW t \in Rpcs,
               \/ \E id \in RequestIDs : StartEpoch(c, t, id)
               \/ ApplyScalingRecommendation(c, t)
               \/ SkipScalingRecommendation(c, t)
               \/ PromoteShardStandby(c, t)
        PROVE  cycle' = cycle
    BY <1>6 DEF StartEpoch, ApplyScalingRecommendation, SkipScalingRecommendation,
       PromoteShardStandby, storeVars
  <1>7. ASSUME \/ \E s \in Shards : ShardEpochEnds(s)
               \/ \E c \in Coordinators : TakeOver(c) \/ Crash(c)
               \/ UNCHANGED vars
        PROVE  cycle' = cycle
    BY <1>7 DEF ShardEpochEnds, TakeOver, Crash, vars, storeVars
  <1> QED BY <1>2, <1>3, <1>4, <1>5, <1>6, <1>7 DEF Next, RpcSteps

\* With one StartEpoch at a time, one handler is in StartEpoch.
LEMMA OneStarting ==
  ASSUME CycleTypeInv, HolderInv, OneStart,
         NEW c \in Coordinators, NEW t \in Threads, call[c][t].at \in StartPlaces,
         NEW d \in Coordinators, NEW u \in Threads, call[d][u].at \in StartPlaces
  PROVE  c = AutoTarget /\ d = c /\ u = t
  <1>1. t \in StartRpcs /\ u \in StartRpcs
    BY DEF CycleTypeInv, HandlersOK, HandlerOK
  <1>2. call[c][t].at # "idle" /\ call[d][u].at # "idle"
    BY DEF StartPlaces, Deciding, Fanning
  <1>3. c = AutoTarget /\ d = AutoTarget
    BY <1>2 DEF HolderInv, OneStart
  <1> QED BY <1>1, <1>3 DEF OneStart

\* No count of mishaps falls.
Grown ==
  /\ used'.takeovers >= used.takeovers
  /\ used'.faults >= used.faults
  /\ used'.crashes >= used.crashes
  /\ used'.misreads >= used.misreads

LEMMA MishapsGrow ==
  ASSUME CycleTypeInv, [Next]_vars
  PROVE  Grown
  <1>1. /\ used \in Used
        /\ used.takeovers \in Nat /\ used.faults \in Nat
        /\ used.crashes \in Nat /\ used.misreads \in Nat
    BY BoundsAssumption DEF CycleTypeInv, TypeOK, Used
  <1>2. ASSUME Counted PROVE Grown
    BY <1>1, <1>2, FaultTyped DEF Grown
  <1>3. ASSUME AutoSteps \/ AutoTimesOut PROVE Grown
    BY <1>2, <1>3, AutoProfile
  <1>4. ASSUME NEW c \in Coordinators, TimerFires(c) \/ CompleteSteps(c) PROVE Grown
    BY <1>2, <1>4, CompleteProfile
  <1>5. ASSUME NEW c \in Coordinators, NEW t \in Threads, RpcSteps(c, t) PROVE Grown
    <2>1. CASE StartSteps(c, t)
      BY <1>2, <2>1, StartProfile
    <2>2. CASE ApplySteps(c, t)
      BY <1>2, <2>2, ApplyProfile
    <2>3. CASE SkipReadsCycle(c, t) \/ SkipReadsEpoch(c, t) \/ SkipBegins(c, t) \/ SkipEnds(c, t)
      BY <1>2, <2>3, SkipProfile
    <2>4. CASE PromoteReadsConfig(c, t) \/ PromotePutsConfig(c, t)
      BY <1>2, <2>4, PromoteProfile
    <2> QED BY <1>5, <2>1, <2>2, <2>3, <2>4 DEF RpcSteps, AdminSteps
  <1>6. ASSUME NEW c \in Coordinators, Crash(c) PROVE Grown
    <2>1. \/ used' = [used EXCEPT !.crashes = @ + 1]
          \/ used' = [used EXCEPT !.crashes = @ + 1, !.misreads = @ + 1]
      BY <1>6 DEF Crash
    <2>2. /\ used'.takeovers = used.takeovers /\ used'.faults = used.faults
          /\ used'.crashes = used.crashes + 1
          /\ used'.misreads \in {used.misreads, used.misreads + 1}
      BY <1>1, <2>1 DEF Used
    <2> QED BY <1>1, <2>2 DEF Grown
  <1>7. ASSUME \/ \E s \in Shards : ShardEpochEnds(s)
               \/ \E c \in Coordinators : TakeOver(c)
               \/ \E c \in Coordinators, t \in Rpcs :
                    \/ \E id \in RequestIDs : StartEpoch(c, t, id)
                    \/ ApplyScalingRecommendation(c, t)
                    \/ SkipScalingRecommendation(c, t)
                    \/ PromoteShardStandby(c, t)
               \/ UNCHANGED vars
        PROVE  Grown
    <2>1. \/ UNCHANGED used
          \/ used' = [used EXCEPT !.takeovers = @ + 1]
          \/ used' = [used EXCEPT !.starts = @ + 1]
      BY <1>7 DEF ShardEpochEnds, TakeOver, StartEpoch, ApplyScalingRecommendation,
         SkipScalingRecommendation, PromoteShardStandby, vars, cycleVars
    <2>2. /\ used'.takeovers \in {used.takeovers, used.takeovers + 1} /\ used'.faults = used.faults
          /\ used'.crashes = used.crashes /\ used'.misreads = used.misreads
      BY <1>1, <2>1 DEF Used
    <2> QED BY <1>1, <2>2 DEF Grown
  <1> QED BY <1>3, <1>4, <1>5, <1>6, <1>7 DEF Next

\* One StartEpoch at a time, with exact reads, was so before.
LEMMA OneStartWas ==
  ASSUME CycleTypeInv, [Next]_vars, OneStart'
  PROVE  OneStart /\ ExactReads' /\ used'.takeovers = 0
  <1>1. used.takeovers \in Nat /\ used.misreads \in Nat
    BY BoundsAssumption DEF CycleTypeInv, TypeOK, Used
  <1>2. used'.takeovers = 0 /\ used'.misreads = 0 /\ \A r, t \in StartRpcs : r = t
    BY DEF OneStart, ExactReads
  <1>3. used.takeovers = 0 /\ used.misreads = 0
    BY <1>1, <1>2, MishapsGrow DEF Grown
  <1> QED BY <1>2, <1>3 DEF OneStart, ExactReads

\* Other steps, and other crashes, leave the handlers in StartEpoch alone.
LEMMA StartsKept ==
  ASSUME CycleTypeInv, [Next]_vars
  PROVE  \/ \E c \in Coordinators, t \in Threads : StartSteps(c, t)
         \/ \E c \in Coordinators : Crash(c)
         \/ \A d \in Coordinators, u \in Threads :
              call[d][u].at \in StartPlaces => call'[d][u] = call[d][u]
  <1> DEFINE Kept == \A d \in Coordinators, u \in Threads :
                       call[d][u].at \in StartPlaces => call'[d][u] = call[d][u]
  <1>1. ASSUME NEW c \in Coordinators, NEW t \in Threads, Moved(c, t),
               call[c][t].at \notin StartPlaces
        PROVE  Kept
    BY <1>1 DEF Moved, Becomes
  <1>2. \A c \in Coordinators, t \in Threads : t \notin StartRpcs => call[c][t].at \notin StartPlaces
    BY DEF CycleTypeInv, HandlersOK, HandlerOK
  <1>3. Timer \in Threads \ StartRpcs /\ AutoRpcs \subseteq Threads \ StartRpcs
    BY DEF Threads, Rpcs
  <1>4. ASSUME UNCHANGED call PROVE Kept
    BY <1>4
  <1> HIDE DEF Kept
  <1>5. ASSUME AutoSteps \/ AutoTimesOut PROVE Kept
    <2>1. UNCHANGED call \/ \E t \in AutoRpcs : Moved(AutoTarget, t)
      BY <1>5, AutoAloneTyped, AutoCallsTyped, AutoAnsweredTyped DEF AutoSteps
    <2> QED BY <1>1, <1>2, <1>3, <1>4, <2>1
  <1>6. ASSUME NEW c \in Coordinators, TimerFires(c) \/ CompleteSteps(c) PROVE Kept
    <2>1. Moved(c, Timer)
      BY <1>6, TimerFiresTyped, CompleteStepsTyped
    <2> QED BY <1>1, <1>2, <1>3, <2>1
  <1>7. ASSUME NEW c \in Coordinators, NEW t \in Threads, ApplySteps(c, t) \/ AdminSteps(c, t)
        PROVE  Kept
    <2>1. Moved(c, t)
      BY <1>7, RpcStepsTyped DEF RpcSteps
    <2>2. call[c][t].at \notin StartPlaces
      BY <1>7 DEF ApplySteps, ApplyReadsConfig, ApplyReadsEpoch, ApplyReadsLatest, ApplyReadsCycle,
         ApplyBegins, ApplyConnects, ApplyPutsConfig, ApplyEnds, ApplyFailsCycle, AdminSteps,
         SkipReadsCycle, SkipReadsEpoch, SkipBegins, SkipEnds, PromoteReadsConfig,
         PromotePutsConfig, At, StartPlaces, Deciding, Fanning
    <2> QED BY <1>1, <2>1, <2>2
  <1>8. ASSUME NEW c \in Coordinators, NEW t \in Rpcs,
               \/ \E id \in RequestIDs : StartEpoch(c, t, id)
               \/ ApplyScalingRecommendation(c, t)
               \/ SkipScalingRecommendation(c, t)
               \/ PromoteShardStandby(c, t)
        PROVE  Kept
    <2>1. t \in Threads
      BY DEF Threads
    <2>2. Moved(c, t)
      BY <1>8, <2>1, StartEpochTyped, CallsTyped
    <2>3. call[c][t].at = "idle"
      BY <1>8 DEF StartEpoch, ApplyScalingRecommendation, Apply, SkipScalingRecommendation,
         PromoteShardStandby, At
    <2> QED BY <1>1, <2>1, <2>2, <2>3 DEF StartPlaces, Deciding, Fanning
  <1>9. ASSUME \/ \E s \in Shards : ShardEpochEnds(s)
               \/ \E c \in Coordinators : TakeOver(c)
               \/ UNCHANGED vars
        PROVE  Kept
    BY <1>4, <1>9, OutsideTyped DEF vars, cycleVars
  <1>10. \/ \E c \in Coordinators, t \in Threads : StartSteps(c, t)
         \/ \E c \in Coordinators : Crash(c)
         \/ Kept
    BY <1>5, <1>6, <1>7, <1>8, <1>9 DEF Next, RpcSteps
  <1> QED BY <1>10 DEF Kept

\* Where a step of StartEpoch takes its handler.
LEMMA GateMoves ==
  ASSUME CycleTypeInv, ExactReads', NEW c \in Coordinators, NEW t \in Threads, StartSteps(c, t)
  PROVE  \/ call'[c][t].at \notin Gated
         \/ /\ call[c][t].at \in Gated \/ cycle \in Settled
            /\ call'[c][t].at = "start_active" => call'[c][t].from = cycle
            /\ UNCHANGED cycle
  <1> DEFINE g == call[c][t]
             h == call'[c][t]
  <1>1. g \in Handler /\ call \in [Coordinators -> [Threads -> Handler]]
    BY HandlerTyped
  <1>2. Ended \cap Gated = {} /\ "abort" \notin Gated /\ "start_commit" \notin Gated
    BY DEF Ended, Gated
  <1>3. ASSUME NEW answer \in {"ok", "err"}, Return(c, t, answer) PROVE h.at \notin Gated
    BY <1>2, <1>3, ReturnMoved
  <1>4. CASE RequireEpochCycleAllowsStart(c, t)
    <2>1. /\ Return(c, t, "err") \/ (cycle \in Settled /\ Goto(c, t, "start_decide"))
          /\ Follows(g.at, "start_decide")
          /\ UNCHANGED cycle
      BY <1>4, SeesExactly DEF RequireEpochCycleAllowsStart, At, Follows, storeVars
    <2>2. h.at \notin Gated \/ (cycle \in Settled /\ h.at = "start_decide")
      BY <1>3, <2>1, GotoKeeps
    <2> QED BY <2>1, <2>2
  <1>5. CASE StartEpochDecision(c, t)
    <2>1. g.at = "start_decide" /\ UNCHANGED cycle
      BY <1>5 DEF StartEpochDecision, At, storeVars
    <2>2. Return(c, t, "err") \/ \E n :
            call' = [call EXCEPT ![c][t].at = "start_config", ![c][t].id = n]
      BY <1>5 DEF StartEpochDecision
    <2>3. ASSUME NEW n, call' = [call EXCEPT ![c][t].at = "start_config", ![c][t].id = n]
          PROVE  h.at = "start_config"
      BY <1>1, <2>3 DEF Handler
    <2>4. h.at \notin Gated \/ h.at = "start_config"
      BY <1>3, <2>2, <2>3
    <2> QED BY <2>1, <2>4 DEF Gated
  <1>6. CASE StartReadsConfig(c, t)
    <2>1. g.at = "start_config" /\ UNCHANGED cycle
      BY <1>6 DEF StartReadsConfig, At, storeVars
    <2>2. ASSUME NEW seen, call' = [call EXCEPT ![c][t].at = "start_shards", ![c][t].cfg = seen]
          PROVE  h.at = "start_shards"
      BY <1>1, <2>2 DEF Handler
    <2>3. h.at \notin Gated \/ h.at = "start_shards"
      BY <1>3, <1>6, <2>2 DEF StartReadsConfig
    <2> QED BY <2>1, <2>3 DEF Gated
  <1>7. CASE StartShard(c, t)
    <2> DEFINE s == NextShard(c, t)
    <2> HIDE DEF s
    <2>1. /\ g.at = "start_shards" /\ UNCHANGED cycle /\ Follows(g.at, "abort")
          /\ Goto(c, t, "abort") \/ call' = [call EXCEPT ![c][t].started = @ \cup {s}]
      BY <1>7 DEF StartShard, s, At, storeVars, Follows
    <2>2. h.at = "abort" \/ h.at = "start_shards"
      <3>1. ASSUME call' = [call EXCEPT ![c][t].started = @ \cup {s}]
            PROVE  h.at = "start_shards"
        BY <1>1, <2>1, <3>1 DEF Handler
      <3> QED BY <2>1, <3>1, GotoKeeps
    <2> QED BY <1>2, <2>1, <2>2 DEF Gated
  <1>8. CASE StartRequiresLease(c, t) \/ StartPutsSnapshot(c, t) \/ StartWritesStore(c, t)
    <2>1. /\ g.at \in {"start_shards", "start_snapshot", "start_store"} /\ UNCHANGED cycle
          /\ \E place \in {"start_snapshot", "start_store", "start_from", "abort"} :
               Goto(c, t, place) /\ Follows(g.at, place)
      BY <1>8 DEF StartRequiresLease, StartPutsSnapshot, StartWritesStore, At, Follows, storeVars
    <2>2. h.at \in {"start_snapshot", "start_store", "start_from", "abort"}
      BY <2>1, GotoKeeps
    <2> QED BY <1>2, <2>1, <2>2 DEF Gated
  <1>9. CASE StartReadsCycle(c, t)
    <2>1. g.at = "start_from" /\ UNCHANGED cycle
      BY <1>9 DEF StartReadsCycle, At, storeVars
    <2>2. PICK seen : /\ Sees(seen, cycle)
                      /\ call' = [call EXCEPT ![c][t].at = "start_active", ![c][t].from = seen]
      BY <1>9 DEF StartReadsCycle
    <2>3. h.from = seen /\ seen = cycle
      BY <1>1, <2>2, SeesExactly DEF Handler
    <2> QED BY <2>1, <2>3 DEF Gated
  <1>10. CASE StartActivatesCycle(c, t)
    <2>1. /\ Goto(c, t, "start_commit") \/ Goto(c, t, "abort")
          /\ Follows(g.at, "start_commit") /\ Follows(g.at, "abort")
      BY <1>10, CyclePutEffect DEF StartActivatesCycle, CycleStep, At, Follows
    <2> QED BY <1>2, <2>1, GotoKeeps
  <1>11. CASE CommitStartedEpoch(c, t)
    BY <1>3, <1>11 DEF CommitStartedEpoch
  <1>12. CASE AbortStarted(c, t)
    <2> DEFINE s == CHOOSE x \in g.started : \A y \in g.started : x <= y
    <2>1. /\ g.at = "abort"
          /\ Return(c, t, "err") \/ call' = [call EXCEPT ![c][t].started = @ \ {s}]
      BY <1>12 DEF AbortStarted, At
    <2> HIDE DEF s
    <2>2. ASSUME call' = [call EXCEPT ![c][t].started = @ \ {s}] PROVE h.at = "abort"
      BY <1>1, <2>1, <2>2 DEF Handler
    <2> QED BY <1>2, <1>3, <2>1, <2>2
  <1> QED BY <1>4, <1>5, <1>6, <1>7, <1>8, <1>9, <1>10, <1>11, <1>12 DEF StartSteps

\* StartEpoch is called before it takes a step.
LEMMA StartIsIn ==
  ASSUME NEW c, NEW t, StartSteps(c, t)
  PROVE  call[c][t].at \in StartPlaces
  BY DEF StartSteps, RequireEpochCycleAllowsStart, StartEpochDecision, StartReadsConfig,
     StartShard, StartRequiresLease, StartPutsSnapshot, StartWritesStore, StartReadsCycle,
     StartActivatesCycle, CommitStartedEpoch, AbortStarted, At, StartPlaces, Deciding, Fanning

\* Every step keeps the gate.
LEMMA GateStep == CycleTypeInv /\ HolderInv /\ GateInv /\ [Next]_vars => GateInv'
  <1> SUFFICES ASSUME CycleTypeInv, HolderInv, GateInv, [Next]_vars, OneStart',
                      NEW c \in Coordinators, NEW t \in Threads
               PROVE  /\ call'[c][t].at \in Gated => cycle' \in Settled
                      /\ call'[c][t].at = "start_active" => call'[c][t].from = cycle'
    BY DEF GateInv
  <1>1. OneStart
    BY OneStartWas
  <1>2. Gated \subseteq StartPlaces /\ "start_active" \in Gated
    BY DEF Gated, StartPlaces, Deciding, Fanning
  <1>3. CASE \E d \in Coordinators, u \in Threads : StartSteps(d, u)
    <2>1. PICK d \in Coordinators, u \in Threads : StartSteps(d, u)
      BY <1>3
    <2>2. Moved(d, u) /\ call[d][u].at \in StartPlaces
      BY <2>1, StartStepsTyped, StartIsIn
    <2>3. CASE c = d /\ t = u
      BY <1>1, <1>2, <2>1, <2>3, OneStartWas, GateMoves DEF GateInv
    <2>4. CASE c # d \/ t # u
      <3>1. call'[c][t] = call[c][t]
        BY <2>2, <2>4 DEF Moved, Becomes
      <3>2. call[c][t].at \notin StartPlaces
        BY <1>1, <2>2, <2>4, OneStarting
      <3> QED BY <1>2, <3>1, <3>2
    <2> QED BY <2>3, <2>4
  <1>4. CASE ~\E d \in Coordinators, u \in Threads : StartSteps(d, u)
    <2>1. OnlyTo(Elsewhere)
      BY <1>4, NotStarting
    <2>2. CASE call'[c][t].at \in Elsewhere
      BY <2>2 DEF Elsewhere, Gated, StartPlaces, Deciding, Fanning
    <2>3. CASE call'[c][t] = call[c][t]
      <3>1. cycle \in Settled => cycle' = cycle
        BY <1>4, SettledStays DEF StartSteps
      <3> QED BY <1>1, <1>2, <2>3, <3>1 DEF GateInv
    <2> QED BY <2>1, <2>2, <2>3 DEF OnlyTo
  <1> QED BY <1>3, <1>4

-----------------------------------------------------------------------------
(***************************************************************************)
(* An open epoch was started                                               *)
(***************************************************************************)

\* A step that is none of StartEpoch's opens no epoch.
LEMMA OpenedByStart ==
  ASSUME CycleTypeInv, [Next]_vars, epoch'.state = "Active"
  PROVE  epoch' = epoch \/ \E c \in Coordinators, t \in Threads : StartSteps(c, t)
  <1>1. ASSUME NEW c \in Coordinators, TimerFires(c) \/ CompleteSteps(c) PROVE epoch' = epoch
    <2>1. CASE CompleteFailsCycle(c) \/ CompleteReadiesCycle(c)
      BY <2>1, CyclePutEffect DEF CompleteFailsCycle, CompleteReadiesCycle, CycleStep
    <2>2. CASE CompleteWritesStore(c)
      <3>1. epoch' = epoch \/ epoch' = [epoch EXCEPT !.state = "Completed"]
        BY <2>2 DEF CompleteWritesStore, StoreCompleteEpoch
      <3> QED BY <3>1 DEF CycleTypeInv, TypeOK, StoreTypeOK, EpochRecord
    <2> QED BY <1>1, <2>1, <2>2 DEF TimerFires, CompleteSteps, CompleteEpochDecision,
            CompleteRequiresLease, CommitCompletedEpoch, CompleteReadsVersion,
            CompletePutsScaling, storeVars
  <1>2. ASSUME NEW c \in Coordinators, NEW t \in Threads, ApplySteps(c, t) \/ AdminSteps(c, t)
        PROVE  epoch' = epoch
    BY <1>2, ApplyProfile, SkipProfile, PromoteProfile DEF AdminSteps
  <1>3. ASSUME \/ \E s \in Shards : ShardEpochEnds(s)
               \/ \E c \in Coordinators : TakeOver(c) \/ Crash(c)
               \/ \E c \in Coordinators, t \in Rpcs :
                    \/ \E id \in RequestIDs : StartEpoch(c, t, id)
                    \/ ApplyScalingRecommendation(c, t)
                    \/ SkipScalingRecommendation(c, t)
                    \/ PromoteShardStandby(c, t)
               \/ UNCHANGED vars
        PROVE  epoch' = epoch
    BY <1>3 DEF ShardEpochEnds, TakeOver, Crash, StartEpoch, ApplyScalingRecommendation,
       SkipScalingRecommendation, PromoteShardStandby, vars, storeVars
  <1> QED BY <1>1, <1>2, <1>3, AutoProfile DEF Next, RpcSteps

\* Where no fault and no crash was counted, this step is none.
LEMMA UsedGrows ==
  ASSUME CycleTypeInv, [Next]_vars, used'.faults = 0, used'.crashes = 0
  PROVE  /\ used.faults = 0 /\ used.crashes = 0 /\ ~Fault
         /\ \A c \in Coordinators : ~Crash(c)
  <1>1. used \in Used /\ used.faults \in Nat /\ used.crashes \in Nat
    BY BoundsAssumption DEF CycleTypeInv, TypeOK, Used
  <1>2. used.faults = 0 /\ used.crashes = 0
    BY <1>1, MishapsGrow DEF Grown
  <1>3. ~Fault
    BY <1>1, <1>2 DEF Fault, Used
  <1>4. ASSUME NEW c \in Coordinators, Crash(c) PROVE FALSE
    <2>1. \/ used' = [used EXCEPT !.crashes = @ + 1]
          \/ used' = [used EXCEPT !.crashes = @ + 1, !.misreads = @ + 1]
      BY <1>4 DEF Crash
    <2>2. used'.crashes = used.crashes + 1
      BY <1>1, <2>1 DEF Used
    <2> QED BY <1>2, <2>2
  <1> QED BY <1>2, <1>3, <1>4

\* StartEpoch after it has opened the epoch.
Opened == {"start_from", "start_active", "start_commit"}

\* What a step of StartEpoch without a fault does with the epoch: it opens
\* it, goes on with it, or reports it as started.
LEMMA OpenMoves ==
  ASSUME CycleTypeInv, GateInv, OneStart, ExactReads', ~Fault,
         NEW c \in Coordinators, NEW t \in Threads, StartSteps(c, t)
  PROVE  /\ committed \subseteq committed'
         /\ \/ Starting(c, t, epoch.id)'
            \/ /\ epoch' = epoch
               /\ call[c][t].at \in Opened =>
                    \/ call'[c][t].at \in Opened /\ call'[c][t].id = call[c][t].id
                    \/ <<call[c][t].id, call[c][t].cfg>> \in committed'
  <1> DEFINE g == call[c][t]
             h == call'[c][t]
  <1>1. g \in Handler /\ call \in [Coordinators -> [Threads -> Handler]]
    BY HandlerTyped
  <1>2. CASE StartWritesStore(c, t)
    <2>1. /\ g.at = "start_store" /\ UNCHANGED committed
          /\ \/ Goto(c, t, "start_from") /\ epoch' = [id |-> g.id, state |-> "Active"]
             \/ UNCHANGED epoch
          /\ Follows(g.at, "start_from")
      BY <1>2 DEF StartWritesStore, StoreStartEpoch, At, Follows, historyVars
    <2>2. ASSUME Goto(c, t, "start_from") PROVE h.at = "start_from" /\ h.id = g.id
      BY <2>1, <2>2, GotoKeeps
    <2>3. Starting(c, t, epoch.id)' \/ UNCHANGED epoch
      BY <2>1, <2>2 DEF Starting
    <2> QED BY <2>1, <2>3 DEF Opened
  <1>3. CASE StartReadsCycle(c, t)
    <2>1. g.at = "start_from" /\ UNCHANGED <<epoch, committed>>
      BY <1>3 DEF StartReadsCycle, At, storeVars, historyVars
    <2>a. PICK seen : call' = [call EXCEPT ![c][t].at = "start_active", ![c][t].from = seen]
      BY <1>3 DEF StartReadsCycle
    <2>2. h.at = "start_active" /\ h.id = g.id
      BY <1>1, <2>a DEF Handler
    <2> QED BY <2>1, <2>2 DEF Opened
  <1>4. CASE StartActivatesCycle(c, t)
    <2>1. /\ g.at = "start_active" /\ UNCHANGED <<epoch, committed>>
          /\ CyclePut(g.from, "active", Goto(c, t, "start_commit"), Goto(c, t, "abort"))
          /\ Follows(g.at, "start_commit")
      BY <1>4, CyclePutEffect DEF StartActivatesCycle, CycleStep, At, Follows, historyVars
    <2>2. cycle = g.from /\ g.from \in Settled
      BY <2>1 DEF GateInv, Gated
    <2>3. PutEpochCycleTransitionAllowed(g.from, "active")
      BY <2>2 DEF PutEpochCycleTransitionAllowed, ValidEpochCycleTransition
    <2>4. Goto(c, t, "start_commit")
      BY <2>1, <2>3, PutsExactly DEF ExactPut
    <2>5. h.at = "start_commit" /\ h.id = g.id
      BY <2>1, <2>4, GotoKeeps
    <2> QED BY <2>1, <2>5 DEF Opened
  <1>5. CASE CommitStartedEpoch(c, t)
    BY <1>5 DEF CommitStartedEpoch, storeVars
  <1>6. CASE \/ RequireEpochCycleAllowsStart(c, t) \/ StartEpochDecision(c, t)
             \/ StartReadsConfig(c, t) \/ StartShard(c, t) \/ StartRequiresLease(c, t)
             \/ StartPutsSnapshot(c, t) \/ AbortStarted(c, t)
    BY <1>6 DEF RequireEpochCycleAllowsStart, StartEpochDecision, StartReadsConfig, StartShard,
       StartRequiresLease, StartPutsSnapshot, AbortStarted, At, Opened, storeVars, historyVars
  <1> QED BY <1>2, <1>3, <1>4, <1>5, <1>6 DEF StartSteps

\* Every step keeps it.
LEMMA OpenStep ==
  CycleTypeInv /\ HolderInv /\ GateInv /\ OpenEpochWasStarted /\ [Next]_vars
    => OpenEpochWasStarted'
  <1> SUFFICES ASSUME CycleTypeInv, HolderInv, GateInv, OpenEpochWasStarted, [Next]_vars,
                      OneStart', used'.faults = 0, used'.crashes = 0, epoch'.state = "Active"
               PROVE  \/ \E cfg \in ConfigRecord : <<epoch'.id, cfg>> \in committed'
                      \/ \E c \in Coordinators, t \in StartRpcs : Starting(c, t, epoch.id)'
    BY DEF OpenEpochWasStarted
  <1>1. OneStart /\ ExactReads'
    BY OneStartWas
  <1>2. used.faults = 0 /\ used.crashes = 0 /\ ~Fault /\ \A c \in Coordinators : ~Crash(c)
    BY UsedGrows
  <1>3. Opened \subseteq StartPlaces /\ StartRpcs \subseteq Threads
    BY DEF Opened, StartPlaces, Fanning, Threads, Rpcs
  <1>4. CASE ~\E c \in Coordinators, t \in Threads : StartSteps(c, t)
    <2>1. epoch' = epoch /\ committed' = committed
      BY <1>4, OpenedByStart, NotStarting
    <2>2. \A c \in Coordinators, t \in Threads :
            call[c][t].at \in StartPlaces => call'[c][t] = call[c][t]
      BY <1>2, <1>4, StartsKept
    <2>3. \A c \in Coordinators, t \in StartRpcs : Starting(c, t, epoch.id) => Starting(c, t, epoch.id)'
      BY <1>3, <2>1, <2>2 DEF Starting, Opened
    <2> QED BY <1>1, <1>2, <2>1, <2>3 DEF OpenEpochWasStarted
  <1>5. ASSUME NEW c \in Coordinators, NEW t \in Threads, StartSteps(c, t)
        PROVE  \/ \E cfg \in ConfigRecord : <<epoch'.id, cfg>> \in committed'
               \/ \E d \in Coordinators, u \in StartRpcs : Starting(d, u, epoch.id)'
    <2>1. call[c][t].at \in StartPlaces /\ t \in StartRpcs
      BY <1>5, StartIsIn DEF CycleTypeInv, HandlersOK, HandlerOK
    <2>2. CASE Starting(c, t, epoch.id)'
      BY <2>1, <2>2
    <2>3. CASE epoch' = epoch /\ \E cfg \in ConfigRecord : <<epoch.id, cfg>> \in committed
      BY <1>1, <1>2, <1>5, <2>3, OpenMoves
    <2>4. CASE epoch' = epoch /\ ~Starting(c, t, epoch.id)'
               /\ \E d \in Coordinators, u \in StartRpcs : Starting(d, u, epoch.id)
      <3>1. PICK d \in Coordinators, u \in StartRpcs : Starting(d, u, epoch.id)
        BY <2>4
      <3>2. call[d][u].at \in StartPlaces /\ u \in Threads
        BY <1>3, <3>1 DEF Starting, Opened
      <3>3. d = c /\ u = t
        BY <1>1, <2>1, <3>2, OneStarting
      <3>4. call[c][t].id = epoch.id /\ call[c][t].at \in Opened
        BY <3>1, <3>3 DEF Starting, Opened
      <3>5. call[c][t].cfg \in ConfigRecord
        BY <3>4 DEF CycleTypeInv, HandlersOK, HandlerOK, Opened, Fanning
      <3>6. \/ call'[c][t].at \in Opened /\ call'[c][t].id = call[c][t].id
            \/ <<call[c][t].id, call[c][t].cfg>> \in committed'
        BY <1>1, <1>2, <1>5, <2>4, <3>4, OpenMoves
      <3> QED BY <2>4, <3>4, <3>5, <3>6 DEF Starting, Opened
    <2> QED BY <1>1, <1>2, <1>5, <2>2, <2>3, <2>4, OpenMoves DEF OpenEpochWasStarted
  <1> QED BY <1>4, <1>5

\* At first no handler is in StartEpoch.
LEMMA GateInit == Init => HolderInv /\ GateInv
  <1> SUFFICES ASSUME Init PROVE HolderInv /\ GateInv
    OBVIOUS
  <1>1. \A c \in Coordinators, t \in Threads : call[c][t].at = "idle"
    BY DEF Init, Idle
  <1> QED BY <1>1 DEF HolderInv, GateInv, Gated, Init, StoreInit

\* With one StartEpoch at a time under one holder of the lease, exact reads
\* and no error or crash after the store's StartEpoch, an open epoch is being
\* started or was reported as started: StartEpoch is not refused the
\* transition of the cycle once it has opened the epoch, whatever the
\* autoscaler and the operators do meanwhile.  The reads matter twice: the
\* gate answers Idle for a read that failed, and DynamoDB refuses the
\* transition when its own read of the cycle is old.
THEOREM OpenEpochsWereStarted == Spec => []OpenEpochWasStarted
  <1>1. Init => OpenEpochWasStarted
    BY DEF Init, StoreInit, OpenEpochWasStarted
  <1>2. Spec => []CycleTypeInv
    BY CycleInitTyped, CycleStepTypes, PTL DEF Spec
  <1>3. Spec => []HolderInv
    BY <1>2, GateInit, HolderStep, PTL DEF Spec
  <1>4. Spec => []GateInv
    BY <1>2, <1>3, GateInit, GateStep, PTL DEF Spec
  <1> QED BY <1>1, <1>2, <1>3, <1>4, OpenStep, PTL DEF Spec

-----------------------------------------------------------------------------
(***************************************************************************)
(* Scaling without operators                                               *)
(*                                                                         *)
(* The state of the cycle serialises who acts on the epoch and on the      *)
(* configuration: "active" belongs to the StartEpoch that is about to      *)
(* commit, then to the open epoch, then to the timer that reports it;      *)
(* "scaling_in_progress" to the one that applies or skips.                 *)
(***************************************************************************)

\* A handler of the coordinator in charge.
Held(t) == call[AutoTarget][t]

\* StartEpoch from the configuration it read to its commit.
Configured == {"start_shards", "start_snapshot", "start_store", "start_from", "start_active",
               "start_commit"}

\* The handler acts for the active epoch.
ForEpoch(t) == Held(t).at \in Reporting \cup {"start_commit"}

\* The handler applies or skips a recommendation.
Owns(t) == \/ Held(t).at = "skip_end"
           \/ Held(t).at \in ApplyPlaces /\ Held(t).dry = FALSE

\* The autoscaler does.
AutoOwns == auto.at \in {"dry", "dry_wait", "apply", "skip_end"}

\* The cycle while a recommendation is applied or skipped, or after the
\* autoscaler gave up.
Scaling == {"scaling_in_progress", "failed"}

\* What handler t carries fits the store.
Carries(t) ==
  /\ Held(t).at \in Configured => Held(t).cfg = config
  /\ Held(t).at \in Reporting => Held(t).rec.count = config.count
  /\ Held(t).at = "done_scaling" => Held(t).rec.version = config.version
  /\ Held(t).at \in ApplyPlaces /\ Held(t).dry => Held(t).at \in {"apply_config"} \cup Evaluating
  /\ Held(t).at \in Evaluating /\ Held(t).dry = FALSE => Held(t).cfg = config
  /\ Held(t).at \in Applying => Held(t).cfg.version = config.version + 1
  /\ Held(t).at \in Applying \cup {"apply_latest"} /\ Held(t).dry = FALSE => epoch.state # "Active"

\* One acts for the epoch, one applies or skips, each in its state.
Claims ==
  /\ \A t \in Threads : ForEpoch(t) => cycle = "active" /\ local[AutoTarget].state # "Active"
  /\ \A t, u \in Threads : ForEpoch(t) /\ ForEpoch(u) => t = u
  /\ local[AutoTarget].state = "Active" =>
       cycle = "active" /\ local[AutoTarget].count = config.count
  /\ \A t \in Threads : Owns(t) => cycle \in Scaling /\ ~AutoOwns
  /\ \A t, u \in Threads : Owns(t) /\ Owns(u) => t = u
  /\ AutoOwns => cycle \in Scaling

\* The last recommendation is not for a later configuration.
LatestFits ==
  latest.epoch > 0 =>
    /\ latest.version <= config.version
    /\ latest.version = config.version => latest.count = config.count

ScalingParts == (\A t \in Threads : Carries(t)) /\ Claims /\ LatestFits

ScalingInv == Unattended => ScalingParts

\* A handler that does not change fits, too.
LEMMA CarriesKept ==
  ASSUME NEW t \in Threads, Carries(t), Held(t)' = Held(t), UNCHANGED config,
         epoch'.state = "Active" => epoch.state = "Active" \/ ~Owns(t)
  PROVE  Carries(t)'
  BY DEF Carries, Owns, Held, ApplyPlaces, Evaluating, Applying

\* A handler that is over, or not yet anywhere, carries nothing.
LEMMA CarriesNothing ==
  ASSUME NEW t \in Threads,
         Held(t)'.at \notin Configured \cup Reporting \cup ApplyPlaces \cup {"skip_end"}
  PROVE  Carries(t)' /\ ~ForEpoch(t)' /\ ~Owns(t)'
  BY DEF Carries, ForEpoch, Owns, Held, Configured, ApplyPlaces, Evaluating, Applying, Reporting

\* A step of handler t, or of none, that keeps the configuration.  The cycle
\* moves only where the one that moves it had it to itself, and what is
\* claimed anew nobody else claimed.
LEMMA ClaimsStep ==
  ASSUME ScalingParts, NEW t \in Threads,
         \A u \in Threads : u # t => Held(u)' = Held(u),
         UNCHANGED config, LatestFits', Carries(t)',
         epoch'.state = "Active" => epoch.state = "Active" \/ cycle \notin Scaling,
         \/ cycle' = cycle
         \/ cycle \notin Scaling \cup {"active"}
         \/ cycle = "active" /\ ForEpoch(t)
         \/ cycle = "scaling_in_progress" /\ (Owns(t) \/ AutoOwns \/ cycle' = "failed"),
         ForEpoch(t)' => /\ cycle' = "active" /\ local'[AutoTarget].state # "Active"
                         /\ ForEpoch(t) \/ cycle # "active" \/ local[AutoTarget].state = "Active",
         Owns(t)' => cycle' \in Scaling /\ ~AutoOwns' /\ (Owns(t) \/ cycle \notin Scaling \/ AutoOwns),
         \/ local'[AutoTarget].state # "Active"
         \/ local'[AutoTarget] = local[AutoTarget]
         \/ /\ cycle' = cycle /\ local'[AutoTarget].count = config.count
            /\ ForEpoch(t) /\ ~ForEpoch(t)',
         AutoOwns' => cycle' \in Scaling /\ (AutoOwns \/ cycle \notin Scaling)
  PROVE  ScalingParts'
  <1>1. ASSUME NEW u \in Threads, u # t
        PROVE  /\ Carries(u)'
               /\ ForEpoch(u)' <=> ForEpoch(u)
               /\ Owns(u)' <=> Owns(u)
    <2>1. Held(u)' = Held(u)
      BY <1>1
    <2>2. ForEpoch(u)' <=> ForEpoch(u)
      BY <2>1 DEF ForEpoch
    <2>3. Owns(u)' <=> Owns(u)
      BY <2>1 DEF Owns
    <2>4. Carries(u) /\ (Owns(u) => cycle \in Scaling)
      BY DEF ScalingParts, Claims
    <2> QED BY <2>1, <2>2, <2>3, <2>4, CarriesKept
  <1>2. "active" \notin Scaling /\ "scaling_in_progress" \in Scaling /\ "failed" \in Scaling
    BY DEF Scaling
  <1>3. \A u \in Threads : u # t /\ ForEpoch(u) =>
          cycle' = "active" /\ local'[AutoTarget].state # "Active" /\ ~ForEpoch(t)'
    BY <1>2 DEF ScalingParts, Claims
  <1>4. \A u \in Threads : u # t /\ Owns(u) => cycle' \in Scaling /\ ~AutoOwns' /\ ~Owns(t)'
    BY <1>2 DEF ScalingParts, Claims
  <1>5. local'[AutoTarget].state = "Active" =>
          cycle' = "active" /\ local'[AutoTarget].count = config.count
    BY <1>2 DEF ScalingParts, Claims
  <1>6. Claims'
    <2>1. ASSUME NEW u \in Threads, ForEpoch(u)'
          PROVE  cycle' = "active" /\ local'[AutoTarget].state # "Active"
      BY <1>1, <1>3, <2>1
    <2>2. ASSUME NEW u \in Threads, NEW v \in Threads, ForEpoch(u)', ForEpoch(v)' PROVE u = v
      BY <1>1, <1>3, <2>2 DEF ScalingParts, Claims
    <2>3. ASSUME NEW u \in Threads, Owns(u)' PROVE cycle' \in Scaling /\ ~AutoOwns'
      BY <1>1, <1>4, <2>3
    <2>4. ASSUME NEW u \in Threads, NEW v \in Threads, Owns(u)', Owns(v)' PROVE u = v
      BY <1>1, <1>4, <2>4 DEF ScalingParts, Claims
    <2> QED BY <1>5, <2>1, <2>2, <2>3, <2>4 DEF Claims
  <1>7. \A u \in Threads : Carries(u)'
    BY <1>1
  <1> QED BY <1>6, <1>7 DEF ScalingParts

\* A step of a handler that claims nothing new and leaves the rest alone.
LEMMA ScalingQuiet ==
  ASSUME ScalingParts, NEW t \in Threads, Moved(AutoTarget, t),
         UNCHANGED <<config, latest, cycle, local, auto>>,
         epoch'.state = "Active" => epoch.state = "Active",
         Carries(t)', ForEpoch(t)' => ForEpoch(t), Owns(t)' => Owns(t)
  PROVE  ScalingParts'
  <1>1. \A u \in Threads : u # t => Held(u)' = Held(u)
    BY DEF Moved, Becomes, Held
  <1>2. LatestFits'
    BY DEF ScalingParts, LatestFits
  <1>3. AutoOwns' <=> AutoOwns
    BY DEF AutoOwns
  <1>4. ForEpoch(t) => cycle = "active" /\ local[AutoTarget].state # "Active"
    BY DEF ScalingParts, Claims
  <1>5. /\ Owns(t) => cycle \in Scaling /\ ~AutoOwns
        /\ AutoOwns => cycle \in Scaling
    BY DEF ScalingParts, Claims
  <1> QED BY <1>1, <1>2, <1>3, <1>4, <1>5, ClaimsStep

\* ... and ends.
LEMMA ScalingReturns ==
  ASSUME CycleTypeInv, ScalingParts, NEW t \in Threads, NEW answer \in {"ok", "err"},
         Return(AutoTarget, t, answer),
         UNCHANGED <<config, latest, cycle, local, auto>>,
         epoch'.state = "Active" => epoch.state = "Active"
  PROVE  ScalingParts'
  <1>1. Moved(AutoTarget, t) /\ call'[AutoTarget][t].at \in Ended
    BY ReturnMoved
  <1>2. Carries(t)' /\ ~ForEpoch(t)' /\ ~Owns(t)'
    BY <1>1, CarriesNothing DEF Held, Ended, Configured, Reporting, ApplyPlaces, Evaluating, Applying
  <1> QED BY <1>1, <1>2, ScalingQuiet

\* StartEpoch writes the configuration it read, which is still there.
LEMMA StartKeepsConfig ==
  ASSUME CycleTypeInv, ScalingParts, NEW t \in Threads, StartSteps(AutoTarget, t)
  PROVE  config' = config
  <1> DEFINE c == AutoTarget
             g == call[c][t]
  <1>1. g.at \in Configured => g.cfg = config
    BY DEF ScalingParts, Carries, Held
  <1>2. CASE StartWritesStore(c, t)
    <2>1. g.at = "start_store" /\ (config' = config \/ config' = [config EXCEPT !.version = g.cfg.version])
      BY <1>2 DEF StartWritesStore, StoreStartEpoch, At
    <2>2. config \in ConfigRecord
      BY DEF CycleTypeInv, TypeOK, StoreTypeOK
    <2>3. g.cfg = config
      BY <1>1, <2>1 DEF Configured
    <2> HIDE DEF g
    <2> QED BY <2>1, <2>2, <2>3 DEF ConfigRecord
  <1> QED BY <1>2 DEF StartSteps, RequireEpochCycleAllowsStart, StartEpochDecision,
          StartReadsConfig, StartShard, StartRequiresLease, StartPutsSnapshot,
          StartReadsCycle, StartActivatesCycle, CycleStep, CyclePut, CommitStartedEpoch, AbortStarted,
          storeVars

\* StartEpoch before it moves the cycle.
LEMMA ScalingStart ==
  ASSUME CycleTypeInv, ScalingParts, GateInv, OneStart, ExactReads', NEW t \in Threads,
         StartSteps(AutoTarget, t),
         ~StartActivatesCycle(AutoTarget, t), ~CommitStartedEpoch(AutoTarget, t)
  PROVE  ScalingParts'
  <1> DEFINE c == AutoTarget
             g == call[c][t]
             h == call'[c][t]
  <1>1. g \in Handler /\ call \in [Coordinators -> [Threads -> Handler]]
    BY HandlerTyped
  <1>2. Moved(c, t) /\ g.at \in StartPlaces
    BY StartStepsTyped, StartIsIn
  <1>3. g.at \in Configured => g.cfg = config
    BY DEF ScalingParts, Carries, Held
  <1>4. config' = config
    BY StartKeepsConfig
  <1>5. UNCHANGED <<latest, cycle, local, auto>>
    BY DEF StartSteps, RequireEpochCycleAllowsStart, StartEpochDecision, StartReadsConfig,
       StartShard, StartRequiresLease, StartPutsSnapshot, StartWritesStore, StartReadsCycle,
       AbortStarted, storeVars
  <1>6. epoch' = epoch \/ cycle \in Settled
    <2>1. CASE StartWritesStore(c, t)
      BY <2>1 DEF StartWritesStore, At, GateInv, Gated
    <2> QED BY <2>1 DEF StartSteps, RequireEpochCycleAllowsStart, StartEpochDecision,
            StartReadsConfig, StartShard, StartRequiresLease, StartPutsSnapshot,
            StartReadsCycle, AbortStarted, storeVars
  <1>7. \/ h.at \in Ended \cup {"start_decide", "start_config", "abort"}
        \/ h.at \in Configured \ {"start_commit"} /\ h.cfg = config
    <2>1. ASSUME NEW answer \in {"ok", "err"}, Return(c, t, answer) PROVE h.at \in Ended
      BY <2>1, ReturnMoved
    <2>2. CASE RequireEpochCycleAllowsStart(c, t)
      <3>1. /\ Return(c, t, "err") \/ Goto(c, t, "start_decide")
            /\ Follows(g.at, "start_decide")
        BY <2>2 DEF RequireEpochCycleAllowsStart, At, Follows
      <3> QED BY <2>1, <3>1, GotoKeeps
    <2>3. CASE StartEpochDecision(c, t)
      <3>1. Return(c, t, "err") \/ \E n :
              call' = [call EXCEPT ![c][t].at = "start_config", ![c][t].id = n]
        BY <2>3 DEF StartEpochDecision
      <3>2. ASSUME NEW n, call' = [call EXCEPT ![c][t].at = "start_config", ![c][t].id = n]
            PROVE  h.at = "start_config"
        BY <1>1, <3>2 DEF Handler
      <3> QED BY <2>1, <3>1, <3>2
    <2>4. CASE StartReadsConfig(c, t)
      <3>1. CASE Return(c, t, "err")
        BY <2>1, <3>1
      <3>2. CASE ~Return(c, t, "err")
        <4>1. PICK seen : /\ Sees(seen, config)
                          /\ call' = [call EXCEPT ![c][t].at = "start_shards", ![c][t].cfg = seen]
          BY <2>4, <3>2 DEF StartReadsConfig
        <4>2. seen = config
          BY <4>1, SeesExactly
        <4>3. h.at = "start_shards" /\ h.cfg = config
          BY <1>1, <4>1, <4>2 DEF Handler
        <4> QED BY <4>3 DEF Configured
      <3> QED BY <3>1, <3>2
    <2>5. CASE StartShard(c, t)
      <3> DEFINE s == NextShard(c, t)
      <3> HIDE DEF s
      <3>1. /\ g.at = "start_shards" /\ Follows(g.at, "abort")
            /\ Goto(c, t, "abort") \/ call' = [call EXCEPT ![c][t].started = @ \cup {s}]
        BY <2>5 DEF StartShard, s, At, Follows
      <3>2. ASSUME call' = [call EXCEPT ![c][t].started = @ \cup {s}]
            PROVE  h.at = g.at /\ h.cfg = g.cfg
        BY <1>1, <3>2 DEF Handler
      <3> QED BY <1>3, <3>1, <3>2, GotoKeeps DEF Configured
    <2>6. CASE StartRequiresLease(c, t) \/ StartPutsSnapshot(c, t) \/ StartWritesStore(c, t)
      <3>1. /\ g.at \in {"start_shards", "start_snapshot", "start_store"}
            /\ \E place \in {"start_snapshot", "start_store", "start_from", "abort"} :
                 Goto(c, t, place) /\ Follows(g.at, place)
        BY <2>6 DEF StartRequiresLease, StartPutsSnapshot, StartWritesStore, At, Follows
      <3>2. h.at \in {"start_snapshot", "start_store", "start_from", "abort"} /\ h.cfg = g.cfg
        BY <3>1, GotoKeeps
      <3> QED BY <1>3, <3>1, <3>2 DEF Configured
    <2>7. CASE StartReadsCycle(c, t)
      <3>1. g.at = "start_from"
        BY <2>7 DEF StartReadsCycle, At
      <3>2. h.at = "start_active" /\ h.cfg = g.cfg
        BY <1>1, <2>7 DEF StartReadsCycle, Handler
      <3> QED BY <1>3, <3>1, <3>2 DEF Configured
    <2>8. CASE AbortStarted(c, t)
      <3> DEFINE s == CHOOSE x \in g.started : \A y \in g.started : x <= y
      <3>1. /\ g.at = "abort"
            /\ Return(c, t, "err") \/ call' = [call EXCEPT ![c][t].started = @ \ {s}]
        BY <2>8 DEF AbortStarted, At
      <3> HIDE DEF s
      <3>2. ASSUME call' = [call EXCEPT ![c][t].started = @ \ {s}] PROVE h.at = "abort"
        BY <1>1, <3>1, <3>2 DEF Handler
      <3> QED BY <2>1, <3>1, <3>2
    <2> QED BY <2>2, <2>3, <2>4, <2>5, <2>6, <2>7, <2>8 DEF StartSteps
  <1> HIDE DEF g, h
  <1>8. Carries(t)' /\ ~ForEpoch(t)' /\ ~Owns(t)'
    BY <1>4, <1>7 DEF h, Carries, ForEpoch, Owns, Held, Ended, Configured, Reporting, ApplyPlaces,
       Evaluating, Applying
  <1>9. /\ \A u \in Threads : u # t => Held(u)' = Held(u)
        /\ LatestFits'
        /\ AutoOwns' <=> AutoOwns
        /\ AutoOwns => cycle \in Scaling
    BY <1>2, <1>4, <1>5 DEF Moved, Becomes, Held, ScalingParts, Claims, LatestFits, AutoOwns
  <1>10. Settled \cap Scaling = {}
    BY DEF Settled, Scaling
  <1> QED BY <1>4, <1>5, <1>6, <1>8, <1>9, <1>10, ClaimsStep

\* StartEpoch moves the cycle, which nobody has a claim on, and commits.
LEMMA ScalingActivates ==
  ASSUME CycleTypeInv, ScalingParts, GateInv, OneStart, NEW t \in Threads,
         StartActivatesCycle(AutoTarget, t)
  PROVE  ScalingParts'
  <1> DEFINE c == AutoTarget
             g == call[c][t]
             h == call'[c][t]
  <1>1. /\ g.at = "start_active" /\ UNCHANGED <<epoch, config, latest, local, auto>>
        /\ \/ Goto(c, t, "start_commit") /\ cycle' = "active"
           \/ Goto(c, t, "abort")
        /\ Follows(g.at, "start_commit") /\ Follows(g.at, "abort")
    BY DEF StartActivatesCycle, CycleStep, CyclePut, PutEpochCycleTransition, At, Follows
  <1>2. cycle \in Settled /\ g.cfg = config
    BY <1>1 DEF GateInv, Gated, ScalingParts, Carries, Held, Configured
  <1>3. \/ h.at = "start_commit" /\ h.cfg = config /\ cycle' = "active"
        \/ h.at = "abort"
    BY <1>1, <1>2, GotoKeeps
  <1>4. Moved(c, t)
    BY <1>1, GotoKeeps
  <1> HIDE DEF g, h
  <1>5. Carries(t)' /\ (ForEpoch(t)' => cycle' = "active") /\ ~Owns(t)'
    BY <1>1, <1>3 DEF h, Carries, ForEpoch, Owns, Held, Configured, Reporting, ApplyPlaces,
       Evaluating, Applying
  <1>6. cycle \notin Scaling \cup {"active"}
    BY <1>2 DEF Settled, Scaling
  <1>7. local'[AutoTarget].state # "Active" /\ ~AutoOwns'
    BY <1>1, <1>6 DEF ScalingParts, Claims, AutoOwns
  <1>8. LatestFits' /\ \A u \in Threads : u # t => Held(u)' = Held(u)
    BY <1>1, <1>4 DEF ScalingParts, LatestFits, Moved, Becomes, Held
  <1> QED BY <1>1, <1>5, <1>6, <1>7, <1>8, ClaimsStep

\* commitStartedEpoch: the open epoch takes over from StartEpoch.
LEMMA ScalingCommits ==
  ASSUME CycleTypeInv, ScalingParts, NEW t \in Threads, CommitStartedEpoch(AutoTarget, t)
  PROVE  ScalingParts'
  <1> DEFINE g == call[AutoTarget][t]
  <1>1. /\ g.at = "start_commit" /\ Return(AutoTarget, t, "ok")
        /\ UNCHANGED <<epoch, config, latest, cycle, auto>>
        /\ local' = [local EXCEPT ![AutoTarget] = [id |-> g.id, state |-> "Active",
                                                   count |-> g.cfg.count]]
    BY DEF CommitStartedEpoch, At, storeVars
  <1>2. Moved(AutoTarget, t) /\ call'[AutoTarget][t].at \in Ended
    BY <1>1, ReturnMoved
  <1>3. Carries(t)' /\ ~ForEpoch(t)' /\ ~Owns(t)'
    BY <1>2, CarriesNothing DEF Held, Ended, Configured, Reporting, ApplyPlaces, Evaluating, Applying
  <1>4. ForEpoch(t) /\ g.cfg = config
    BY <1>1 DEF ForEpoch, ScalingParts, Carries, Held, Configured
  <1>5. local'[AutoTarget].count = config.count
    BY <1>1, <1>4 DEF CycleTypeInv, TypeOK
  <1>6. AutoOwns' => AutoOwns /\ cycle \in Scaling
    BY <1>1 DEF AutoOwns, ScalingParts, Claims
  <1>7. LatestFits' /\ \A u \in Threads : u # t => Held(u)' = Held(u)
    BY <1>1, <1>2 DEF ScalingParts, LatestFits, Moved, Becomes, Held
  <1> QED BY <1>1, <1>3, <1>4, <1>5, <1>6, <1>7, ClaimsStep

\* The timer up to the commit of the completed epoch.
LEMMA ScalingTimer ==
  ASSUME CycleTypeInv, ScalingParts,
         \/ TimerFires(AutoTarget) \/ CompleteEpochDecision(AutoTarget)
         \/ CompleteRequiresLease(AutoTarget)
  PROVE  ScalingParts'
  <1> DEFINE c == AutoTarget
             g == call[c][Timer]
             h == call'[c][Timer]
  <1>1. Timer \in Threads
    BY DEF Threads
  <1>2. g \in Handler /\ call \in [Coordinators -> [Threads -> Handler]]
    BY <1>1, HandlerTyped
  <1>3. Moved(c, Timer)
    BY TimerFiresTyped, CompleteStepsTyped DEF CompleteSteps
  <1>4. UNCHANGED <<epoch, config, latest, cycle, local, auto>>
    BY DEF TimerFires, CompleteEpochDecision, CompleteRequiresLease, storeVars
  <1>5. h.at \in Ended \cup {"done_decide", "done_lease", "done_commit"}
    <2>1. ASSUME NEW answer \in {"ok", "err"}, Return(c, Timer, answer) PROVE h.at \in Ended
      BY <1>1, <2>1, ReturnMoved
    <2>2. CASE TimerFires(c)
      BY <1>1, <1>2, <2>2 DEF TimerFires, Idle
    <2>3. CASE CompleteEpochDecision(c)
      <3>1. \/ Return(c, Timer, "err")
            \/ call' = [call EXCEPT ![c][Timer].at = "done_lease", ![c][Timer].id = local[c].id]
        BY <2>3 DEF CompleteEpochDecision
      <3>2. ASSUME call' = [call EXCEPT ![c][Timer].at = "done_lease", ![c][Timer].id = local[c].id]
            PROVE  h.at = "done_lease"
        BY <1>1, <1>2, <3>2 DEF Handler
      <3> QED BY <2>1, <3>1, <3>2
    <2>4. CASE CompleteRequiresLease(c)
      <3>1. /\ Return(c, Timer, "err") \/ Goto(c, Timer, "done_commit")
            /\ Follows(g.at, "done_commit")
        BY <2>4 DEF CompleteRequiresLease, At, Follows
      <3> QED BY <1>1, <2>1, <3>1, GotoKeeps
    <2> QED BY <2>2, <2>3, <2>4
  <1>6. Carries(Timer)' /\ ~ForEpoch(Timer)' /\ ~Owns(Timer)'
    BY <1>1, <1>5, CarriesNothing DEF Held, Ended, Configured, Reporting, ApplyPlaces, Evaluating,
       Applying
  <1> QED BY <1>1, <1>3, <1>4, <1>6, ScalingQuiet

\* commitCompletedEpoch: the timer takes over from the open epoch.
LEMMA ScalingCompletes ==
  ASSUME CycleTypeInv, ScalingParts, CommitCompletedEpoch(AutoTarget)
  PROVE  ScalingParts'
  <1> DEFINE c == AutoTarget
             g == call[c][Timer]
             h == call'[c][Timer]
  <1>1. Timer \in Threads
    BY DEF Threads
  <1>2. g \in Handler /\ call \in [Coordinators -> [Threads -> Handler]]
    BY <1>1, HandlerTyped
  <1>3. Moved(c, Timer) /\ UNCHANGED <<epoch, config, latest, cycle, auto>>
    BY CommitCompletedTyped DEF CommitCompletedEpoch, storeVars
  <1>4. CASE Return(c, Timer, "err") /\ UNCHANGED local
    BY <1>1, <1>3, <1>4, ScalingReturns
  <1>5. CASE local[c].state = "Active" /\ ~(Return(c, Timer, "err") /\ UNCHANGED local)
    <2>1. PICK target \in Shards :
            call' = [call EXCEPT ![c][Timer].at = "done_store",
                       ![c][Timer].rec = [epoch |-> g.id, version |-> 0,
                                          count |-> local[c].count, target |-> target]]
      BY <1>5 DEF CommitCompletedEpoch
    <2>2. local' = [local EXCEPT ![c].state = "Completed"]
      BY <1>5 DEF CommitCompletedEpoch
    <2>3. h.at = "done_store" /\ h.rec.count = local[c].count
      BY <1>1, <1>2, <2>1 DEF Handler
    <2>4. local'[c].state = "Completed"
      BY <2>2 DEF CycleTypeInv, TypeOK
    <2>5. cycle = "active" /\ local[c].count = config.count
      BY <1>5 DEF ScalingParts, Claims
    <2> HIDE DEF g, h
    <2>6. Carries(Timer)' /\ ~Owns(Timer)'
      BY <1>3, <2>3, <2>5 DEF h, Carries, Owns, Held, Configured, Reporting, ApplyPlaces,
         Evaluating, Applying
    <2>7. AutoOwns' => AutoOwns /\ cycle \in Scaling
      BY <1>3 DEF AutoOwns, ScalingParts, Claims
    <2>8. LatestFits' /\ \A u \in Threads : u # Timer => Held(u)' = Held(u)
      BY <1>3 DEF ScalingParts, LatestFits, Moved, Becomes, Held
    <2> QED BY <1>1, <1>3, <1>5, <2>4, <2>5, <2>6, <2>7, <2>8, ClaimsStep
  <1> QED BY <1>4, <1>5 DEF CommitCompletedEpoch

\* The timer completes the epoch in the store and reads the version.
LEMMA ScalingReports ==
  ASSUME CycleTypeInv, ScalingParts, ExactReads',
         CompleteWritesStore(AutoTarget) \/ CompleteReadsVersion(AutoTarget)
  PROVE  ScalingParts'
  <1> DEFINE c == AutoTarget
             g == call[c][Timer]
             h == call'[c][Timer]
  <1>1. Timer \in Threads
    BY DEF Threads
  <1>2. g \in Handler /\ call \in [Coordinators -> [Threads -> Handler]]
    BY <1>1, HandlerTyped
  <1>3. Moved(c, Timer)
    BY CompleteStepsTyped DEF CompleteSteps
  <1>4. UNCHANGED <<config, latest, cycle, local, auto>>
    BY DEF CompleteWritesStore, CompleteReadsVersion, storeVars
  <1>5. epoch'.state = "Active" => epoch.state = "Active"
    <2>1. epoch' = epoch \/ epoch' = [epoch EXCEPT !.state = "Completed"]
      BY DEF CompleteWritesStore, CompleteReadsVersion, StoreCompleteEpoch, storeVars
    <2> QED BY <2>1 DEF CycleTypeInv, TypeOK, StoreTypeOK, EpochRecord
  <1>6. g.at \in Reporting /\ g.rec.count = config.count
    BY DEF CompleteWritesStore, CompleteReadsVersion, At, Reporting, ScalingParts, Carries, Held,
       Threads
  <1>7. \/ h.at \in Ended
        \/ h.at = "done_version" /\ h.rec.count = config.count
        \/ h.at = "done_scaling" /\ h.rec.count = config.count /\ h.rec.version = config.version
    <2>1. CASE CompleteWritesStore(c)
      <3>1. /\ Return(c, Timer, "err") \/ Goto(c, Timer, "done_version")
            /\ Follows(g.at, "done_version")
        BY <2>1 DEF CompleteWritesStore, At, Follows
      <3> QED BY <1>1, <1>6, <3>1, GotoKeeps, ReturnMoved
    <2>2. CASE CompleteReadsVersion(c)
      <3> DEFINE rec == [g.rec EXCEPT !.version = config.version]
      <3>1. rec.count = g.rec.count /\ rec.version = config.version
        BY <1>2 DEF Handler, Recommendation
      <3>2. call' = [call EXCEPT ![c][Timer].at = "done_scaling", ![c][Timer].rec = rec]
        <4>1. PICK seen :
                /\ Sees(seen, config)
                /\ call' = [call EXCEPT ![c][Timer].at = "done_scaling",
                              ![c][Timer].rec = [call[c][Timer].rec EXCEPT !.version = seen.version]]
          BY <2>2 DEF CompleteReadsVersion
        <4>2. seen = config
          BY <4>1, SeesExactly
        <4> QED BY <4>1, <4>2
      <3> HIDE DEF rec
      <3>3. h.at = "done_scaling" /\ h.rec = rec
        BY <1>1, <1>2, <3>2 DEF Handler
      <3> QED BY <1>6, <3>1, <3>3
    <2> QED BY <2>1, <2>2
  <1> HIDE DEF g, h
  <1>8. Carries(Timer)' /\ ~Owns(Timer)'
    BY <1>4, <1>7 DEF h, Carries, Owns, Held, Ended, Configured, Reporting, ApplyPlaces,
       Evaluating, Applying
  <1>9. ForEpoch(Timer)
    BY <1>6 DEF g, ForEpoch, Held
  <1> QED BY <1>1, <1>3, <1>4, <1>5, <1>8, <1>9, ScalingQuiet

\* The recommendation is for the configuration of the moment, and for the
\* shard count of the epoch, which is that of the configuration.
LEMMA ScalingRecommends ==
  ASSUME CycleTypeInv, ScalingParts, CompletePutsScaling(AutoTarget)
  PROVE  ScalingParts'
  <1> DEFINE c == AutoTarget
             g == call[c][Timer]
             h == call'[c][Timer]
  <1>1. Timer \in Threads
    BY DEF Threads
  <1>2. /\ g.at = "done_scaling" /\ UNCHANGED <<epoch, config, cycle, local, auto>>
        /\ Goto(c, Timer, "done_ready") \/ Goto(c, Timer, "done_failed")
        /\ Follows(g.at, "done_ready") /\ Follows(g.at, "done_failed")
        /\ latest' \in {latest, g.rec}
    BY DEF CompletePutsScaling, PutScaling, At, Follows
  <1>3. /\ g.rec.count = config.count /\ g.rec.version = config.version
        /\ ForEpoch(Timer) /\ cycle = "active" /\ local[c].state # "Active"
    BY <1>1, <1>2 DEF ForEpoch, ScalingParts, Claims, Carries, Held, Reporting
  <1>4. /\ h.at \in {"done_ready", "done_failed"} /\ h.rec = g.rec
        /\ Moved(c, Timer)
    BY <1>1, <1>2, GotoKeeps
  <1>5. config.version \in Nat
    BY DEF CycleTypeInv, TypeOK, StoreTypeOK, ConfigRecord, Versions
  <1> HIDE DEF g, h
  <1>6. LatestFits'
    BY <1>2, <1>3, <1>5 DEF ScalingParts, LatestFits
  <1>7. Carries(Timer)' /\ ~Owns(Timer)'
    BY <1>2, <1>3, <1>4 DEF h, Carries, Owns, Held, Configured, Reporting, ApplyPlaces, Evaluating,
       Applying
  <1>8. AutoOwns' => AutoOwns /\ cycle \in Scaling
    BY <1>2 DEF AutoOwns, ScalingParts, Claims
  <1>9. \A u \in Threads : u # Timer => Held(u)' = Held(u)
    BY <1>4 DEF Moved, Becomes, Held
  <1> QED BY <1>1, <1>2, <1>3, <1>6, <1>7, <1>8, <1>9, ClaimsStep

\* The timer moves the cycle on.
LEMMA ScalingReady ==
  ASSUME CycleTypeInv, ScalingParts,
         CompleteFailsCycle(AutoTarget) \/ CompleteReadiesCycle(AutoTarget)
  PROVE  ScalingParts'
  <1> DEFINE c == AutoTarget
             g == call[c][Timer]
             h == call'[c][Timer]
  <1>1. Timer \in Threads
    BY DEF Threads
  <1>2. /\ g.at \in {"done_ready", "done_failed"}
        /\ UNCHANGED <<epoch, config, latest, local, auto>>
        /\ \/ Return(c, Timer, "err") \/ Return(c, Timer, "ok")
           \/ Goto(c, Timer, "skip_begin") /\ Follows(g.at, "skip_begin")
    BY DEF CompleteFailsCycle, CompleteReadiesCycle, CycleStep, CyclePut, At, Follows
  <1>3. ForEpoch(Timer)
    BY <1>2 DEF ForEpoch, Held, Reporting
  <1>4. cycle = "active" /\ local[c].state # "Active"
    BY <1>1, <1>3 DEF ScalingParts, Claims
  <1>5. h.at \in Ended \cup {"skip_begin"} /\ Moved(c, Timer)
    BY <1>1, <1>2, GotoKeeps, ReturnMoved
  <1> HIDE DEF g, h
  <1>6. Carries(Timer)' /\ ~ForEpoch(Timer)' /\ ~Owns(Timer)'
    BY <1>1, <1>5, CarriesNothing DEF h, Held, Ended, Configured, Reporting, ApplyPlaces,
       Evaluating, Applying
  <1>7. ~AutoOwns'
    BY <1>2, <1>4 DEF AutoOwns, ScalingParts, Claims, Scaling
  <1>8. LatestFits' /\ \A u \in Threads : u # Timer => Held(u)' = Held(u)
    BY <1>2, <1>5 DEF ScalingParts, LatestFits, Moved, Becomes, Held
  <1> QED BY <1>1, <1>2, <1>3, <1>4, <1>6, <1>7, <1>8, ClaimsStep

\* A skip, by an operator or by the timer.
LEMMA ScalingSkips ==
  ASSUME CycleTypeInv, ScalingParts, NEW t \in Threads,
         \/ SkipReadsCycle(AutoTarget, t) \/ SkipReadsEpoch(AutoTarget, t)
         \/ SkipBegins(AutoTarget, t) \/ SkipEnds(AutoTarget, t)
  PROVE  ScalingParts'
  <1> DEFINE c == AutoTarget
             g == call[c][t]
             h == call'[c][t]
  <1>1. Moved(c, t) /\ UNCHANGED <<epoch, config, latest, local, auto>>
    BY SkipTyped, SkipProfile
  <1>2. LatestFits' /\ \A u \in Threads : u # t => Held(u)' = Held(u)
    BY <1>1 DEF ScalingParts, LatestFits, Moved, Becomes, Held
  <1>3. /\ AutoOwns' <=> AutoOwns
        /\ AutoOwns => cycle \in Scaling
        /\ Owns(t) => cycle \in Scaling /\ ~AutoOwns
    BY <1>1 DEF AutoOwns, ScalingParts, Claims
  <1>4. ASSUME h.at \in Ended \cup {"skip_epoch", "skip_begin"}
        PROVE  Carries(t)' /\ ~ForEpoch(t)' /\ ~Owns(t)'
    BY <1>4, CarriesNothing DEF Held, Ended, Configured, Reporting, ApplyPlaces, Evaluating, Applying
  <1>5. CASE SkipReadsCycle(c, t) \/ SkipReadsEpoch(c, t)
    <2>1. /\ UNCHANGED cycle
          /\ \/ Return(c, t, "err")
             \/ Goto(c, t, "skip_epoch") /\ Follows(g.at, "skip_epoch")
             \/ Goto(c, t, "skip_begin") /\ Follows(g.at, "skip_begin")
      BY <1>5 DEF SkipReadsCycle, SkipReadsEpoch, At, Follows, storeVars
    <2>2. h.at \in Ended \cup {"skip_epoch", "skip_begin"}
      BY <2>1, GotoKeeps, ReturnMoved
    <2> QED BY <1>1, <1>4, <2>1, <2>2, ScalingQuiet
  <1>6. CASE SkipBegins(c, t)
    <2>1. \/ /\ cycle = "recommendation_ready" /\ cycle' = "scaling_in_progress"
             /\ Goto(c, t, "skip_end") \/ Return(c, t, "err")
          \/ cycle' = cycle /\ Return(c, t, "err")
      BY <1>6 DEF SkipBegins, CycleStep, CyclePut, PutEpochCycleTransitionAllowed,
         PutEpochCycleTransition
    <2>2. Follows(g.at, "skip_end")
      BY <1>6 DEF SkipBegins, At, Follows
    <2>3. \/ h.at = "skip_end" /\ cycle = "recommendation_ready" /\ cycle' = "scaling_in_progress"
          \/ h.at \in Ended
      BY <2>1, <2>2, GotoKeeps, ReturnMoved
    <2> HIDE DEF g, h
    <2>4. ~ForEpoch(t)' /\ Carries(t)'
      BY <1>1, <1>4, <2>3 DEF h, ForEpoch, Carries, Held, Configured, Reporting, ApplyPlaces,
         Evaluating, Applying
    <2>5. Owns(t)' => h.at = "skip_end"
      BY <1>4, <2>3
    <2>6. "recommendation_ready" \notin Scaling \cup {"active"} /\ "scaling_in_progress" \in Scaling
      BY DEF Scaling
    <2>7. Owns(t)' => cycle' \in Scaling /\ ~AutoOwns' /\ cycle \notin Scaling
      BY <1>3, <2>3, <2>5, <2>6 DEF h, Ended
    <2> QED BY <1>1, <1>2, <1>3, <2>1, <2>4, <2>6, <2>7, ClaimsStep
  <1>7. CASE SkipEnds(c, t)
    <2>1. /\ cycle = "scaling_in_progress" \/ cycle' = cycle
          /\ Return(c, t, "ok") \/ Return(c, t, "err")
          /\ g.at = "skip_end"
      BY <1>7 DEF SkipEnds, CycleStep, CyclePut, PutEpochCycleTransitionAllowed, At
    <2>2. h.at \in Ended
      BY <2>1, ReturnMoved
    <2>3. Owns(t)
      BY <2>1 DEF Owns, Held
    <2> QED BY <1>1, <1>2, <1>3, <1>4, <2>1, <2>2, <2>3, ClaimsStep
  <1> QED BY <1>5, <1>6, <1>7

\* ApplyScalingRecommendation up to the write of the configuration.
LEMMA ScalingApplies ==
  ASSUME CycleTypeInv, ScalingParts, ExactReads', NEW t \in Threads,
         \/ ApplyReadsConfig(AutoTarget, t) \/ ApplyReadsEpoch(AutoTarget, t)
         \/ ApplyReadsLatest(AutoTarget, t) \/ ApplyReadsCycle(AutoTarget, t)
         \/ ApplyConnects(AutoTarget, t)
  PROVE  ScalingParts'
  <1> DEFINE c == AutoTarget
             g == call[c][t]
             h == call'[c][t]
  <1>1. g \in Handler /\ call \in [Coordinators -> [Threads -> Handler]]
    BY HandlerTyped
  <1>2. Moved(c, t) /\ UNCHANGED <<epoch, latest, local, auto>>
    BY ApplyStepsTyped, ApplyProfile DEF ApplySteps
  <1>3. UNCHANGED <<config, cycle>>
    BY DEF ApplyReadsConfig, ApplyReadsEpoch, ApplyReadsLatest, ApplyReadsCycle, ApplyConnects,
       storeVars
  <1>4. g.at \in ApplyPlaces
    BY DEF ApplyReadsConfig, ApplyReadsEpoch, ApplyReadsLatest, ApplyReadsCycle, ApplyConnects, At,
       ApplyPlaces, Evaluating, Applying
  <1>5. /\ g.dry => g.at \in {"apply_config"} \cup Evaluating
        /\ g.at \in Evaluating /\ g.dry = FALSE => g.cfg = config
        /\ g.at \in Applying => g.cfg.version = config.version + 1
        /\ g.at \in Applying \cup {"apply_latest"} /\ g.dry = FALSE => epoch.state # "Active"
    BY <1>4 DEF ScalingParts, Carries, Held
  <1>6. \/ h.at \in Ended
        \/ h.at = "apply_epoch" /\ h.dry = g.dry /\ h.cfg = config
        \/ h.at = "apply_latest" /\ h.dry = g.dry /\ h.cfg = g.cfg /\ g.at = "apply_epoch"
           /\ epoch.state # "Active"
        \/ /\ h.at = "apply_cycle" /\ h.dry = FALSE /\ g.dry = FALSE /\ g.at = "apply_latest"
           /\ h.cfg.version = g.cfg.version + 1
        \/ /\ h.at \in {"apply_begin", "apply_connect", "apply_put", "apply_failed"}
           /\ h.dry = g.dry /\ h.cfg = g.cfg /\ g.at \in Applying
    <2>1. ASSUME NEW answer \in {"ok", "err"}, Return(c, t, answer) PROVE h.at \in Ended
      BY <2>1, ReturnMoved
    <2>2. CASE ApplyReadsConfig(c, t)
      <3>1. CASE Return(c, t, "err")
        BY <2>1, <3>1
      <3>2. CASE ~Return(c, t, "err")
        <4>1. PICK seen : /\ Sees(seen, config)
                          /\ call' = [call EXCEPT ![c][t].at = "apply_epoch", ![c][t].cfg = seen]
          BY <2>2, <3>2 DEF ApplyReadsConfig
        <4>2. seen = config
          BY <4>1, SeesExactly
        <4>3. h.at = "apply_epoch" /\ h.dry = g.dry /\ h.cfg = config
          BY <1>1, <4>1, <4>2 DEF Handler
        <4> QED BY <4>3
      <3> QED BY <3>1, <3>2
    <2>3. CASE ApplyReadsEpoch(c, t)
      <3>1. /\ g.at = "apply_epoch" /\ Follows(g.at, "apply_latest")
            /\ Return(c, t, "err") \/ (epoch.state # "Active" /\ Goto(c, t, "apply_latest"))
        <4>1. PICK seen : /\ Sees(seen, epoch)
                          /\ \/ seen.state # "Active" /\ Goto(c, t, "apply_latest")
                             \/ Return(c, t, "err")
          BY <2>3 DEF ApplyReadsEpoch
        <4>2. seen = epoch
          BY <4>1, SeesExactly
        <4> QED BY <2>3, <4>1, <4>2 DEF ApplyReadsEpoch, At, Follows
      <3> QED BY <2>1, <3>1, GotoKeeps
    <2>4. CASE ApplyReadsLatest(c, t)
      <3> DEFINE new == Proposed(latest, g.cfg)
      <3>1. new.version = g.cfg.version + 1
        BY DEF Proposed
      <3> HIDE DEF new
      <3>2. /\ g.at = "apply_latest"
            /\ \/ Return(c, t, "ok") \/ Return(c, t, "err")
               \/ /\ ~g.dry
                  /\ call' = [call EXCEPT ![c][t].at = "apply_cycle", ![c][t].rec = latest,
                                          ![c][t].cfg = new]
        <4>1. CASE Return(c, t, "ok") \/ Return(c, t, "err")
          BY <2>4, <4>1 DEF ApplyReadsLatest, At
        <4>2. CASE ~Return(c, t, "ok") /\ ~Return(c, t, "err")
          <5>1. PICK seen : /\ Sees(seen, latest) /\ ~g.dry
                            /\ call' = [call EXCEPT ![c][t].at = "apply_cycle", ![c][t].rec = seen,
                                                    ![c][t].cfg = Proposed(seen, g.cfg)]
            BY <2>4, <4>2 DEF ApplyReadsLatest
          <5>2. seen = latest
            BY <5>1, SeesExactly
          <5> QED BY <2>4, <5>1, <5>2 DEF ApplyReadsLatest, new, At
        <4> QED BY <4>1, <4>2
      <3>3. ASSUME call' = [call EXCEPT ![c][t].at = "apply_cycle", ![c][t].rec = latest,
                                        ![c][t].cfg = new]
            PROVE  h.at = "apply_cycle" /\ h.cfg = new /\ h.dry = g.dry
        BY <1>1, <3>3 DEF Handler
      <3>4. g.dry \in BOOLEAN
        BY <1>1 DEF Handler
      <3> QED BY <2>1, <3>1, <3>2, <3>3, <3>4
    <2>5. CASE ApplyReadsCycle(c, t) \/ ApplyConnects(c, t)
      <3>1. /\ g.at \in Applying
            /\ \/ Return(c, t, "err")
               \/ \E place \in {"apply_begin", "apply_connect", "apply_put", "apply_failed"} :
                    Goto(c, t, place) /\ Follows(g.at, place)
        BY <2>5 DEF ApplyReadsCycle, ApplyConnects, At, Follows, Applying
      <3> QED BY <2>1, <3>1, GotoKeeps
    <2> QED BY <2>2, <2>3, <2>4, <2>5
  <1>7. g.dry \in BOOLEAN /\ h.dry \in BOOLEAN
    BY <1>1, <1>2 DEF Moved, HandlerOK, Handler
  <1> HIDE DEF g, h
  <1>8. Applying \cap Evaluating = {} /\ "apply_config" \notin Applying /\ "apply_latest" \in Evaluating
        /\ "apply_epoch" \in Evaluating
    BY DEF Applying, Evaluating
  <1>9. Carries(t)'
    <2>1. CASE h.at \in Ended
      BY <2>1, CarriesNothing DEF h, Held, Ended, Configured, Reporting, ApplyPlaces, Evaluating,
         Applying
    <2>2. CASE h.at \notin Ended
      <3>1. h.at \notin Configured \cup Reporting
        BY <1>6, <2>2 DEF Configured, Reporting
      <3>2. h.dry => h.at \in {"apply_config"} \cup Evaluating
        BY <1>5, <1>6, <1>7, <1>8, <2>2
      <3>3. h.at \in Evaluating /\ h.dry = FALSE => h.cfg = config
        BY <1>5, <1>6, <1>8, <2>2 DEF Evaluating
      <3>4. h.at \in Applying => h.cfg.version = config.version + 1
        BY <1>5, <1>6, <1>8, <2>2 DEF Applying
      <3>5. h.at \in Applying \cup {"apply_latest"} /\ h.dry = FALSE => epoch.state # "Active"
        BY <1>5, <1>6, <1>8, <2>2 DEF Applying
      <3> QED BY <1>2, <1>3, <3>1, <3>2, <3>3, <3>4, <3>5 DEF Carries, Held, h, Reporting
    <2> QED BY <2>1, <2>2
  <1>10. ~ForEpoch(t)'
    BY <1>6 DEF ForEpoch, Held, h, Ended, Reporting
  <1>11. Owns(t)' => Owns(t)
    BY <1>4, <1>6, <1>7 DEF Owns, Held, g, h, Ended, ApplyPlaces, Evaluating, Applying
  <1> QED BY <1>2, <1>3, <1>9, <1>10, <1>11, ScalingQuiet

\* The application moves the cycle: the one that applies has it to itself.
LEMMA ScalingApplied ==
  ASSUME CycleTypeInv, ScalingParts, NEW t \in Threads,
         \/ ApplyBegins(AutoTarget, t) \/ ApplyEnds(AutoTarget, t)
         \/ ApplyFailsCycle(AutoTarget, t)
  PROVE  ScalingParts'
  <1> DEFINE c == AutoTarget
             g == call[c][t]
             h == call'[c][t]
  <1>1. g.at \in {"apply_begin", "apply_end", "apply_failed"}
    BY DEF ApplyBegins, ApplyEnds, ApplyFailsCycle, At
  <1>2. g.dry = FALSE
    <2>1. g.dry \in BOOLEAN
      BY HandlerTyped DEF Handler
    <2>2. g.dry => g.at \in {"apply_config"} \cup Evaluating
      BY <1>1 DEF ScalingParts, Carries, Held, ApplyPlaces, Applying
    <2> QED BY <1>1, <2>1, <2>2 DEF Evaluating
  <1>3. Owns(t)
    BY <1>1, <1>2 DEF Owns, Held, ApplyPlaces, Applying
  <1>4. cycle \in Scaling /\ ~AutoOwns
    BY <1>3 DEF ScalingParts, Claims
  <1>5. Moved(c, t) /\ UNCHANGED <<epoch, latest, local, auto>>
    BY ApplyStepsTyped, ApplyProfile DEF ApplySteps
  <1>6. /\ UNCHANGED config
        /\ cycle = "scaling_in_progress" \/ cycle' = cycle
        /\ Return(c, t, "ok") \/ Return(c, t, "err")
    BY <1>4 DEF ApplyBegins, ApplyEnds, ApplyFailsCycle, CycleStep, CyclePut,
       PutEpochCycleTransitionAllowed, Scaling
  <1>7. h.at \in Ended
    BY <1>6, ReturnMoved
  <1>8. Carries(t)' /\ ~ForEpoch(t)' /\ ~Owns(t)'
    BY <1>7, CarriesNothing DEF Held, Ended, Configured, Reporting, ApplyPlaces, Evaluating, Applying
  <1>9. LatestFits' /\ \A u \in Threads : u # t => Held(u)' = Held(u)
    BY <1>5, <1>6 DEF ScalingParts, LatestFits, Moved, Becomes, Held
  <1>10. ~AutoOwns'
    BY <1>4, <1>5 DEF AutoOwns
  <1> QED BY <1>3, <1>5, <1>6, <1>8, <1>9, <1>10, ClaimsStep

\* The new configuration: nobody else relies on the old one.
LEMMA ScalingPuts ==
  ASSUME CycleTypeInv, ScalingParts, GateInv, OneStart, NEW t \in Threads,
         ApplyPutsConfig(AutoTarget, t)
  PROVE  /\ ScalingParts'
         /\ epoch.state # "Active"
         /\ config' = config \/ config'.version = config.version + 1
  <1> DEFINE c == AutoTarget
             g == call[c][t]
             h == call'[c][t]
  <1>1. /\ g.at = "apply_put"
        /\ Goto(c, t, "apply_end") \/ Goto(c, t, "apply_failed")
        /\ Follows(g.at, "apply_end") /\ Follows(g.at, "apply_failed")
        /\ config' = config \/ config' = g.cfg
        /\ UNCHANGED <<epoch, latest, cycle, local, auto>>
    BY DEF ApplyPutsConfig, PutShardConfig, At, Follows
  <1>2. g.dry = FALSE
    <2>1. g.dry \in BOOLEAN
      BY HandlerTyped DEF Handler
    <2>2. g.dry => g.at \in {"apply_config"} \cup Evaluating
      BY <1>1 DEF ScalingParts, Carries, Held, ApplyPlaces, Applying
    <2> QED BY <1>1, <2>1, <2>2 DEF Evaluating
  <1>3. g.cfg.version = config.version + 1 /\ epoch.state # "Active"
    BY <1>1, <1>2 DEF ScalingParts, Carries, Held, Applying
  <1>4. Owns(t)
    BY <1>1, <1>2 DEF Owns, Held, ApplyPlaces, Applying
  <1>5. cycle \in Scaling /\ ~AutoOwns /\ \A u \in Threads : Owns(u) => u = t
    BY <1>4 DEF ScalingParts, Claims
  <1>6. cycle # "active" /\ cycle \notin Settled
    BY <1>5 DEF Scaling, Settled
  <1>7. Moved(c, t) /\ h.at \in {"apply_end", "apply_failed"} /\ h.dry = FALSE
    BY <1>1, <1>2, GotoKeeps
  <1> HIDE DEF g, h
  <1>8. \A u \in Threads : u # t => Held(u)' = Held(u)
    BY <1>7 DEF Moved, Becomes, Held
  <1>9. Carries(t)' /\ ~ForEpoch(t)'
    BY <1>7 DEF h, Carries, ForEpoch, Held, Configured, Reporting, ApplyPlaces, Evaluating, Applying
  <1>10. ASSUME NEW u \in Threads, u # t PROVE Carries(u)' /\ (ForEpoch(u)' <=> ForEpoch(u))
                                               /\ (Owns(u)' <=> Owns(u))
    <2>1. Held(u)' = Held(u)
      BY <1>8, <1>10
    <2>2. ForEpoch(u)' <=> ForEpoch(u)
      BY <2>1 DEF ForEpoch
    <2>3. Owns(u)' <=> Owns(u)
      BY <2>1 DEF Owns
    <2>4. ~ForEpoch(u) /\ ~Owns(u) /\ Carries(u)
      BY <1>5, <1>6, <1>10 DEF ScalingParts, Claims
    <2>5. Held(u).at \notin Configured \cup Reporting
      <3>1. Held(u).at \notin Gated
        BY <1>6 DEF GateInv, Held
      <3> QED BY <2>4, <3>1 DEF ForEpoch, Configured, Gated
    <2>6. Held(u).dry \in BOOLEAN
      BY HandlerTyped DEF Held, Handler
    <2>7. Held(u).at \in ApplyPlaces => Held(u).dry /\ Held(u).at \in {"apply_config"} \cup Evaluating
      BY <2>4, <2>6 DEF Owns, Carries
    <2>8. Held(u).at \notin Applying /\ "done_scaling" \in Reporting
      BY <2>7 DEF ApplyPlaces, Evaluating, Applying, Reporting
    <2>9. Held(u).at \in Evaluating => Held(u).dry
      BY <2>7 DEF ApplyPlaces
    <2>10. "apply_latest" \in Evaluating
      BY DEF Evaluating
    <2>11. Held(u).dry => ~(Held(u).dry = FALSE)
      OBVIOUS
    <2> DEFINE k == Held(u)
    <2>12. /\ k.at \notin Configured \cup Reporting
           /\ k.at # "done_scaling"
           /\ k.at \in ApplyPlaces /\ k.dry => k.at \in {"apply_config"} \cup Evaluating
           /\ ~(k.at \in Evaluating /\ k.dry = FALSE)
           /\ k.at \notin Applying
           /\ ~(k.at \in Applying \cup {"apply_latest"} /\ k.dry = FALSE)
      BY <2>5, <2>7, <2>8, <2>9, <2>10, <2>11
    <2>13. Held(u)' = k
      BY <2>1
    <2> HIDE DEF k
    <2>14. Carries(u)'
      BY <2>12, <2>13 DEF Carries
    <2> QED BY <2>2, <2>3, <2>14
  <1>11. LatestFits'
    <2>1. config.version \in Nat /\ latest.version \in Nat
      BY DEF CycleTypeInv, TypeOK, StoreTypeOK, ConfigRecord, Versions, Recommendation
    <2> QED BY <1>1, <1>3, <2>1 DEF ScalingParts, LatestFits
  <1>12. ~AutoOwns' /\ local'[AutoTarget].state # "Active"
    BY <1>1, <1>5, <1>6 DEF AutoOwns, ScalingParts, Claims
  <1>13. \A u \in Threads : ~ForEpoch(u)' /\ (Owns(u)' => u = t)
    BY <1>5, <1>6, <1>9, <1>10 DEF ScalingParts, Claims
  <1>14. Claims'
    BY <1>1, <1>5, <1>12, <1>13 DEF Claims
  <1>15. \A u \in Threads : Carries(u)'
    BY <1>9, <1>10
  <1> QED BY <1>1, <1>3, <1>11, <1>14, <1>15 DEF ScalingParts

\* The autoscaler acts, and no handler does.
LEMMA ScalingAuto ==
  ASSUME ScalingParts, UNCHANGED <<epoch, config, latest, local, call>>,
         \/ cycle' = cycle
         \/ cycle = "recommendation_ready" /\ cycle' \in Scaling
         \/ cycle = "scaling_in_progress" /\ (AutoOwns \/ cycle' = "failed"),
         AutoOwns' => cycle' \in Scaling /\ (AutoOwns \/ cycle \notin Scaling)
  PROVE  ScalingParts'
  <1>1. Timer \in Threads /\ \A u \in Threads : Held(u)' = Held(u)
    BY DEF Threads, Held
  <1>2. Carries(Timer)'
    BY <1>1, CarriesKept DEF ScalingParts
  <1>3. LatestFits'
    BY DEF ScalingParts, LatestFits
  <1>4. /\ ForEpoch(Timer)' <=> ForEpoch(Timer)
        /\ Owns(Timer)' <=> Owns(Timer)
    BY <1>1 DEF ForEpoch, Owns
  <1>5. /\ ForEpoch(Timer) => cycle = "active" /\ local[AutoTarget].state # "Active"
        /\ Owns(Timer) => cycle \in Scaling /\ ~AutoOwns
    BY <1>1 DEF ScalingParts, Claims
  <1>6. /\ "recommendation_ready" \notin Scaling \cup {"active"} /\ "active" \notin Scaling
        /\ "failed" \in Scaling /\ "scaling_in_progress" \in Scaling
    BY DEF Scaling
  <1>7. ForEpoch(Timer)' => cycle' = "active"
    BY <1>4, <1>5, <1>6
  <1>8. Owns(Timer)' => cycle' \in Scaling /\ ~AutoOwns'
    BY <1>4, <1>5, <1>6
  <1> QED BY <1>1, <1>2, <1>3, <1>4, <1>5, <1>6, <1>7, <1>8, ClaimsStep

\* The autoscaler reads, moves the cycle and gives up.
LEMMA ScalingAutoAlone ==
  ASSUME CycleTypeInv, ScalingParts,
         \/ AutoReadsCycle \/ AutoReadsLatest \/ AutoReadsConfig \/ AutoReadsEpoch \/ AutoBegins
         \/ AutoFails \/ AutoSkips \/ AutoTimesOut
  PROVE  ScalingParts'
  <1>1. UNCHANGED <<epoch, config, latest, local, call>>
    BY AutoProfile, AutoAloneTyped DEF AutoSteps
  <1>2. auto \in [at : AutoPlaces, rec : Recommendation, rpc : AutoRpcs \cup {Timer}]
    BY DEF CycleTypeInv, TypeOK
  <1>3. AutoOwns => cycle \in Scaling
    BY DEF ScalingParts, Claims
  <1>4. ASSUME NEW place, AutoGoto(place) PROVE auto'.at = place
    BY <1>2, <1>4 DEF AutoGoto
  <1>5. ASSUME AutoStop PROVE auto'.at = "idle"
    BY <1>5 DEF AutoStop
  <1>6. CASE AutoReadsCycle \/ AutoReadsLatest \/ AutoReadsConfig \/ AutoReadsEpoch \/ AutoTimesOut
    <2>1. UNCHANGED cycle
      BY <1>6 DEF AutoReadsCycle, AutoReadsLatest, AutoReadsConfig, AutoReadsEpoch, AutoTimesOut,
         storeVars
    <2>2. auto'.at \in {"latest", "config", "epoch", "begin", "skip_begin", "failed_ready", "failed"}
      BY <1>2, <1>4, <1>6 DEF AutoReadsCycle, AutoReadsLatest, AutoReadsConfig, AutoReadsEpoch,
         AutoTimesOut
    <2> QED BY <1>1, <2>1, <2>2, ScalingAuto DEF AutoOwns
  <1>7. CASE AutoBegins \/ (auto.at = "skip_begin" /\ AutoSkips)
    <2>1. \E place \in {"dry", "skip_end"} :
            CyclePut("recommendation_ready", "scaling_in_progress", AutoGoto(place), AutoStop)
      BY <1>7 DEF AutoBegins, AutoSkips
    <2>2. \/ cycle' = cycle /\ auto'.at = "idle"
          \/ cycle = "recommendation_ready" /\ cycle' = "scaling_in_progress"
      BY <1>4, <1>5, <2>1 DEF CyclePut, PutEpochCycleTransitionAllowed, PutEpochCycleTransition
    <2>3. "scaling_in_progress" \in Scaling /\ "recommendation_ready" \notin Scaling
      BY DEF Scaling
    <2> QED BY <1>1, <2>2, <2>3, ScalingAuto DEF AutoOwns
  <1>8. CASE AutoFails
    <2>1. /\ \/ cycle' = cycle
             \/ cycle \in {"recommendation_ready", "scaling_in_progress"} /\ cycle' = "failed"
          /\ auto'.at = "idle"
      BY <1>5, <1>8 DEF AutoFails, CyclePut, PutEpochCycleTransitionAllowed, PutEpochCycleTransition
    <2>2. "failed" \in Scaling
      BY DEF Scaling
    <2> QED BY <1>1, <2>1, <2>2, ScalingAuto DEF AutoOwns
  <1>9. CASE auto.at = "skip_end" /\ AutoSkips
    <2>1. /\ cycle' = cycle \/ cycle = "scaling_in_progress"
          /\ auto'.at = "idle"
      BY <1>5, <1>9 DEF AutoSkips, CyclePut, PutEpochCycleTransitionAllowed
    <2>2. AutoOwns
      BY <1>9 DEF AutoOwns
    <2> QED BY <1>1, <2>1, <2>2, ScalingAuto DEF AutoOwns
  <1> QED BY <1>6, <1>7, <1>8, <1>9 DEF AutoSkips

\* The autoscaler hands its claim to the handler it calls to apply, and
\* keeps it while it calls for a dry run.
LEMMA ScalingAutoCalls ==
  ASSUME CycleTypeInv, ScalingParts, AutoCalls \/ AutoAnswered
  PROVE  ScalingParts'
  <1>1. UNCHANGED <<epoch, config, latest, cycle, local>>
    BY DEF AutoCalls, AutoAnswered, storeVars
  <1>2. auto \in [at : AutoPlaces, rec : Recommendation, rpc : AutoRpcs \cup {Timer}]
    BY DEF CycleTypeInv, TypeOK
  <1>3. AutoOwns => cycle \in Scaling
    BY DEF ScalingParts, Claims
  <1>4. LatestFits'
    BY <1>1 DEF ScalingParts, LatestFits
  <1>5. CASE AutoCalls /\ UNCHANGED call /\ AutoGoto("failed")
    <2>1. auto'.at = "failed"
      BY <1>2, <1>5 DEF AutoGoto
    <2> QED BY <1>1, <1>5, <2>1, ScalingAuto DEF AutoOwns
  <1>6. ASSUME NEW t \in AutoRpcs, AutoCalls, Apply(AutoTarget, t, auto.at = "dry"),
               auto' = [auto EXCEPT !.at = IF auto.at = "dry" THEN "dry_wait" ELSE "apply_wait",
                                    !.rpc = t]
        PROVE  ScalingParts'
    <2>1. auto.at \in {"dry", "apply"} /\ AutoOwns /\ t \in Threads
      BY <1>6 DEF AutoCalls, AutoOwns, Threads, Rpcs
    <2>2. /\ Moved(AutoTarget, t) /\ call'[AutoTarget][t].at = "apply_config"
          /\ call'[AutoTarget][t].dry = (auto.at = "dry")
      BY <1>6, ApplyMoved
    <2>3. auto'.at = IF auto.at = "dry" THEN "dry_wait" ELSE "apply_wait"
      BY <1>2, <1>6
    <2>4. Owns(t)' => ~AutoOwns'
      BY <2>1, <2>2, <2>3 DEF Owns, AutoOwns, Held
    <2>5. Carries(t)' /\ ~ForEpoch(t)'
      BY <2>2 DEF Carries, ForEpoch, Held, Configured, Reporting, ApplyPlaces, Evaluating, Applying
    <2>6. \A u \in Threads : u # t => Held(u)' = Held(u)
      BY <2>2 DEF Moved, Becomes, Held
    <2> QED BY <1>1, <1>3, <1>4, <2>1, <2>4, <2>5, <2>6, ClaimsStep
  <1>7. CASE AutoAnswered
    <2>1. /\ Moved(AutoTarget, auto.rpc) /\ call'[AutoTarget][auto.rpc] = Idle
          /\ auto.rpc \in Threads
      BY <1>7, AutoAnsweredTyped DEF Threads, Rpcs
    <2>2. PICK t \in Threads : t = auto.rpc
      BY <2>1
    <2>3. Held(t)'.at = "idle" /\ \A u \in Threads : u # t => Held(u)' = Held(u)
      BY <2>1, <2>2 DEF Moved, Becomes, Held, Idle
    <2>4. Carries(t)' /\ ~ForEpoch(t)' /\ ~Owns(t)'
      BY <2>3, CarriesNothing DEF Configured, Reporting, ApplyPlaces, Evaluating, Applying
    <2>5. AutoOwns' => AutoOwns
      <3>1. \/ auto.at = "dry_wait"
            \/ auto'.at \in {"idle", "failed"}
        <4>1. \/ auto.at = "dry_wait" \/ AutoStop
              \/ auto' = [auto EXCEPT !.at = "failed", !.rpc = Timer]
          BY <1>7 DEF AutoAnswered
        <4>2. ASSUME AutoStop PROVE auto'.at = "idle"
          BY <4>2 DEF AutoStop
        <4> QED BY <1>2, <4>1, <4>2
      <3> QED BY <3>1 DEF AutoOwns
    <2> QED BY <1>1, <1>3, <1>4, <2>3, <2>4, <2>5, ClaimsStep
  <1> QED BY <1>5, <1>6, <1>7 DEF AutoCalls

\* The coordinator in charge crashes, or another one: its handlers are gone,
\* what the autoscaler claims is not.
LEMMA ScalingCrash ==
  ASSUME CycleTypeInv, ScalingParts, NEW c \in Coordinators, Crash(c)
  PROVE  ScalingParts'
  <1>1. UNCHANGED <<epoch, config, latest, cycle, auto>>
    BY DEF Crash, storeVars
  <1>2. /\ \A t \in Threads : call'[c][t].at \in Ended
        /\ \A d \in Coordinators, t \in Threads : d # c => call'[d][t] = call[d][t]
    BY CrashTyped
  <1>3. /\ c # AutoTarget => local'[AutoTarget] = local[AutoTarget]
        /\ c = AutoTarget => local'[AutoTarget].state # "Active"
    BY DEF Crash, CycleTypeInv, TypeOK, NoLocalEpoch
  <1>4. LatestFits' /\ (AutoOwns' <=> AutoOwns)
    BY <1>1 DEF ScalingParts, LatestFits, AutoOwns
  <1>5. ASSUME NEW u \in Threads
        PROVE  Carries(u)' /\ (ForEpoch(u)' => ForEpoch(u)) /\ (Owns(u)' => Owns(u))
    <2>1. CASE c = AutoTarget
      BY <1>2, <2>1, CarriesNothing DEF Held, Ended, Configured, Reporting, ApplyPlaces,
         Evaluating, Applying
    <2>2. CASE c # AutoTarget
      <3>1. Held(u)' = Held(u)
        BY <1>2, <2>2 DEF Held
      <3>2. Carries(u)'
        BY <1>1, <3>1, CarriesKept DEF ScalingParts
      <3> QED BY <3>1, <3>2 DEF ForEpoch, Owns
    <2> QED BY <2>1, <2>2
  <1>6. Claims'
    BY <1>1, <1>3, <1>4, <1>5 DEF ScalingParts, Claims
  <1> QED BY <1>4, <1>5, <1>6 DEF ScalingParts

\* StartEpoch and SkipScalingRecommendation are called.
LEMMA ScalingCalls ==
  ASSUME CycleTypeInv, ScalingParts, NEW t \in Threads,
         \/ \E id \in RequestIDs : StartEpoch(AutoTarget, t, id)
         \/ SkipScalingRecommendation(AutoTarget, t)
  PROVE  ScalingParts'
  <1>1. UNCHANGED <<epoch, config, latest, cycle, local, auto>>
    BY DEF StartEpoch, SkipScalingRecommendation, storeVars
  <1>2. Moved(AutoTarget, t)
    BY StartEpochTyped, CallsTyped
  <1>3. call'[AutoTarget][t].at \in {"start_cycle", "skip_cycle"}
    <2>1. call \in [Coordinators -> [Threads -> Handler]]
      BY HandlerTyped
    <2>2. PICK id, h : /\ h \in {[Idle EXCEPT !.at = "start_cycle", !.id = id],
                               [Idle EXCEPT !.at = "skip_cycle"]}
                       /\ call' = [call EXCEPT ![AutoTarget][t] = h]
      BY DEF StartEpoch, SkipScalingRecommendation
    <2>3. h.at \in {"start_cycle", "skip_cycle"}
      BY <2>2 DEF Idle
    <2> QED BY <2>1, <2>2, <2>3
  <1>4. Carries(t)' /\ ~ForEpoch(t)' /\ ~Owns(t)'
    BY <1>3, CarriesNothing DEF Held, Configured, Reporting, ApplyPlaces, Evaluating, Applying
  <1> QED BY <1>1, <1>2, <1>4, ScalingQuiet

\* Under one holder of the lease all handlers run in one coordinator.
LEMMA InCharge ==
  ASSUME CycleTypeInv, HolderInv, OneStart, NEW c \in Coordinators, NEW t \in Threads,
         \/ RpcSteps(c, t) \/ CompleteSteps(c) \/ TimerFires(c)
         \/ \E id \in RequestIDs : StartEpoch(c, t, id)
         \/ SkipScalingRecommendation(c, t)
  PROVE  c = AutoTarget
  <1>1. \/ call[c][t].at # "idle" \/ call[c][Timer].at # "idle" \/ timer[c] \/ holder = c
    BY Called DEF TimerFires, StartEpoch, SkipScalingRecommendation
  <1>2. Timer \in Threads /\ used.takeovers = 0
    BY DEF Threads, OneStart
  <1> QED BY <1>1, <1>2 DEF HolderInv

\* Without operators that promote nobody does.
LEMMA NoPromotion ==
  ASSUME CycleTypeInv, PromoteRpcs = {}, NEW c \in Coordinators, NEW t \in Threads
  PROVE  ~PromoteReadsConfig(c, t) /\ ~PromotePutsConfig(c, t)
  <1>1. HandlerOK(t, call[c][t])
    BY DEF CycleTypeInv, HandlersOK
  <1> QED BY <1>1 DEF HandlerOK, PromotePlaces, PromoteReadsConfig, PromotePutsConfig, At

\* Without operators only the write of a recommendation changes the
\* configuration, when no epoch is open, and gives it the next version.
ConfigStep ==
  \/ config' = config
  \/ epoch.state # "Active" /\ config'.version = config.version + 1

\* Every step keeps to this, also one that misreads: who writes the
\* configuration has read already.
LEMMA ConfigMoves ==
  ASSUME CycleTypeInv, HolderInv, GateInv, ScalingParts, Unattended, [Next]_vars
  PROVE  ConfigStep
  <1>1. OneStart /\ ApplyRpcs = {} /\ PromoteRpcs = {}
    BY DEF Unattended
  <1>2. ASSUME AutoSteps \/ AutoTimesOut PROVE config' = config
    BY <1>2, AutoProfile
  <1>3. ASSUME NEW c \in Coordinators, TimerFires(c) \/ CompleteSteps(c) PROVE config' = config
    BY <1>3, CompleteProfile
  <1>4. ASSUME NEW c \in Coordinators, NEW t \in Threads, RpcSteps(c, t) PROVE ConfigStep
    <2>1. c = AutoTarget
      BY <1>1, <1>4, InCharge
    <2>2. CASE StartSteps(c, t)
      BY <2>1, <2>2, StartKeepsConfig DEF ConfigStep
    <2>3. CASE ApplyPutsConfig(c, t)
      BY <1>1, <2>1, <2>3, ScalingPuts DEF ConfigStep
    <2>4. CASE ApplySteps(c, t) /\ ~ApplyPutsConfig(c, t)
      BY <2>4 DEF ApplySteps, ApplyReadsConfig, ApplyReadsEpoch, ApplyReadsLatest,
         ApplyReadsCycle, ApplyBegins, ApplyConnects, ApplyEnds, ApplyFailsCycle, CycleStep,
         CyclePut, storeVars, ConfigStep
    <2>5. CASE SkipReadsCycle(c, t) \/ SkipReadsEpoch(c, t) \/ SkipBegins(c, t) \/ SkipEnds(c, t)
      BY <2>5, SkipProfile DEF ConfigStep
    <2>6. ~PromoteReadsConfig(c, t) /\ ~PromotePutsConfig(c, t)
      BY <1>1, NoPromotion
    <2> QED BY <1>4, <2>2, <2>3, <2>4, <2>5, <2>6 DEF RpcSteps, AdminSteps
  <1>5. ASSUME NEW c \in Coordinators, NEW t \in Rpcs,
               \/ \E id \in RequestIDs : StartEpoch(c, t, id)
               \/ ApplyScalingRecommendation(c, t)
               \/ SkipScalingRecommendation(c, t)
               \/ PromoteShardStandby(c, t)
        PROVE  config' = config
    BY <1>5 DEF StartEpoch, ApplyScalingRecommendation, SkipScalingRecommendation,
       PromoteShardStandby, storeVars
  <1>6. ASSUME NEW c \in Coordinators, Crash(c) PROVE config' = config
    BY <1>6 DEF Crash, storeVars
  <1>7. ASSUME \/ \E s \in Shards : ShardEpochEnds(s)
               \/ \E c \in Coordinators : TakeOver(c)
               \/ UNCHANGED vars
        PROVE  config' = config
    BY <1>7 DEF ShardEpochEnds, TakeOver, vars, storeVars
  <1> QED BY <1>2, <1>3, <1>4, <1>5, <1>6, <1>7 DEF Next, ConfigStep

\* Every step keeps who acts on what, unless it misreads.
LEMMA ScalingStep ==
  ASSUME CycleTypeInv, HolderInv, GateInv, ScalingParts, Unattended, ExactReads', [Next]_vars
  PROVE  ScalingParts'
  <1>1. OneStart /\ ApplyRpcs = {} /\ PromoteRpcs = {}
    BY DEF Unattended
  <1>2. ASSUME AutoSteps \/ AutoTimesOut PROVE ScalingParts'
    BY <1>2, ScalingAutoAlone, ScalingAutoCalls DEF AutoSteps
  <1>3. ASSUME NEW c \in Coordinators, TimerFires(c) \/ CompleteSteps(c)
        PROVE  ScalingParts'
    <2>1. Timer \in Threads
      BY DEF Threads
    <2>2. c = AutoTarget
      BY <1>1, <1>3, <2>1, InCharge
    <2> QED BY <1>3, <2>2, ScalingTimer, ScalingCompletes, ScalingReports, ScalingRecommends,
            ScalingReady DEF CompleteSteps
  <1>4. ASSUME NEW c \in Coordinators, NEW t \in Threads, RpcSteps(c, t)
        PROVE  ScalingParts'
    <2>1. c = AutoTarget
      BY <1>1, <1>4, InCharge
    <2>2. CASE StartSteps(c, t)
      BY <1>1, <2>1, <2>2, ScalingStart, ScalingActivates, ScalingCommits
    <2>3. CASE ApplyPutsConfig(c, t)
      BY <1>1, <2>1, <2>3, ScalingPuts
    <2>4. CASE ApplySteps(c, t) /\ ~ApplyPutsConfig(c, t)
      BY <2>1, <2>4, ScalingApplies, ScalingApplied DEF ApplySteps
    <2>5. CASE SkipReadsCycle(c, t) \/ SkipReadsEpoch(c, t) \/ SkipBegins(c, t) \/ SkipEnds(c, t)
      BY <2>1, <2>5, ScalingSkips
    <2>6. ~PromoteReadsConfig(c, t) /\ ~PromotePutsConfig(c, t)
      BY <1>1, NoPromotion
    <2> QED BY <1>4, <2>2, <2>3, <2>4, <2>5, <2>6 DEF RpcSteps, AdminSteps
  <1>5. ASSUME NEW c \in Coordinators, NEW t \in Rpcs,
               \/ \E id \in RequestIDs : StartEpoch(c, t, id)
               \/ ApplyScalingRecommendation(c, t)
               \/ SkipScalingRecommendation(c, t)
               \/ PromoteShardStandby(c, t)
        PROVE  ScalingParts'
    <2>1. \/ \E id \in RequestIDs : StartEpoch(c, t, id)
          \/ SkipScalingRecommendation(c, t)
      BY <1>1, <1>5 DEF ApplyScalingRecommendation, PromoteShardStandby
    <2>2. t \in Threads
      BY DEF Threads
    <2>3. c = AutoTarget
      BY <1>1, <2>1, <2>2, InCharge
    <2> QED BY <2>1, <2>2, <2>3, ScalingCalls
  <1>6. ASSUME NEW c \in Coordinators, Crash(c) PROVE ScalingParts'
    BY <1>6, ScalingCrash
  <1>7. ASSUME UNCHANGED <<storeVars, local, call, auto>> PROVE ScalingParts'
    <2>1. UNCHANGED <<epoch, config, latest, cycle, local, call, auto>>
      BY <1>7 DEF storeVars
    <2>2. AutoOwns' => AutoOwns /\ cycle \in Scaling
      BY <2>1 DEF AutoOwns, ScalingParts, Claims
    <2> QED BY <2>1, <2>2, ScalingAuto
  <1>8. ASSUME \/ \E s \in Shards : ShardEpochEnds(s)
               \/ \E c \in Coordinators : TakeOver(c)
               \/ UNCHANGED vars
        PROVE  UNCHANGED <<storeVars, local, call, auto>>
    BY <1>8 DEF ShardEpochEnds, TakeOver, vars, storeVars, cycleVars
  <1> QED BY <1>2, <1>3, <1>4, <1>5, <1>6, <1>7, <1>8 DEF Next

\* The conditions do not come back once a take-over or a misread ended them.
LEMMA UnattendedWas ==
  ASSUME CycleTypeInv, [Next]_vars, Unattended'
  PROVE  Unattended /\ ExactReads'
  BY OneStartWas DEF Unattended

\* At first nobody acts.
LEMMA ScalingInit == Init => ScalingInv
  <1> SUFFICES ASSUME Init PROVE ScalingParts
    BY DEF ScalingInv
  <1>1. \A t \in Threads : Held(t).at = "idle"
    BY DEF Init, Idle, Held
  <1>2. latest.epoch = 0 /\ local[AutoTarget].state # "Active" /\ auto.at = "idle"
    BY DEF Init, StoreInit, NoRecommendation, NoLocalEpoch
  <1>3. \A t \in Threads : Carries(t) /\ ~ForEpoch(t) /\ ~Owns(t)
    BY <1>1 DEF Carries, ForEpoch, Owns, Configured, Reporting, ApplyPlaces, Evaluating, Applying
  <1> QED BY <1>2, <1>3 DEF ScalingParts, Claims, LatestFits, AutoOwns

\* The invariants together.
CycleInv == CycleTypeInv /\ HolderInv /\ GateInv /\ ScalingInv

\* They hold of every behaviour.
LEMMA CycleInvHolds == Spec => []CycleInv
  <1>1. Init => CycleInv
    BY CycleInitTyped, GateInit, ScalingInit DEF CycleInv
  <1>2. CycleInv /\ [Next]_vars => CycleInv'
    <2> SUFFICES ASSUME CycleInv, [Next]_vars PROVE CycleInv'
      OBVIOUS
    <2>1. CycleTypeInv' /\ HolderInv' /\ GateInv'
      BY CycleStepTypes, HolderStep, GateStep DEF CycleInv
    <2>2. ScalingInv'
      BY UnattendedWas, ScalingStep DEF CycleInv, ScalingInv
    <2> QED BY <2>1, <2>2 DEF CycleInv
  <1> QED BY <1>1, <1>2, PTL DEF Spec

\* Without operators that apply or promote, one StartEpoch at a time, one
\* holder of the lease and exact reads: a recommendation for the
\* configuration in the store was computed from its shard count.  The version
\* is read when the epoch is over, the count when it was started, and no
\* configuration is written in between, by a call that was given up neither.
THEOREM RecommendationsFit == Spec => []RecommendationFitsConfig
  <1>1. CycleInv => RecommendationFitsConfig
    BY DEF CycleInv, ScalingInv, ScalingParts, LatestFits, RecommendationFitsConfig
  <1> QED BY <1>1, CycleInvHolds, PTL

\* Under the same conditions the shard count does not change while an epoch
\* is open: a handler that read that no epoch was open holds the cycle, which
\* keeps StartEpoch out until the configuration is written.  A misread of the
\* cycle, the error that epochCycleState takes for Idle included, lets
\* StartEpoch in, and is ruled out by ExactReads.
THEOREM CountIsFixedInEpoch == Spec => ShardCountFixedInEpoch
  <1>1. CycleInv /\ CycleInv' /\ [Next]_vars =>
          [Unattended /\ epoch.state = "Active" /\ epoch'.state = "Active"
             => config'.count = config.count]_vars
    <2> SUFFICES ASSUME CycleInv, [Next]_vars, Unattended, epoch.state = "Active"
                 PROVE  config'.count = config.count
      BY DEF vars
    <2>1. ConfigStep
      BY ConfigMoves DEF CycleInv, ScalingInv
    <2> QED BY <2>1 DEF ConfigStep
  <1> QED BY <1>1, CycleInvHolds, PTL DEF Spec, ShardCountFixedInEpoch

\* Under the same conditions a version names one configuration: what is
\* written in place of a configuration has the next version, although the
\* store accepts any configuration of a version that is not older.
THEOREM VersionsNameConfigs == Spec => NewConfigNewVersion
  <1>1. CycleInv /\ CycleInv' /\ [Next]_vars =>
          [Unattended /\ config' # config => config'.version # config.version]_vars
    <2> SUFFICES ASSUME CycleInv, [Next]_vars, Unattended, config' # config
                 PROVE  config'.version # config.version
      BY DEF vars
    <2>1. ConfigStep
      BY ConfigMoves DEF CycleInv, ScalingInv
    <2>2. config.version \in Nat
      BY DEF CycleInv, CycleTypeInv, TypeOK, StoreTypeOK, ConfigRecord, Versions
    <2> QED BY <2>1, <2>2 DEF ConfigStep
  <1> QED BY <1>1, CycleInvHolds, PTL DEF Spec, NewConfigNewVersion
=============================================================================

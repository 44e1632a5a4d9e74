-------------------------- MODULE CoordinatorLease -------------------------
(***************************************************************************)
(* The coordinators' lease (coordinator/coordinator_lease.go, the roles of *)
(* coordinator_actor.go, AcquireLease and RenewLease of controlstore/).    *)
(*                                                                         *)
(* Every coordinator has a ticker thread that maintains the lease and any  *)
(* number of RPC and timer threads that require it before they write to    *)
(* the control store.  A thread reads the coordinator's lease in one actor *)
(* call, calls the store, and commits the answer in another actor call;    *)
(* all threads interleave between these steps.  pc[c][t] is its place:     *)
(*   idle                                                                  *)
(*   maintain   the ticker saw the role active and will read the lease     *)
(*   renew      RenewLease is to be called with token tok[c][t]            *)
(*   renewed, refused    answered; the commit is pending                   *)
(*   acquire    AcquireLease is to be called (ticker and constructor)      *)
(*   acquired   granted tok[c][t]; the commit is pending                   *)
(*   write      requireCoordinatorLease returned; a store write follows    *)
(*                                                                         *)
(* Time is the flag lease.live: now is before ExpiresAt.  The callers pass *)
(* their own clocks; a store call judged by a clock that is ahead or       *)
(* behind is one made a little later or earlier.                           *)
(***************************************************************************)
EXTENDS Naturals

CONSTANTS
  Coordinators, \* lease holder ids
  Rpcs,         \* threads that require the lease
  Ticker,       \* the thread that maintains it
  MaxToken,     \* bound: grants
  MaxStops,     \* bound: coordinator processes that end
  Nobody        \* no holder

ASSUME MaxTokenAssumption == MaxToken \in Nat \ {0}
ASSUME MaxStopsAssumption == MaxStops \in Nat
ASSUME TickerAssumption == Ticker \notin Rpcs
ASSUME NobodyAssumption == Nobody \notin Coordinators

Threads == Rpcs \cup {Ticker}
Tokens == 0 .. MaxToken

VARIABLES
  lease,        \* the store's lease item
  role,         \* coordinator -> role; "down" and "starting" without a process
  held,         \* coordinator -> fencing token of c.lease, 0 for none
  pc,           \* coordinator -> thread -> place
  tok,          \* coordinator -> thread -> token it carries
  stops,        \* number of processes that ended
  lastWrite,    \* history: tokens of the writer and of the store at the last write
  owner         \* history: token -> coordinator it was granted to

vars == <<lease, role, held, pc, tok, stops, lastWrite, owner>>

Places == {"idle", "maintain", "renew", "renewed", "refused", "acquire", "acquired", "write"}

Roles == {"down", "starting", "active", "passive", "stale"}

TypeOK ==
  /\ lease \in [holder : Coordinators \cup {Nobody}, token : Tokens, live : BOOLEAN]
  /\ role \in [Coordinators -> Roles]
  /\ held \in [Coordinators -> Tokens]
  /\ pc \in [Coordinators -> [Threads -> Places]]
  /\ tok \in [Coordinators -> [Threads -> Tokens]]
  /\ stops \in 0 .. MaxStops
  /\ lastWrite \in [writer : Tokens, store : Tokens]
  /\ owner \in [1 .. MaxToken -> Coordinators \cup {Nobody}]

Init ==
  /\ lease = [holder |-> Nobody, token |-> 0, live |-> FALSE]
  /\ role = [c \in Coordinators |-> "down"]
  /\ held = [c \in Coordinators |-> 0]
  /\ pc = [c \in Coordinators |-> [t \in Threads |-> "idle"]]
  /\ tok = [c \in Coordinators |-> [t \in Threads |-> 0]]
  /\ stops = 0
  /\ lastWrite = [writer |-> 0, store |-> 0]
  /\ owner = [n \in 1 .. MaxToken |-> Nobody]

Up(c) == role[c] \in {"active", "passive", "stale"}

Goto(c, t, place) == pc' = [pc EXCEPT ![c][t] = place]

SetRole(c, r) == role' = [role EXCEPT ![c] = r]

-----------------------------------------------------------------------------
(***************************************************************************)
(* The store                                                               *)
(***************************************************************************)

\* Variant: a take-over keeps the token of the expired lease.
AcquireExpired_SameToken(c) ==
  /\ ~lease.live
  /\ lease.token < MaxToken
  /\ lease' = [holder |-> c, token |-> IF lease.token = 0 THEN 1 ELSE lease.token, live |-> TRUE]
  /\ owner' = [owner EXCEPT ![lease'.token] = c]

\* AcquireLease finds no live lease: it grants one with a new token.
AcquireExpired(c) ==
  /\ ~lease.live
  /\ lease.token < MaxToken
  /\ lease' = [holder |-> c, token |-> lease.token + 1, live |-> TRUE]
  /\ owner' = [owner EXCEPT ![lease.token + 1] = c]

\* AcquireLease finds the caller's own live lease: it extends it.
AcquireOwn(c) ==
  /\ lease.live
  /\ lease.holder = c
  /\ UNCHANGED <<lease, owner>>

\* RenewLease(c, token) succeeds.
RenewLease(c, token) ==
  /\ lease.live
  /\ lease.holder = c
  /\ lease.token = token
  /\ UNCHANGED lease

\* The TTL passes without a renewal.
LeaseExpires ==
  /\ lease.live
  /\ lease.token < MaxToken
  /\ lease' = [lease EXCEPT !.live = FALSE]
  /\ UNCHANGED <<role, held, pc, tok, stops, lastWrite, owner>>

-----------------------------------------------------------------------------
(***************************************************************************)
(* The coordinators                                                        *)
(***************************************************************************)

\* A process starts; its constructor calls AcquireLease.
StartCoordinator(c) ==
  /\ role[c] = "down"
  /\ SetRole(c, "starting")
  /\ Goto(c, Ticker, "acquire")
  /\ UNCHANGED <<lease, held, tok, stops, lastWrite, owner>>

\* Variant: a coordinator that lost its lease waits for an operator.
Maintain_StaleGivesUp(c) ==
  /\ Up(c)
  /\ pc[c][Ticker] = "idle"
  /\ \/ role[c] = "active" /\ Goto(c, Ticker, "maintain")
     \/ role[c] = "passive" /\ Goto(c, Ticker, "acquire")
  /\ UNCHANGED <<lease, role, held, tok, stops, lastWrite, owner>>

\* maintainCoordinatorLease: an active coordinator renews, others acquire.
Maintain(c) ==
  /\ Up(c)
  /\ pc[c][Ticker] = "idle"
  /\ \/ role[c] = "active" /\ Goto(c, Ticker, "maintain")
     \/ role[c] # "active" /\ Goto(c, Ticker, "acquire")
  /\ UNCHANGED <<lease, role, held, tok, stops, lastWrite, owner>>

\* requireCoordinatorLease is called by an RPC handler or the epoch timer.
Require(c, t) ==
  /\ Up(c)
  /\ t \in Rpcs
  /\ pc[c][t] = "idle"
  /\ Goto(c, t, "maintain")
  /\ UNCHANGED <<lease, role, held, tok, stops, lastWrite, owner>>

\* leaseRenewalDecision reads the token.
RenewalDecision(c, t) ==
  /\ pc[c][t] = "maintain"
  /\ Goto(c, t, "renew")
  /\ tok' = [tok EXCEPT ![c][t] = held[c]]
  /\ UNCHANGED <<lease, role, held, stops, lastWrite, owner>>

Renew(c, t) ==
  /\ pc[c][t] = "renew"
  /\ RenewLease(c, tok[c][t])
  /\ Goto(c, t, "renewed")
  /\ UNCHANGED <<role, held, tok, stops, lastWrite, owner>>

\* The lease expired, the token is old, or the call failed.
RenewRefused(c, t) ==
  /\ pc[c][t] = "renew"
  /\ Goto(c, t, "refused")
  /\ UNCHANGED <<lease, role, held, tok, stops, lastWrite, owner>>

\* A renewal is over: the ticker rests, an RPC goes on to its store write.
AfterRenewal(t) == IF t = Ticker THEN "idle" ELSE "write"

\* Variant: the answer is stored whatever the coordinator holds by now.
CommitRenewedLease_Unchecked(c, t) ==
  /\ pc[c][t] = "renewed"
  /\ held' = [held EXCEPT ![c] = tok[c][t]]
  /\ SetRole(c, "active")
  /\ Goto(c, t, AfterRenewal(t))
  /\ UNCHANGED <<lease, tok, stops, lastWrite, owner>>

\* commitRenewedLease is ignored if the lease was replaced in the meantime;
\* renewCoordinatorLease reports success all the same.
CommitRenewedLease(c, t) ==
  /\ pc[c][t] = "renewed"
  /\ IF held[c] = tok[c][t] THEN SetRole(c, "active") ELSE UNCHANGED role
  /\ Goto(c, t, AfterRenewal(t))
  /\ UNCHANGED <<lease, held, tok, stops, lastWrite, owner>>

CommitStaleRole(c, t) ==
  /\ pc[c][t] = "refused"
  /\ IF role[c] = "active" THEN SetRole(c, "stale") ELSE UNCHANGED role
  /\ Goto(c, t, "idle")
  /\ UNCHANGED <<lease, held, tok, stops, lastWrite, owner>>

Acquire(c) ==
  /\ pc[c][Ticker] = "acquire"
  /\ AcquireExpired(c) \/ AcquireOwn(c)
  /\ Goto(c, Ticker, "acquired")
  /\ tok' = [tok EXCEPT ![c][Ticker] = lease'.token]
  /\ UNCHANGED <<role, held, stops, lastWrite>>

\* AcquireLease answers errLeaseHeld or fails, perhaps after it granted the
\* lease.  The role stays: active has no transition to passive.
AcquireRefused(c) ==
  /\ Up(c)
  /\ pc[c][Ticker] = "acquire"
  /\ AcquireExpired(c) \/ UNCHANGED <<lease, owner>>
  /\ Goto(c, Ticker, "idle")
  /\ UNCHANGED <<role, held, tok, stops, lastWrite>>

\* The constructor is told, perhaps by an eventually consistent read, that
\* the lease is held: the process becomes a standby.
StartPassive(c) ==
  /\ role[c] = "starting"
  /\ pc[c][Ticker] = "acquire"
  /\ lease.token > 0
  /\ SetRole(c, "passive")
  /\ Goto(c, Ticker, "idle")
  /\ UNCHANGED <<lease, held, tok, stops, lastWrite, owner>>

CommitAcquiredLease(c) ==
  /\ pc[c][Ticker] = "acquired"
  /\ held' = [held EXCEPT ![c] = tok[c][Ticker]]
  /\ SetRole(c, "active")
  /\ Goto(c, Ticker, "idle")
  /\ UNCHANGED <<lease, tok, stops, lastWrite, owner>>

\* StartEpoch, CompleteEpoch or PutShardConfig of the control store, after
\* requireCoordinatorLease.  None of them takes the fencing token.
Write(c, t) ==
  /\ pc[c][t] = "write"
  /\ lastWrite' = [writer |-> tok[c][t], store |-> lease.token]
  /\ Goto(c, t, "idle")
  /\ UNCHANGED <<lease, role, held, tok, stops, owner>>

\* The process ends: Close, a crash, or a constructor that gives up.  The
\* lease is not released.
Stop(c) ==
  /\ Up(c) \/ role[c] = "starting"
  /\ stops < MaxStops
  /\ lease.token < MaxToken
  /\ stops' = stops + 1
  /\ SetRole(c, "down")
  /\ held' = [held EXCEPT ![c] = 0]
  /\ pc' = [pc EXCEPT ![c] = [t \in Threads |-> "idle"]]
  /\ tok' = [tok EXCEPT ![c] = [t \in Threads |-> 0]]
  /\ UNCHANGED <<lease, lastWrite, owner>>

Thread(c, t) ==
  \/ RenewalDecision(c, t) \/ Renew(c, t) \/ RenewRefused(c, t)
  \/ CommitRenewedLease(c, t) \/ CommitStaleRole(c, t)

TickerStep(c) ==
  \/ Maintain(c) \/ Thread(c, Ticker)
  \/ Acquire(c) \/ AcquireRefused(c) \/ StartPassive(c) \/ CommitAcquiredLease(c)

Next ==
  \/ LeaseExpires
  \/ \E c \in Coordinators :
       \/ StartCoordinator(c) \/ Stop(c)
       \/ TickerStep(c)
       \/ \E t \in Rpcs : Require(c, t) \/ Thread(c, t) \/ Write(c, t)

Spec == Init /\ [][Next]_vars

(***************************************************************************)
(* Fairness.  The ticker of a running process keeps ticking and its store  *)
(* calls return; the store does not fail a call for ever; a lease that     *)
(* nobody renews runs out.  RPCs, starts and stops are owed nothing.       *)
(***************************************************************************)
FairSpec ==
  /\ Spec
  /\ \A c \in Coordinators : WF_vars(TickerStep(c)) /\ SF_vars(Acquire(c))
  /\ WF_vars(LeaseExpires /\ \A c \in Coordinators : lease.holder = c => ~Up(c))

-----------------------------------------------------------------------------
(***************************************************************************)
(* Properties                                                              *)
(***************************************************************************)

\* Every token a coordinator holds or is about to commit was granted to it
\* and to no other coordinator, also after take-overs, restarts under the
\* same id and lost answers; and an acquisition is never committed after a
\* later one (the ticker is the only thread that acquires).
LeaseInv ==
  /\ TypeOK
  /\ lease.live => lease.token > 0
  /\ lease.token > 0 => owner[lease.token] = lease.holder
  /\ \A c \in Coordinators :
       /\ held[c] <= lease.token
       /\ held[c] > 0 => owner[held[c]] = c
       /\ pc[c][Ticker] = "acquired" =>
            /\ tok[c][Ticker] \in 1 .. lease.token
            /\ owner[tok[c][Ticker]] = c
            /\ held[c] <= tok[c][Ticker]

FL == INSTANCE FencedLease WITH last <- lease.token, known <- held

\* The coordinators' tokens behave like FencedLease: no two coordinators
\* ever work with the same token, and none goes back to an earlier one, in
\* whatever order the ticker's and the RPC handlers' answers are committed.
ImplementsFencedLease == FL!Spec

\* The coordinator works with the lease that is in the store.
Current(c) == role[c] = "active" /\ lease.holder = c /\ held[c] = lease.token

\* While a coordinator runs, one becomes active with the current lease: the
\* standby takes over from a process that ended, and a stale coordinator
\* recovers (maintainCoordinatorLease).
LeaseIsRecovered ==
  (\E c \in Coordinators : Up(c))
    ~> (\E c \in Coordinators : Current(c)) \/ (\A c \in Coordinators : ~Up(c))

\* Control state is mutated only under the token of the lease in the store.
MutationsAreFenced == lastWrite.writer = lastWrite.store
=============================================================================

---------------------------- MODULE LeaseProofs ----------------------------
(***************************************************************************)
(* Theorems about CoordinatorLease: its inductive invariant, and that it   *)
(* implements FencedLease, for any number of coordinators, threads, grants *)
(* and restarts.                                                           *)
(***************************************************************************)
EXTENDS CoordinatorLease, TLAPS

\* The initial state satisfies the invariant.
LEMMA LeaseInit == Init => LeaseInv
BY MaxTokenAssumption, MaxStopsAssumption
   DEF Init, LeaseInv, TypeOK, Tokens, Places, Roles, Threads

\* A step of a thread that leaves the lease, the held tokens and the pending
\* acquisitions alone keeps the invariant.
LEMMA QuietStep ==
  ASSUME LeaseInv, TypeOK',
         UNCHANGED <<held, owner>>,
         lease'.token = lease.token, lease'.holder = lease.holder,
         lease'.live => lease.live,
         \A c \in Coordinators : pc'[c][Ticker] = "acquired" =>
           pc[c][Ticker] = "acquired" /\ tok'[c][Ticker] = tok[c][Ticker]
  PROVE  LeaseInv'
BY DEF LeaseInv

\* A grant keeps the invariant as far as it does not concern threads.
LEMMA GrantStep ==
  ASSUME LeaseInv, NEW c \in Coordinators, AcquireExpired(c)
  PROVE  /\ lease' \in [holder : Coordinators \cup {Nobody}, token : Tokens, live : BOOLEAN]
         /\ owner' \in [1 .. MaxToken -> Coordinators \cup {Nobody}]
         /\ lease'.token = lease.token + 1
         /\ lease'.token \in 1 .. MaxToken
         /\ lease'.holder = c
         /\ owner'[lease'.token] = c
         /\ \A n \in 1 .. lease.token : owner'[n] = owner[n]
BY MaxTokenAssumption DEF LeaseInv, TypeOK, AcquireExpired, Tokens

\* Goto moves one thread of one coordinator.
LEMMA GotoMoves ==
  ASSUME TypeOK, NEW c \in Coordinators, NEW t \in Threads, NEW place \in Places,
         Goto(c, t, place)
  PROVE  /\ pc' \in [Coordinators -> [Threads -> Places]]
         /\ \A d \in Coordinators, u \in Threads :
              pc'[d][u] = IF d = c /\ u = t THEN place ELSE pc[d][u]
<1>1. pc \in [Coordinators -> [Threads -> Places]]
  BY DEF TypeOK
<1>2. pc' = [pc EXCEPT ![c] = [pc[c] EXCEPT ![t] = place]]
  BY DEF Goto
<1>3. [pc[c] EXCEPT ![t] = place] \in [Threads -> Places]
  BY <1>1
<1>4. QED
  BY <1>1, <1>2, <1>3

\* A thread's token is replaced.
LEMMA TokenTaken ==
  ASSUME TypeOK, NEW c \in Coordinators, NEW t \in Threads, NEW n \in Tokens,
         tok' = [tok EXCEPT ![c][t] = n]
  PROVE  /\ tok' \in [Coordinators -> [Threads -> Tokens]]
         /\ \A d \in Coordinators, u \in Threads :
              tok'[d][u] = IF d = c /\ u = t THEN n ELSE tok[d][u]
<1>1. tok \in [Coordinators -> [Threads -> Tokens]]
  BY DEF TypeOK
<1>2. tok' = [tok EXCEPT ![c] = [tok[c] EXCEPT ![t] = n]]
  OBVIOUS
<1>3. [tok[c] EXCEPT ![t] = n] \in [Threads -> Tokens]
  BY <1>1
<1>4. QED
  BY <1>1, <1>2, <1>3

\* SetRole stores a role.
LEMMA RoleSet ==
  ASSUME TypeOK, NEW c \in Coordinators, NEW r \in Roles, SetRole(c, r)
  PROVE  role' \in [Coordinators -> Roles]
BY DEF TypeOK, SetRole

\* A step that moves one thread to a place without a pending acquisition, and
\* at most changes a role, keeps the invariant.
LEMMA MoveOnly ==
  ASSUME LeaseInv, NEW c \in Coordinators, NEW t \in Threads,
         NEW place \in Places \ {"acquired"}, Goto(c, t, place),
         role' \in [Coordinators -> Roles],
         UNCHANGED <<lease, held, tok, stops, lastWrite, owner>>
  PROVE  LeaseInv'
<1>0. TypeOK
  BY DEF LeaseInv
<1>1. pc' \in [Coordinators -> [Threads -> Places]]
      /\ \A d \in Coordinators, u \in Threads :
           pc'[d][u] = IF d = c /\ u = t THEN place ELSE pc[d][u]
  BY <1>0, GotoMoves
<1>2. TypeOK'
  BY <1>0, <1>1 DEF TypeOK
<1>3. \A d \in Coordinators : pc'[d][Ticker] = "acquired" => pc[d][Ticker] = "acquired"
  BY <1>1 DEF Threads
<1>4. QED
  BY <1>2, <1>3, QuietStep

\* Every step keeps the invariant.
LEMMA LeaseStep == LeaseInv /\ [Next]_vars => LeaseInv'
<1> SUFFICES ASSUME LeaseInv, [Next]_vars PROVE LeaseInv'
  OBVIOUS
<1> DEFINE Pending == \A d \in Coordinators : pc'[d][Ticker] = "acquired" =>
                        pc[d][Ticker] = "acquired" /\ tok'[d][Ticker] = tok[d][Ticker]
<1>0. TypeOK
  BY DEF LeaseInv
<1>a. Ticker \in Threads /\ Rpcs \subseteq Threads
  BY DEF Threads
<1>b. \A c \in Coordinators, t \in Threads, place \in Places :
        Goto(c, t, place) =>
          /\ pc' \in [Coordinators -> [Threads -> Places]]
          /\ \A d \in Coordinators, u \in Threads :
               pc'[d][u] = IF d = c /\ u = t THEN place ELSE pc[d][u]
  BY <1>0, GotoMoves
<1>1. CASE UNCHANGED vars
  <2>1. TypeOK' /\ Pending
    BY <1>0, <1>1 DEF TypeOK, vars
  <2>2. QED
    BY <1>1, <2>1, QuietStep DEF vars
<1>2. CASE LeaseExpires
  <2>1. TypeOK' /\ Pending
    BY <1>0, <1>2 DEF TypeOK, LeaseExpires
  <2>2. lease'.token = lease.token /\ lease'.holder = lease.holder /\ ~lease'.live
    BY <1>0, <1>2 DEF TypeOK, LeaseExpires
  <2>3. QED
    BY <1>2, <2>1, <2>2, QuietStep DEF LeaseExpires
<1>3. ASSUME NEW c \in Coordinators, StartCoordinator(c) PROVE LeaseInv'
  <2>1. role' \in [Coordinators -> Roles]
    BY <1>0, <1>3, RoleSet DEF StartCoordinator, Roles
  <2>2. Goto(c, Ticker, "acquire") /\ "acquire" \in Places
    BY <1>3 DEF StartCoordinator, Places
  <2>3. UNCHANGED <<lease, held, tok, stops, lastWrite, owner>>
    BY <1>3 DEF StartCoordinator
  <2>4. QED
    BY <1>a, <2>1, <2>2, <2>3, MoveOnly
<1>4. ASSUME NEW c \in Coordinators, Stop(c) PROVE LeaseInv'
  <2>1. role' \in [Coordinators -> Roles]
    BY <1>0, <1>4, RoleSet DEF Stop, Roles
  <2>2. [t \in Threads |-> "idle"] \in [Threads -> Places] /\ [t \in Threads |-> 0] \in [Threads -> Tokens]
    BY MaxTokenAssumption DEF Places, Tokens
  <2>3. held' \in [Coordinators -> Tokens] /\ stops' \in 0 .. MaxStops
    BY <1>0, <1>4, MaxTokenAssumption, MaxStopsAssumption DEF TypeOK, Stop, Tokens
  <2>4. pc' \in [Coordinators -> [Threads -> Places]] /\ tok' \in [Coordinators -> [Threads -> Tokens]]
    BY <1>0, <1>4, <2>2 DEF TypeOK, Stop
  <2>5. UNCHANGED <<lease, lastWrite, owner>>
    BY <1>4 DEF Stop
  <2>6. TypeOK'
    BY <1>0, <2>1, <2>3, <2>4, <2>5 DEF TypeOK
  <2>7. \A d \in Coordinators : d # c => held'[d] = held[d] /\ pc'[d] = pc[d] /\ tok'[d] = tok[d]
    BY <1>0, <1>4 DEF TypeOK, Stop
  <2>8. held'[c] = 0 /\ pc'[c][Ticker] = "idle"
    BY <1>0, <1>4, <1>a DEF TypeOK, Stop
  <2>9. lease.token \in Nat
    BY <1>0, MaxTokenAssumption DEF TypeOK, Tokens
  <2>10. QED
    BY <2>5, <2>6, <2>7, <2>8, <2>9 DEF LeaseInv
<1>5. ASSUME NEW c \in Coordinators, Maintain(c) PROVE LeaseInv'
  <2>1. UNCHANGED <<lease, role, held, tok, stops, lastWrite, owner>>
    BY <1>5 DEF Maintain
  <2>2. PICK place \in {"maintain", "acquire"} : Goto(c, Ticker, place)
    BY <1>5 DEF Maintain
  <2>3. QED
    BY <1>0, <1>a, <2>1, <2>2, MoveOnly DEF Places, TypeOK
<1>6. ASSUME NEW c \in Coordinators, NEW t \in Threads, Thread(c, t) PROVE LeaseInv'
  <2>1. CASE RenewalDecision(c, t)
    <3>1. Goto(c, t, "renew") /\ "renew" \in Places /\ pc[c][t] = "maintain"
      BY <2>1 DEF RenewalDecision, Places
    <3>2. UNCHANGED <<lease, role, held, stops, lastWrite, owner>>
      BY <2>1 DEF RenewalDecision
    <3>3. held[c] \in Tokens /\ tok' = [tok EXCEPT ![c][t] = held[c]]
      BY <1>0, <2>1 DEF RenewalDecision, TypeOK
    <3>4. TypeOK'
      BY <1>0, <1>b, <3>1, <3>2, <3>3, TokenTaken DEF TypeOK
    <3>5. Pending
      BY <1>0, <1>a, <1>b, <3>1, <3>3, TokenTaken
    <3>6. QED
      BY <3>2, <3>4, <3>5, QuietStep
  <2>2. CASE Renew(c, t) \/ RenewRefused(c, t)
    <3>1. UNCHANGED <<lease, role, held, tok, stops, lastWrite, owner>>
      BY <2>2 DEF Renew, RenewLease, RenewRefused
    <3>2. PICK place \in {"renewed", "refused"} : Goto(c, t, place)
      BY <2>2 DEF Renew, RenewRefused
    <3>3. QED
      BY <1>0, <3>1, <3>2, MoveOnly DEF Places, TypeOK
  <2>3. CASE CommitRenewedLease(c, t) \/ CommitStaleRole(c, t)
    <3>1. UNCHANGED <<lease, held, tok, stops, lastWrite, owner>>
      BY <2>3 DEF CommitRenewedLease, CommitStaleRole
    <3>2. role' \in [Coordinators -> Roles]
      BY <1>0, <2>3, RoleSet DEF CommitRenewedLease, CommitStaleRole, Roles, TypeOK
    <3>3. PICK place \in {"idle", "write"} : Goto(c, t, place)
      BY <2>3 DEF CommitRenewedLease, CommitStaleRole, AfterRenewal
    <3>4. QED
      BY <3>1, <3>2, <3>3, MoveOnly DEF Places
  <2>4. QED
    BY <1>6, <2>1, <2>2, <2>3 DEF Thread
<1>7. ASSUME NEW c \in Coordinators, Acquire(c) PROVE LeaseInv'
  <2>1. Goto(c, Ticker, "acquired") /\ "acquired" \in Places
    BY <1>7 DEF Acquire, Places
  <2>2. UNCHANGED <<role, held, stops, lastWrite>> /\ tok' = [tok EXCEPT ![c][Ticker] = lease'.token]
    BY <1>7 DEF Acquire
  <2>3. lease' \in [holder : Coordinators \cup {Nobody}, token : Tokens, live : BOOLEAN]
        /\ owner' \in [1 .. MaxToken -> Coordinators \cup {Nobody}]
    <3>1. CASE AcquireExpired(c)
      BY <3>1, GrantStep
    <3>2. CASE AcquireOwn(c)
      BY <1>0, <3>2 DEF AcquireOwn, TypeOK
    <3>3. QED
      BY <1>7, <3>1, <3>2 DEF Acquire
  <2>4. lease'.token \in Tokens
    BY <2>3
  <2>5. TypeOK'
    BY <1>0, <1>a, <1>b, <2>1, <2>2, <2>3, <2>4, TokenTaken DEF TypeOK
  <2>6. \A d \in Coordinators : d # c => pc'[d][Ticker] = pc[d][Ticker] /\ tok'[d][Ticker] = tok[d][Ticker]
    BY <1>0, <1>a, <1>b, <2>1, <2>2, <2>4, TokenTaken
  <2>7. tok'[c][Ticker] = lease'.token
    BY <1>0, <1>a, <2>2, <2>4, TokenTaken
  <2>8. lease.token \in Nat /\ \A d \in Coordinators : held[d] \in Nat
    BY <1>0, MaxTokenAssumption DEF TypeOK, Tokens
  <2>9. CASE AcquireExpired(c)
    <3>1. lease'.token = lease.token + 1 /\ lease'.holder = c /\ owner'[lease'.token] = c
          /\ \A n \in 1 .. lease.token : owner'[n] = owner[n]
      BY <2>9, GrantStep
    <3>2. \A d \in Coordinators : held'[d] <= lease'.token /\ (held'[d] > 0 => owner'[held'[d]] = d)
      BY <2>2, <2>8, <3>1 DEF LeaseInv
    <3>3. \A d \in Coordinators : d # c /\ pc'[d][Ticker] = "acquired" =>
            /\ tok'[d][Ticker] \in 1 .. lease'.token
            /\ owner'[tok'[d][Ticker]] = d
            /\ held'[d] <= tok'[d][Ticker]
      BY <2>2, <2>6, <2>8, <3>1 DEF LeaseInv
    <3>4. tok'[c][Ticker] \in 1 .. lease'.token /\ owner'[tok'[c][Ticker]] = c /\ held'[c] <= tok'[c][Ticker]
      BY <2>7, <2>8, <3>1, <3>2
    <3>5. QED
      BY <2>5, <2>8, <3>1, <3>2, <3>3, <3>4 DEF LeaseInv
  <2>10. CASE AcquireOwn(c)
    <3>1. UNCHANGED <<lease, owner>> /\ lease.live /\ lease.holder = c
      BY <2>10 DEF AcquireOwn
    <3>2. QED
      BY <2>2, <2>5, <2>6, <2>7, <2>8, <3>1 DEF LeaseInv
  <2>11. QED
    BY <1>7, <2>9, <2>10 DEF Acquire
<1>8. ASSUME NEW c \in Coordinators, AcquireRefused(c) PROVE LeaseInv'
  <2>1. UNCHANGED <<role, held, tok, stops, lastWrite>>
    BY <1>8 DEF AcquireRefused
  <2>2. Goto(c, Ticker, "idle") /\ "idle" \in Places
    BY <1>8 DEF AcquireRefused, Places
  <2>3. CASE AcquireExpired(c)
    <3>1. TypeOK'
      BY <1>0, <1>a, <1>b, <2>1, <2>2, <2>3, GrantStep DEF TypeOK
    <3>2. Pending
      BY <1>a, <1>b, <2>1, <2>2
    <3>3. lease.token \in Nat /\ \A d \in Coordinators : held[d] \in Nat
      BY <1>0, MaxTokenAssumption DEF TypeOK, Tokens
    <3>4. lease'.token = lease.token + 1 /\ lease'.holder = c /\ owner'[lease'.token] = c
          /\ \A n \in 1 .. lease.token : owner'[n] = owner[n]
      BY <2>3, GrantStep
    <3>5. \A d \in Coordinators : held'[d] <= lease'.token /\ (held'[d] > 0 => owner'[held'[d]] = d)
      BY <2>1, <3>3, <3>4 DEF LeaseInv
    <3>6. \A d \in Coordinators : pc'[d][Ticker] = "acquired" =>
            /\ tok'[d][Ticker] \in 1 .. lease'.token
            /\ owner'[tok'[d][Ticker]] = d
            /\ held'[d] <= tok'[d][Ticker]
      BY <2>1, <3>2, <3>3, <3>4 DEF LeaseInv
    <3>7. QED
      BY <3>1, <3>3, <3>4, <3>5, <3>6 DEF LeaseInv
  <2>4. CASE UNCHANGED <<lease, owner>>
    BY <1>a, <2>1, <2>2, <2>4, MoveOnly, <1>0 DEF TypeOK
  <2>5. QED
    BY <1>8, <2>3, <2>4 DEF AcquireRefused
<1>9. ASSUME NEW c \in Coordinators, StartPassive(c) PROVE LeaseInv'
  <2>1. role' \in [Coordinators -> Roles]
    BY <1>0, <1>9, RoleSet DEF StartPassive, Roles
  <2>2. Goto(c, Ticker, "idle") /\ "idle" \in Places
    BY <1>9 DEF StartPassive, Places
  <2>3. UNCHANGED <<lease, held, tok, stops, lastWrite, owner>>
    BY <1>9 DEF StartPassive
  <2>4. QED
    BY <1>a, <2>1, <2>2, <2>3, MoveOnly
<1>10. ASSUME NEW c \in Coordinators, CommitAcquiredLease(c) PROVE LeaseInv'
  <2>1. Goto(c, Ticker, "idle") /\ "idle" \in Places
    BY <1>10 DEF CommitAcquiredLease, Places
  <2>2. UNCHANGED <<lease, tok, stops, lastWrite, owner>> /\ pc[c][Ticker] = "acquired"
    BY <1>10 DEF CommitAcquiredLease
  <2>3. role' \in [Coordinators -> Roles]
    BY <1>0, <1>10, RoleSet DEF CommitAcquiredLease, Roles
  <2>4. held' \in [Coordinators -> Tokens] /\ held'[c] = tok[c][Ticker]
        /\ \A d \in Coordinators : d # c => held'[d] = held[d]
    BY <1>0, <1>10, <1>a DEF TypeOK, CommitAcquiredLease
  <2>5. TypeOK'
    BY <1>0, <1>a, <1>b, <2>1, <2>2, <2>3, <2>4 DEF TypeOK
  <2>6. \A d \in Coordinators : pc'[d][Ticker] = IF d = c THEN "idle" ELSE pc[d][Ticker]
    BY <1>a, <1>b, <2>1
  <2>7. lease.token \in Nat
    BY <1>0, MaxTokenAssumption DEF TypeOK, Tokens
  <2>8. QED
    BY <2>2, <2>4, <2>5, <2>6, <2>7 DEF LeaseInv
<1>11. ASSUME NEW c \in Coordinators, NEW t \in Rpcs, Require(c, t) \/ Write(c, t) PROVE LeaseInv'
  <2>1. UNCHANGED <<lease, role, held, tok, stops, owner>>
    BY <1>11 DEF Require, Write
  <2>2. PICK place \in {"idle", "maintain"} : Goto(c, t, place)
    BY <1>11 DEF Require, Write
  <2>3. lastWrite' \in [writer : Tokens, store : Tokens]
    BY <1>0, <1>11, <1>a DEF TypeOK, Require, Write
  <2>4. TypeOK'
    BY <1>0, <1>a, <1>b, <2>1, <2>2, <2>3 DEF TypeOK, Places
  <2>5. Pending
    BY <1>a, <1>b, <2>1, <2>2 DEF Places
  <2>6. QED
    BY <2>1, <2>4, <2>5, QuietStep
<1>12. QED
  BY <1>1, <1>2, <1>3, <1>4, <1>5, <1>6, <1>7, <1>8, <1>9, <1>10, <1>11, <1>a
     DEF Next, TickerStep

\* Every token is owned by one coordinator, and acquisitions are committed in
\* the order of their grants (AcquireLease, commitAcquiredLease).
THEOREM LeaseInvariant == Spec => []LeaseInv
BY LeaseInit, LeaseStep, PTL DEF Spec

\* Every step of the coordinators and the store is a step of FencedLease.
LEMMA RefinementStep ==
  LeaseInv /\ [Next]_vars => [FL!Next]_<<owner, lease.token, held>>
<1> SUFFICES ASSUME LeaseInv, [Next]_vars
             PROVE  FL!Next \/ UNCHANGED <<owner, lease.token, held>>
  OBVIOUS
<1>0. TypeOK
  BY DEF LeaseInv
<1>1. CASE UNCHANGED vars
  BY <1>1 DEF vars
<1>2. CASE LeaseExpires
  BY <1>0, <1>2 DEF LeaseExpires, TypeOK
<1>3. ASSUME NEW c \in Coordinators, AcquireExpired(c), UNCHANGED held PROVE FL!Next
  <2>1. FL!Grant(c)
    BY <1>3 DEF AcquireExpired, FL!Grant
  <2>2. QED
    BY <2>1 DEF FL!Next
<1>4. ASSUME NEW c \in Coordinators, CommitAcquiredLease(c) PROVE FL!Next
  <2>1. FL!Learn(c)
    BY <1>4 DEF CommitAcquiredLease, LeaseInv, FL!Learn
  <2>2. QED
    BY <2>1 DEF FL!Next
<1>5. ASSUME NEW c \in Coordinators, Stop(c) PROVE FL!Next
  <2>1. FL!Forget(c)
    BY <1>5 DEF Stop, FL!Forget
  <2>2. QED
    BY <2>1 DEF FL!Next
<1>6. ASSUME NEW c \in Coordinators, Acquire(c) \/ AcquireRefused(c)
      PROVE  FL!Next \/ UNCHANGED <<owner, lease.token, held>>
  BY <1>3, <1>6 DEF Acquire, AcquireRefused, AcquireOwn
<1>7. ASSUME NEW c \in Coordinators,
             StartCoordinator(c) \/ Maintain(c) \/ StartPassive(c)
      PROVE  UNCHANGED <<owner, lease.token, held>>
  BY <1>7 DEF StartCoordinator, Maintain, StartPassive
<1>8. ASSUME NEW c \in Coordinators, NEW t \in Threads,
             Thread(c, t) \/ Require(c, t) \/ Write(c, t)
      PROVE  UNCHANGED <<owner, lease.token, held>>
  BY <1>8 DEF Thread, RenewalDecision, Renew, RenewLease, RenewRefused,
              CommitRenewedLease, CommitStaleRole, Require, Write
<1>9. QED
  BY <1>1, <1>2, <1>4, <1>5, <1>6, <1>7, <1>8 DEF Next, TickerStep, Threads

\* The lease of the coordinators implements the abstract fenced lease: tokens
\* are never shared and never go back.
THEOREM LeaseIsFenced == Spec => ImplementsFencedLease
<1>1. Init => FL!Init
  BY DEF Init, FL!Init
<1>2. QED
  BY <1>1, LeaseInvariant, RefinementStep, PTL DEF Spec, ImplementsFencedLease, FL!Spec
=============================================================================

---------------------------- MODULE FencedLease ----------------------------
(***************************************************************************)
(* What the coordinators' lease promises, without the store, the clock and *)
(* the threads: every grant has a new, larger fencing token and one owner, *)
(* and a coordinator works with tokens that were granted to it, in the     *)
(* order of their grants.                                                  *)
(***************************************************************************)
EXTENDS Naturals

CONSTANTS
  Coordinators,
  MaxToken,     \* bound: number of grants
  Nobody        \* the owner of a token that was not granted

VARIABLES
  owner,        \* token -> coordinator it was granted to
  last,         \* the token granted last, 0 for none
  known         \* coordinator -> token it works with, 0 for none

Init ==
  /\ owner = [n \in 1 .. MaxToken |-> Nobody]
  /\ last = 0
  /\ known = [c \in Coordinators |-> 0]

Grant(c) ==
  /\ last < MaxToken
  /\ last' = last + 1
  /\ owner' = [owner EXCEPT ![last + 1] = c]
  /\ UNCHANGED known

\* A coordinator learns of one of its grants, possibly late.
Learn(c) ==
  /\ \E n \in 1 .. last :
       /\ owner[n] = c
       /\ n >= known[c]
       /\ known' = [known EXCEPT ![c] = n]
  /\ UNCHANGED <<owner, last>>

\* The coordinator process ends.
Forget(c) ==
  /\ known' = [known EXCEPT ![c] = 0]
  /\ UNCHANGED <<owner, last>>

Next == \E c \in Coordinators : Grant(c) \/ Learn(c) \/ Forget(c)

Spec == Init /\ [][Next]_<<owner, last, known>>
=============================================================================

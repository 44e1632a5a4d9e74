------------------------------ MODULE MCLease ------------------------------
(***************************************************************************)
(* Instances of CoordinatorLease for TLC.                                  *)
(***************************************************************************)
EXTENDS CoordinatorLease, TLC

\* Coordinators are interchangeable.  Sound for the runs that check
\* invariants and step properties, not for liveness.
Symmetry == Permutations(Coordinators)
=============================================================================

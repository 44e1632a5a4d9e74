------------------------------ MODULE MCShard ------------------------------
(***************************************************************************)
(* Instances of Shard for TLC.                                             *)
(***************************************************************************)
EXTENDS Shard, TLC

\* Uploads and workers are interchangeable; used by the safety runs only.
Symmetry == Permutations(Uploads) \cup Permutations(Workers)
=============================================================================

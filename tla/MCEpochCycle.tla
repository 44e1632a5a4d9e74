---------------------------- MODULE MCEpochCycle ----------------------------
(***************************************************************************)
(* Instances of EpochCycle for TLC.                                        *)
(***************************************************************************)
EXTENDS EpochCycle
=============================================================================

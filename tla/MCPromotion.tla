----------------------------- MODULE MCPromotion -----------------------------
(***************************************************************************)
(* Promotion with the constants of the MCPromotion_*.cfg files.            *)
(***************************************************************************)
EXTENDS Promotion
=============================================================================

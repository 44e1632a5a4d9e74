--------------------------- MODULE MCUploadRouting ---------------------------
(***************************************************************************)
(* UploadRouting with the constants of the MCUploadRouting_*.cfg files.    *)
(***************************************************************************)
EXTENDS UploadRouting
=============================================================================

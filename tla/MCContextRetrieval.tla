------------------------- MODULE MCContextRetrieval -------------------------
(***************************************************************************)
(* ContextRetrieval for TLC: the instances differ only in the .cfg files.   *)
(***************************************************************************)
EXTENDS ContextRetrieval
=============================================================================

------------------------- MODULE MCContextCommand -------------------------
(* Three threads, one of them without a timeout, share two command objects. *)
EXTENDS ContextCommand
=============================================================================

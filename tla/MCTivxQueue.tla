---------------------------- MODULE MCTivxQueue ----------------------------
(* Three threads over two places: two sleep while the third puts or gets     *)
(* twice, and a thread that is faster than the one that was woken.           *)
EXTENDS TivxQueue
=============================================================================

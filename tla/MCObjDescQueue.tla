--------------------------- MODULE MCObjDescQueue ---------------------------
(* A ring of three slots, two ids and two nodes: every wrap-around, the    *)
(* full and the empty queue, and the full list of blocked nodes.           *)
EXTENDS ObjDescQueue
=============================================================================

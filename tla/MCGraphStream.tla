---------------------------- MODULE MCGraphStream ----------------------------
(* A graph of pipeline depth 1 to 3 and threads that also wait for it.      *)
EXTENDS GraphStream
=============================================================================

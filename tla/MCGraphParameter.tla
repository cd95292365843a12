-------------------------- MODULE MCGraphParameter --------------------------
(* Three references, two tasks that release them and one thread that        *)
(* dequeues one or two at a time.                                           *)
EXTENDS GraphParameter
=============================================================================

-------------------------- MODULE MCGraphSchedule --------------------------
(* Two leaf nodes, so that a completion may be the last of its execution or *)
(* not; a pipeline depth of one or two and more requests than that, so that *)
(* requests stay pending while others run, complete and are scheduled.      *)
EXTENDS GraphSchedule
=============================================================================

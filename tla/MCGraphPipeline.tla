-------------------------- MODULE MCGraphPipeline --------------------------
(***************************************************************************)
(* Graphs small enough to enumerate.                                       *)
(*   Triangle: A feeds B and C, B feeds C: a buffer with two consumers, a  *)
(*     node with two predecessors.  A and B run on one target.  The second *)
(*     queue from A to B has one buffer, so A blocks on it until B is done *)
(*     and B's target triggers A again.                                    *)
(*   Join:  C reads what A and B write, each node on a target of its own.  *)
(***************************************************************************)
EXTENDS GraphPipeline

In(q) == <<q, TRUE>>
Out(q) == <<q, FALSE>>

TriangleParam == [n \in {"A", "B", "C"} |->
  CASE n = "A" -> <<In("in"), Out("mid"), Out("aux")>>
    [] n = "B" -> <<In("mid"), In("aux"), Out("right")>>
    [] n = "C" -> <<In("mid"), In("right"), Out("out")>>]
TriangleBuffers == [q \in {"in", "mid", "aux", "right", "out"} |->
  CASE q = "in" -> <<"i1", "i2">>
    [] q = "mid" -> <<"m1", "m2">>
    [] q = "aux" -> <<"x1">>
    [] q = "right" -> <<"r1", "r2">>
    [] q = "out" -> <<"o1">>]
TriangleTarget == [n \in {"A", "B", "C"} |-> IF n = "C" THEN "T2" ELSE "T1"]

JoinParam == [n \in {"A", "B", "C"} |->
  CASE n = "A" -> <<In("in"), Out("left")>>
    [] n = "B" -> <<In("in"), Out("right")>>
    [] n = "C" -> <<In("left"), In("right"), Out("out")>>]
JoinBuffers == [q \in {"in", "left", "right", "out"} |->
  CASE q = "in" -> <<"i1", "i2">>
    [] q = "left" -> <<"l1", "l2">>
    [] q = "right" -> <<"r1", "r2">>
    [] q = "out" -> <<"o1", "o2">>]
JoinTarget == [n \in {"A", "B", "C"} |-> CASE n = "A" -> "T1" [] n = "B" -> "T2" [] n = "C" -> "T3"]
=============================================================================

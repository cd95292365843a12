------------------------- MODULE GraphScheduleProofs -------------------------
(***************************************************************************)
(* For every number of threads, leaf nodes, pipeline ids and requests, and *)
(* in every schedule mode: pipeline ids are neither lost nor given out     *)
(* twice, requests are neither lost nor executed twice, pending requests   *)
(* have a completion to come that starts them, and vxWaitGraph lets a      *)
(* thread through only when everything requested before has completed.     *)
(* With one thread, and leaf nodes whose callbacks go on, it also tells    *)
(* whether a callback abandoned the execution that completed last.         *)
(***************************************************************************)
EXTENDS GraphSchedule, Integers, FiniteSetTheorems, SequenceTheorems, TLAPS

-----------------------------------------------------------------------------
(* The inductive invariant: what the four properties need of the rest of   *)
(* the state to be preserved by every step.                                *)

(* The leaf nodes that have yet to complete for p. *)
Unfinished(p) == {l \in Leaf : <<l, p>> \in running}

(* The counter of p counts the leaf nodes that completed; an id at rest has 0. *)
LeavesCounted ==
  \A p \in Pipe : complete_leaf_nodes[p] =
    IF p \in Busy THEN NumLeafNodes - Cardinality(Unfinished(p)) ELSE 0

(* While the event is set nothing is underway. *)
EventMeansIdle ==
  all_graph_completed_event =>
    submitted_count = 0 /\ schedule_pending_count = 0 /\ host.count = 0

(* The HOST task goes to schedule exactly when it took requests along. *)
HandOver == host.at = "reschedule" <=> host.count > 0

(* In the normal mode nothing is ever pending. *)
NormalHasNone == Mode = "NORMAL" => schedule_pending_count = 0 /\ host.count = 0

GoalRequested == \A c \in Caller : goal[c] <= requested

Inv ==
  /\ TypeOK /\ PipesPartitioned /\ RequestsConserved
  /\ PendingHasCarrier /\ WaitCoversRequests
  /\ LeavesCounted /\ EventMeansIdle /\ HandOver /\ NormalHasNone /\ GoalRequested

(* The types of the variables that ScheduleGraph writes. *)
GraphTypeOK ==
  /\ free_q \in Seq(Pipe)
  /\ submitted_count \in Nat /\ schedule_pending_count \in Nat
  /\ graph_state \in States
  /\ desc_state \in [Pipe -> States]
  /\ complete_leaf_nodes \in [Pipe -> 0 .. NumLeafNodes - 1]
  /\ all_graph_completed_event \in BOOLEAN
  /\ running \subseteq Leaf \X Pipe
  /\ abandoned \in [Pipe -> BOOLEAN]

-----------------------------------------------------------------------------
(* There is a leaf node. *)
LEMMA LeafCount == NumLeafNodes \in Nat \ {0}
  BY LeafAssumption, FS_CardinalityType, FS_EmptySet DEF NumLeafNodes

(* An id that runs is missing from free_q, which is then shorter than Depth. *)
LEMMA BusyIsSubmitted ==
  ASSUME TypeOK, PipesPartitioned, Busy # {}
  PROVE  submitted_count > 0
  <1>1. PICK p \in Pipe : p \in Busy
    BY DEF Busy
  <1>2. free_q \in Injection(1 .. Len(free_q), Pipe \ {p})
    <2>1. free_q \in [1 .. Len(free_q) -> Pipe]
      BY DEF TypeOK
    <2>2. \A i \in 1 .. Len(free_q) : free_q[i] # p
      BY <1>1 DEF PipesPartitioned
    <2>3. free_q \in [1 .. Len(free_q) -> Pipe \ {p}]
      BY <2>1, <2>2
    <2>. QED  BY <2>3 DEF Injection, IsInjective, PipesPartitioned
  <1>3. IsFiniteSet(Pipe) /\ Cardinality(Pipe) = Depth
    BY DepthAssumption, FS_Interval DEF Pipe
  <1>4. IsFiniteSet(Pipe \ {p}) /\ Cardinality(Pipe \ {p}) = Depth - 1
    BY <1>1, <1>3, FS_RemoveElement
  <1>5. Len(free_q) \in Nat
    BY DEF TypeOK
  <1>6. Cardinality(1 .. Len(free_q)) = Len(free_q)
    BY <1>5, FS_Interval
  <1>7. Len(free_q) <= Depth - 1
    BY <1>2, <1>4, <1>6, FS_Injection
  <1>. QED  BY <1>5, <1>7, DepthAssumption DEF PipesPartitioned, TypeOK

(* As many executions start as there are requests or free ids, and no more. *)
LEMMA StartedIs ==
  ASSUME TypeOK, NEW n \in Nat
  PROVE  /\ Started(n) \in Nat
         /\ Started(n) <= Len(free_q) /\ Started(n) <= n + schedule_pending_count
         /\ Started(n) = Len(free_q) \/ Started(n) = n + schedule_pending_count
  <1>1. Len(free_q) \in Nat
    BY DEF TypeOK
  <1>. QED  BY <1>1 DEF TypeOK, Started, Smaller

(* The first k ids of free_q, and what remains of it. *)
Taken(k) == {free_q[i] : i \in 1 .. k}
Rest(k) == SubSeq(free_q, k + 1, Len(free_q))

(* Taking k ids leaves each id free once, running or taken. *)
LEMMA TakenIds ==
  ASSUME TypeOK, PipesPartitioned, NEW k \in 0 .. Len(free_q)
  PROVE  /\ Rest(k) \in Seq(Pipe) /\ Len(Rest(k)) = Len(free_q) - k
         /\ \A i, j \in 1 .. Len(Rest(k)) : Rest(k)[i] = Rest(k)[j] => i = j
         /\ {Rest(k)[i] : i \in 1 .. Len(Rest(k))} = Pipe \ (Busy \cup Taken(k))
         /\ Taken(k) \subseteq Pipe \ Busy
  <1>. DEFINE rest == Rest(k)
              taken == Taken(k)
  <1>1. Len(free_q) \in Nat /\ \A i \in 1 .. Len(free_q) : free_q[i] \in Pipe
    BY DEF TypeOK
  <1>2. \A i \in k + 1 .. Len(free_q) : free_q[i] \in Pipe
    BY <1>1
  <1>3. /\ rest \in Seq(Pipe)
        /\ Len(rest) = IF k + 1 <= Len(free_q) THEN Len(free_q) - (k + 1) + 1 ELSE 0
        /\ \A i \in 1 .. Len(free_q) - (k + 1) + 1 : rest[i] = free_q[(k + 1) + i - 1]
    BY <1>1, <1>2, SubSeqProperties, k + 1 \in Int, Len(free_q) \in Int DEF Rest
  <1>. HIDE DEF rest
  <1>4. Len(rest) = Len(free_q) - k
    BY <1>1, <1>3
  <1>5. \A i \in 1 .. Len(rest) : k + i \in 1 .. Len(free_q) /\ rest[i] = free_q[k + i]
    <2>. SUFFICES ASSUME NEW i \in 1 .. Len(rest)
                  PROVE  k + i \in 1 .. Len(free_q) /\ rest[i] = free_q[k + i]
      OBVIOUS
    <2>1. i \in 1 .. Len(free_q) - (k + 1) + 1 /\ (k + 1) + i - 1 = k + i
      BY <1>1, <1>4
    <2>. QED  BY <2>1, <1>1, <1>3
  <1>6. \A i, j \in 1 .. Len(rest) : rest[i] = rest[j] => i = j
    <2>. SUFFICES ASSUME NEW i \in 1 .. Len(rest), NEW j \in 1 .. Len(rest), rest[i] = rest[j]
                  PROVE  i = j
      OBVIOUS
    <2>1. k + i = k + j
      BY <1>5 DEF PipesPartitioned
    <2>. QED  BY <2>1, <1>1, <1>4
  <1>7. taken \subseteq Pipe \ Busy
    BY <1>1 DEF PipesPartitioned, Taken
  <1>8. {rest[i] : i \in 1 .. Len(rest)} \subseteq Pipe \ (Busy \cup taken)
    <2>. SUFFICES ASSUME NEW i \in 1 .. Len(rest)
                  PROVE  rest[i] \in Pipe \ (Busy \cup taken)
      OBVIOUS
    <2>1. rest[i] = free_q[k + i] /\ k + i \in 1 .. Len(free_q)
      BY <1>5
    <2>2. \A j \in 1 .. k : j # k + i /\ j \in 1 .. Len(free_q)
      BY <1>1, <1>4
    <2>3. free_q[k + i] \notin taken
      BY <2>1, <2>2 DEF PipesPartitioned, Taken
    <2>. QED  BY <2>1, <2>3 DEF PipesPartitioned
  <1>9. Pipe \ (Busy \cup taken) \subseteq {rest[i] : i \in 1 .. Len(rest)}
    <2>. SUFFICES ASSUME NEW p \in Pipe \ (Busy \cup taken)
                  PROVE  \E i \in 1 .. Len(rest) : rest[i] = p
      OBVIOUS
    <2>1. PICK j \in 1 .. Len(free_q) : free_q[j] = p
      BY DEF PipesPartitioned
    <2>2. j \notin 1 .. k
      BY <2>1 DEF Taken
    <2>3. j - k \in 1 .. Len(rest) /\ k + (j - k) = j
      BY <2>2, <1>1, <1>4
    <2>. QED  BY <2>1, <2>3, <1>5
  <1>. QED  BY <1>3, <1>4, <1>6, <1>7, <1>8, <1>9 DEF rest

(* A pipeline id of which l is running has complete counters. *)
LEMMA UnfinishedIs ==
  ASSUME TypeOK, LeavesCounted, NEW l \in Leaf, NEW p \in Pipe, <<l, p>> \in running
  PROVE  /\ p \in Busy /\ l \in Unfinished(p)
         /\ IsFiniteSet(Unfinished(p)) /\ Cardinality(Unfinished(p)) \in Nat \ {0}
         /\ complete_leaf_nodes[p] = NumLeafNodes - Cardinality(Unfinished(p))
  <1>1. p \in Busy /\ l \in Unfinished(p)
    BY DEF Busy, Unfinished
  <1>2. IsFiniteSet(Unfinished(p))
    BY LeafAssumption, FS_Subset, Unfinished(p) \in SUBSET Leaf DEF Unfinished
  <1>3. Cardinality(Unfinished(p)) \in Nat \ {0}
    BY <1>1, <1>2, FS_CardinalityType, FS_EmptySet
  <1>. QED  BY <1>1, <1>2, <1>3 DEF LeavesCounted

-----------------------------------------------------------------------------
(* ownGraphScheduleGraph, called with requests that the HOST task does not   *)
(* hold any more: what it does to the parts of the invariant.                *)
LEMMA ScheduleGraphKeeps ==
  ASSUME Inv, NEW n \in Nat, ScheduleGraph(n)
  PROVE  /\ GraphTypeOK' /\ PipesPartitioned' /\ LeavesCounted'
         /\ submitted_count' = submitted_count + Started(n)
         /\ Mode # "NORMAL" =>
              schedule_pending_count' = n + schedule_pending_count - Started(n)
         /\ Mode = "NORMAL" => schedule_pending_count' = 0 /\ schedule_pending_count = 0
         /\ schedule_pending_count' > 0 => submitted_count' > 0
         /\ all_graph_completed_event' =>
              submitted_count' = 0 /\ schedule_pending_count' = 0 /\ all_graph_completed_event
  <1>. DEFINE k == Started(n)
              taken == Taken(k)
  <1>. USE DEF Inv
  <1>1. /\ k \in Nat /\ k <= Len(free_q) /\ k <= n + schedule_pending_count
        /\ k = Len(free_q) \/ k = n + schedule_pending_count
    BY StartedIs
  <1>2. Len(free_q) \in Nat
    BY DEF TypeOK
  <1>3. k \in 0 .. Len(free_q)
    BY <1>1, <1>2
  <1>4. /\ free_q' = SubSeq(free_q, k + 1, Len(free_q))
        /\ submitted_count' = submitted_count + k
        /\ schedule_pending_count' = StillPending(n)
        /\ graph_state' = IF k > 0 THEN "RUNNING" ELSE graph_state
        /\ desc_state' = [p \in Pipe |-> IF p \in taken THEN "RUNNING" ELSE desc_state[p]]
        /\ all_graph_completed_event' = EventAfterStart(k)
        /\ running' = running \cup Leaf \X taken
        /\ abandoned' = [p \in Pipe |-> p \notin taken /\ abandoned[p]]
        /\ complete_leaf_nodes' = complete_leaf_nodes
    BY DEF ScheduleGraph, Taken
  <1>. HIDE DEF k, taken
  <1>5. /\ free_q' \in Seq(Pipe) /\ Len(free_q') = Len(free_q) - k
        /\ \A i, j \in 1 .. Len(free_q') : free_q'[i] = free_q'[j] => i = j
        /\ {free_q'[i] : i \in 1 .. Len(free_q')} = Pipe \ (Busy \cup taken)
        /\ taken \subseteq Pipe \ Busy
    <2>1. free_q' = Rest(k)
      BY <1>4 DEF Rest
    <2>. QED  BY <2>1, <1>3, TakenIds DEF taken
  <1>6. Busy' = Busy \cup taken
    <2>1. Busy' \subseteq Busy \cup taken
      BY <1>4 DEF Busy
    <2>2. Busy \subseteq Busy'
      BY <1>4 DEF Busy
    <2>3. taken \subseteq Busy'
      BY <1>4, <1>5, LeafAssumption DEF Busy
    <2>. QED  BY <2>1, <2>2, <2>3
  <1>7. StillPending(n) \in Nat
    BY <1>1, <1>2, k = Started(n) DEF k, StillPending, TypeOK
  <1>8. GraphTypeOK'
    <2>1. submitted_count' \in Nat /\ schedule_pending_count' \in Nat
      BY <1>1, <1>4, <1>7 DEF TypeOK
    <2>2. graph_state' \in States /\ desc_state' \in [Pipe -> States]
      BY <1>4 DEF TypeOK, States
    <2>3. all_graph_completed_event' \in BOOLEAN
      BY <1>4 DEF TypeOK, EventAfterStart
    <2>4. running' \subseteq Leaf \X Pipe
      BY <1>4, <1>5 DEF TypeOK
    <2>5. abandoned' \in [Pipe -> BOOLEAN]
      BY <1>4 DEF TypeOK
    <2>. QED  BY <1>4, <1>5, <2>1, <2>2, <2>3, <2>4, <2>5 DEF GraphTypeOK, TypeOK
  <1>9. PipesPartitioned'
    <2>1. Len(free_q') + submitted_count' = Depth
      <3>1. Len(free_q) + submitted_count = Depth /\ submitted_count \in Nat
        BY DEF PipesPartitioned, TypeOK
      <3>2. Len(free_q') = Len(free_q) - k /\ submitted_count' = submitted_count + k
        BY <1>4, <1>5
      <3>. QED  BY ONLY <3>1, <3>2, <1>2, <1>3
    <2>. QED  BY <1>5, <1>6, <2>1 DEF PipesPartitioned
  <1>10. LeavesCounted'
    <2>. SUFFICES ASSUME NEW p \in Pipe
                  PROVE  complete_leaf_nodes[p] =
                           IF p \in Busy' THEN NumLeafNodes - Cardinality(Unfinished(p)') ELSE 0
      BY <1>4 DEF LeavesCounted
    <2>1. CASE p \in taken
      <3>1. Unfinished(p)' = Leaf
        BY <2>1, <1>4 DEF Unfinished
      <3>2. p \notin Busy /\ p \in Busy'
        BY <2>1, <1>5, <1>6
      <3>. QED  BY <3>1, <3>2, LeafCount DEF LeavesCounted, NumLeafNodes
    <2>2. CASE p \notin taken
      <3>1. Unfinished(p)' = Unfinished(p)
        BY <2>2, <1>4 DEF Unfinished
      <3>. QED  BY <2>2, <3>1, <1>6 DEF LeavesCounted
    <2>. QED  BY <2>1, <2>2
  <1>11. Mode # "NORMAL" =>
           schedule_pending_count' = n + schedule_pending_count - Started(n)
    BY <1>4 DEF StillPending
  <1>12. Mode = "NORMAL" => schedule_pending_count' = 0 /\ schedule_pending_count = 0
    BY <1>4 DEF StillPending, NormalHasNone
  <1>13. schedule_pending_count' > 0 => submitted_count' > 0
    <2>. SUFFICES ASSUME schedule_pending_count' > 0 PROVE submitted_count' > 0
      OBVIOUS
    <2>1. k = Len(free_q)
      BY <1>1, <1>11, <1>12 DEF k, TypeOK
    <2>. QED  BY <2>1, <1>2, <1>4, DepthAssumption DEF PipesPartitioned, TypeOK
  <1>14. ASSUME all_graph_completed_event'
         PROVE  submitted_count' = 0 /\ schedule_pending_count' = 0 /\ all_graph_completed_event
    <2>1. k = 0 /\ all_graph_completed_event
      BY <1>4, <1>14 DEF EventAfterStart
    <2>2. submitted_count = 0 /\ schedule_pending_count = 0
      BY <2>1 DEF EventMeansIdle
    <2>3. submitted_count' = 0
      BY <2>1, <2>2, <1>4
    <2>. QED  BY <2>1, <2>3, <1>7, <1>4, <1>13
  <1>. QED
    BY <1>4, <1>8, <1>9, <1>10, <1>11, <1>12, <1>13, <1>14 DEF k

-----------------------------------------------------------------------------
(* The completion of leaf nodes by the HOST task. *)

LEMMA LeafCompletesInv ==
  ASSUME Inv, NEW l \in Leaf, NEW p \in Pipe, NEW action, LeafCompletes(l, p, action)
  PROVE  Inv'
  <1>. USE DEF Inv
  <1>1. <<l, p>> \in running /\ complete_leaf_nodes[p] + 1 # NumLeafNodes
    BY DEF LeafCompletes, CountLeaf
  <1>2. /\ p \in Busy /\ l \in Unfinished(p)
        /\ IsFiniteSet(Unfinished(p)) /\ Cardinality(Unfinished(p)) \in Nat \ {0}
        /\ complete_leaf_nodes[p] = NumLeafNodes - Cardinality(Unfinished(p))
    BY <1>1, UnfinishedIs
  <1>3. complete_leaf_nodes[p] \in 0 .. NumLeafNodes - 1
    BY DEF TypeOK
  <1>4. /\ running' = running \ {<<l, p>>}
        /\ complete_leaf_nodes' = [complete_leaf_nodes EXCEPT ![p] = @ + 1]
        /\ abandoned' = [abandoned EXCEPT ![p] = @ \/ action = "ABANDON"]
        /\ host.at = "idle"
        /\ host' = [at |-> IF action = "ABANDON" THEN "abandon" ELSE "idle",
                    count |-> 0, abandon |-> ToAbandon(p, action)]
        /\ UNCHANGED <<free_q, submitted_count, schedule_pending_count, graph_state,
                       desc_state, all_graph_completed_event>>
        /\ UNCHANGED <<pc, num, fresh, ret, requested, completed, goal, last_abandoned>>
    BY DEF LeafCompletes, CountLeaf, callers
  <1>5. host.count = 0
    BY <1>4 DEF HandOver, TypeOK
  <1>6. Unfinished(p)' = Unfinished(p) \ {l}
    BY <1>4 DEF Unfinished
  <1>7. Cardinality(Unfinished(p)') = Cardinality(Unfinished(p)) - 1
    BY <1>2, <1>6, FS_RemoveElement
  <1>8. \A r \in Pipe \ {p} : Unfinished(r)' = Unfinished(r)
    BY <1>4 DEF Unfinished
  <1>9. Busy' = Busy
    <2>1. Cardinality(Unfinished(p)) # 1
      BY <1>1, <1>2, LeafCount
    <2>2. PICK m \in Leaf : m # l /\ <<m, p>> \in running
      <3>1. Unfinished(p) # {l}
        BY <2>1, FS_Singleton
      <3>. QED  BY <3>1, <1>2 DEF Unfinished
    <2>3. p \in Busy'
      BY <2>2, <1>4 DEF Busy
    <2>4. \A r \in Pipe \ {p} : r \in Busy' <=> r \in Busy
      BY <1>4 DEF Busy
    <2>. QED  BY <2>3, <2>4, <1>2 DEF Busy
  <1>10. complete_leaf_nodes' \in [Pipe -> 0 .. NumLeafNodes - 1]
    <2>1. complete_leaf_nodes[p] + 1 \in 0 .. NumLeafNodes - 1
      BY <1>1, <1>3, LeafCount
    <2>. QED  BY <2>1, <1>4 DEF TypeOK
  <1>11. TypeOK'
    <2>1. running' \subseteq Leaf \X Pipe /\ abandoned' \in [Pipe -> BOOLEAN]
      BY <1>4 DEF TypeOK
    <2>2. host' \in [at : {"idle", "reschedule", "abandon"}, count : Nat, abandon : SUBSET Pipe]
      BY <1>4 DEF ToAbandon
    <2>. QED  BY <2>1, <2>2, <1>4, <1>10 DEF TypeOK
  <1>12. PipesPartitioned'
    BY <1>4, <1>9 DEF PipesPartitioned
  <1>13. LeavesCounted'
    <2>1. complete_leaf_nodes'[p] = NumLeafNodes - Cardinality(Unfinished(p)')
      BY <1>2, <1>4, <1>7, LeafCount DEF TypeOK
    <2>2. \A r \in Pipe \ {p} : complete_leaf_nodes'[r] = complete_leaf_nodes[r]
      BY <1>4 DEF TypeOK
    <2>. QED  BY <1>2, <1>8, <1>9, <2>1, <2>2 DEF LeavesCounted
  <1>14. RequestsConserved' /\ PendingHasCarrier' /\ EventMeansIdle'
         /\ HandOver' /\ NormalHasNone'
    BY <1>4, <1>5 DEF RequestsConserved, PendingHasCarrier, EventMeansIdle,
                      HandOver, NormalHasNone
  <1>15. WaitCoversRequests' /\ GoalRequested'
    BY <1>4 DEF WaitCoversRequests, GoalRequested
  <1>. QED  BY <1>11, <1>12, <1>13, <1>14, <1>15

LEMMA GraphCompletesInv ==
  ASSUME Inv, NEW l \in Leaf, NEW p \in Pipe, NEW action, GraphCompletes(l, p, action)
  PROVE  Inv'
  <1>. USE DEF Inv
  <1>1. <<l, p>> \in running /\ complete_leaf_nodes[p] + 1 = NumLeafNodes
    BY DEF GraphCompletes, CompleteGraph
  <1>2. /\ p \in Busy /\ l \in Unfinished(p)
        /\ IsFiniteSet(Unfinished(p)) /\ Cardinality(Unfinished(p)) \in Nat \ {0}
        /\ complete_leaf_nodes[p] = NumLeafNodes - Cardinality(Unfinished(p))
    BY <1>1, UnfinishedIs
  <1>. DEFINE state == StateAfterRun(p)
  <1>3. /\ host.at = "idle"
        /\ submitted_count' = submitted_count - 1
        /\ schedule_pending_count' = schedule_pending_count - schedule_pending_count
        /\ desc_state' = [desc_state EXCEPT ![p] = state]
        /\ graph_state' = IF submitted_count - 1 = 0 THEN state ELSE graph_state
        /\ all_graph_completed_event' =
             (AllCompleted(submitted_count - 1, schedule_pending_count) \/ all_graph_completed_event)
        /\ host' = [at |-> IF schedule_pending_count > 0 THEN "reschedule"
                           ELSE IF action = "ABANDON" THEN "abandon" ELSE "idle",
                    count |-> schedule_pending_count, abandon |-> ToAbandon(p, action)]
        /\ free_q' = FreePipe(p)
        /\ complete_leaf_nodes' = [complete_leaf_nodes EXCEPT ![p] = 0]
        /\ running' = running \ {<<l, p>>}
        /\ completed' = completed + 1
        /\ abandoned' = [abandoned EXCEPT ![p] = @ \/ action = "ABANDON"]
        /\ last_abandoned' = abandoned'[p]
        /\ UNCHANGED <<pc, num, fresh, ret, requested, goal>>
    BY DEF GraphCompletes, CompleteGraph, TakenOver, LeftPending, LeafCountAfterRun, callers
  <1>4. submitted_count > 0
    BY <1>2, BusyIsSubmitted
  <1>5. submitted_count \in Nat /\ schedule_pending_count \in Nat /\ Len(free_q) \in Nat
    BY DEF TypeOK
  <1>6. host.count = 0
    BY <1>3 DEF HandOver, TypeOK
  <1>7. all_graph_completed_event = FALSE
    BY <1>4, <1>5 DEF EventMeansIdle, TypeOK
  <1>8. Unfinished(p) = {l}
    <2>1. Cardinality(Unfinished(p)) = 1
      BY <1>1, <1>2, LeafCount
    <2>. QED  BY <2>1, <1>2, FS_Singleton
  <1>9. Busy' = Busy \ {p}
    <2>1. p \notin Busy'
      BY <1>3, <1>8 DEF Busy, Unfinished
    <2>2. \A r \in Pipe \ {p} : r \in Busy' <=> r \in Busy
      BY <1>3 DEF Busy
    <2>. QED  BY <2>1, <2>2 DEF Busy
  <1>10. free_q' = Append(free_q, p)
    <2>1. Len(free_q) < Depth
      BY <1>4, <1>5, DepthAssumption DEF PipesPartitioned
    <2>. QED  BY <2>1, <1>3, <1>5, DepthAssumption DEF FreePipe
  <1>11. /\ free_q' \in Seq(Pipe) /\ Len(free_q') = Len(free_q) + 1
         /\ \A i \in 1 .. Len(free_q) : free_q'[i] = free_q[i]
         /\ free_q'[Len(free_q) + 1] = p
    BY <1>10, <1>5 DEF TypeOK
  <1>12. TypeOK'
    <2>1. state \in States
      BY DEF StateAfterRun, TypeOK, States
    <2>2. submitted_count' \in Nat /\ schedule_pending_count' \in Nat /\ completed' \in Nat
      BY <1>3, <1>4, <1>5 DEF TypeOK
    <2>3. graph_state' \in States /\ desc_state' \in [Pipe -> States]
      BY <1>3, <2>1 DEF TypeOK
    <2>4. complete_leaf_nodes' \in [Pipe -> 0 .. NumLeafNodes - 1]
      BY <1>3, LeafCount DEF TypeOK
    <2>5. running' \subseteq Leaf \X Pipe /\ all_graph_completed_event' \in BOOLEAN
      BY <1>3 DEF TypeOK, AllCompleted
    <2>6. host' \in [at : {"idle", "reschedule", "abandon"}, count : Nat, abandon : SUBSET Pipe]
      BY <1>3, <1>5 DEF ToAbandon
    <2>7. abandoned' \in [Pipe -> BOOLEAN] /\ last_abandoned' \in BOOLEAN
      BY <1>3 DEF TypeOK
    <2>. QED  BY <1>3, <1>11, <2>2, <2>3, <2>4, <2>5, <2>6, <2>7 DEF TypeOK
  <1>13. PipesPartitioned'
    <2>1. \A i \in 1 .. Len(free_q) : free_q[i] \in Pipe \ Busy
      BY DEF PipesPartitioned
    <2>2. \A i, j \in 1 .. Len(free_q') : free_q'[i] = free_q'[j] => i = j
      BY <1>2, <1>5, <1>11, <2>1 DEF PipesPartitioned
    <2>3. {free_q'[i] : i \in 1 .. Len(free_q')} = Pipe \ Busy'
      <3>1. \A i \in 1 .. Len(free_q') : free_q'[i] \in Pipe \ Busy'
        BY <1>5, <1>9, <1>11, <2>1
      <3>2. ASSUME NEW r \in Pipe \ Busy'
            PROVE  \E i \in 1 .. Len(free_q') : free_q'[i] = r
        <4>1. CASE r = p
          BY <4>1, <1>5, <1>11
        <4>2. CASE r # p
          <5>1. PICK i \in 1 .. Len(free_q) : free_q[i] = r
            BY <3>2, <4>2, <1>9 DEF PipesPartitioned
          <5>. QED  BY <5>1, <1>5, <1>11
        <4>. QED  BY <4>1, <4>2
      <3>. QED  BY <3>1, <3>2
    <2>4. Len(free_q') + submitted_count' = Depth
      BY <1>3, <1>5, <1>11, DepthAssumption DEF PipesPartitioned
    <2>. QED  BY <2>2, <2>3, <2>4 DEF PipesPartitioned
  <1>14. LeavesCounted'
    <2>1. \A r \in Pipe \ {p} : Unfinished(r)' = Unfinished(r)
      BY <1>3 DEF Unfinished
    <2>2. /\ complete_leaf_nodes'[p] = 0
          /\ \A r \in Pipe \ {p} : complete_leaf_nodes'[r] = complete_leaf_nodes[r]
      BY <1>3 DEF TypeOK
    <2>. QED  BY <1>9, <2>1, <2>2 DEF LeavesCounted
  <1>15. RequestsConserved'
    <2>1. requested = completed + submitted_count + schedule_pending_count
      BY <1>5, <1>6 DEF RequestsConserved, TypeOK
    <2>2. host'.count = schedule_pending_count
      BY <1>3
    <2>. QED  BY <1>3, <1>5, <2>1, <2>2 DEF RequestsConserved, TypeOK
  <1>16. PendingHasCarrier'
    BY <1>3, <1>5 DEF PendingHasCarrier
  <1>17. WaitCoversRequests' /\ GoalRequested'
    BY <1>3 DEF WaitCoversRequests, GoalRequested, TypeOK
  <1>18. EventMeansIdle'
    <2>. SUFFICES ASSUME all_graph_completed_event'
                  PROVE  submitted_count' = 0 /\ schedule_pending_count' = 0 /\ host'.count = 0
      BY DEF EventMeansIdle
    <2>1. AllCompleted(submitted_count - 1, schedule_pending_count)
      BY <1>3, <1>7
    <2>2. submitted_count - 1 = 0 /\ schedule_pending_count = 0
      BY <2>1 DEF AllCompleted
    <2>3. host'.count = schedule_pending_count
      BY <1>3
    <2>. QED  BY <1>3, <1>5, <2>2, <2>3
  <1>19. HandOver' /\ NormalHasNone'
    BY <1>3, <1>5 DEF HandOver, NormalHasNone
  <1>. QED  BY <1>12, <1>13, <1>14, <1>15, <1>16, <1>17, <1>18, <1>19

-----------------------------------------------------------------------------
(* The other steps of the HOST task. *)

LEMMA RescheduleInv ==
  ASSUME Inv, Reschedule
  PROVE  Inv'
  <1>. USE DEF Inv
  <1>1. /\ host.at = "reschedule" /\ ScheduleGraph(host.count)
        /\ host' = [host EXCEPT !.at = IF host.abandon # {} THEN "abandon" ELSE "idle",
                                !.count = 0]
        /\ UNCHANGED <<pc, num, fresh, ret, requested, completed, goal, last_abandoned>>
    BY DEF Reschedule, callers
  <1>2. host.count \in Nat \ {0} /\ Mode # "NORMAL"
    BY <1>1 DEF HandOver, NormalHasNone, TypeOK
  <1>3. /\ GraphTypeOK' /\ PipesPartitioned' /\ LeavesCounted'
        /\ submitted_count' = submitted_count + Started(host.count)
        /\ schedule_pending_count' = host.count + schedule_pending_count - Started(host.count)
        /\ schedule_pending_count' > 0 => submitted_count' > 0
        /\ all_graph_completed_event' =>
             submitted_count' = 0 /\ schedule_pending_count' = 0 /\ all_graph_completed_event
    BY <1>1, <1>2, ScheduleGraphKeeps
  <1>4. /\ host' \in [at : {"idle", "reschedule", "abandon"}, count : Nat, abandon : SUBSET Pipe]
        /\ host'.at # "reschedule" /\ host'.count = 0
    BY <1>1 DEF TypeOK
  <1>5. TypeOK'
    BY <1>1, <1>3, <1>4 DEF TypeOK, GraphTypeOK
  <1>6. Started(host.count) \in Nat
    BY <1>2, StartedIs
  <1>7. RequestsConserved'
    <2>1. requested = completed + submitted_count + schedule_pending_count + host.count
      BY DEF RequestsConserved
    <2>2. completed \in Nat /\ submitted_count \in Nat /\ schedule_pending_count \in Nat
      BY DEF TypeOK
    <2>3. requested' = requested /\ completed' = completed
      BY <1>1
    <2>4. requested' = completed' + submitted_count' + schedule_pending_count' + 0
      BY ONLY <2>1, <2>2, <2>3, <1>2, <1>3, <1>6
    <2>. QED  BY <2>4, <1>4 DEF RequestsConserved
  <1>8. PendingHasCarrier' /\ EventMeansIdle'
    BY <1>3, <1>4 DEF PendingHasCarrier, EventMeansIdle
  <1>9. HandOver' /\ NormalHasNone'
    BY <1>2, <1>4 DEF HandOver, NormalHasNone
  <1>10. WaitCoversRequests' /\ GoalRequested'
    BY <1>1 DEF WaitCoversRequests, GoalRequested
  <1>. QED  BY <1>3, <1>5, <1>7, <1>8, <1>9, <1>10

LEMMA AbandonInv ==
  ASSUME Inv, SetAbandon \/ \E p \in Pipe : InnerAbandon(p)
  PROVE  Inv'
  <1>. USE DEF Inv
  <1>1. /\ UNCHANGED <<free_q, submitted_count, schedule_pending_count, graph_state,
                       complete_leaf_nodes, all_graph_completed_event, running>>
        /\ UNCHANGED <<pc, num, fresh, ret, requested, completed, goal, last_abandoned>>
    BY DEF SetAbandon, InnerAbandon, callers, history
  <1>2. desc_state' \in [Pipe -> States] /\ abandoned' \in [Pipe -> BOOLEAN]
    BY DEF SetAbandon, InnerAbandon, history, TypeOK, States
  <1>3. host' = host \/ (host.at = "abandon" /\ host' = HostIdle)
    BY DEF SetAbandon, InnerAbandon
  <1>4. /\ host' \in [at : {"idle", "reschedule", "abandon"}, count : Nat, abandon : SUBSET Pipe]
        /\ host'.count = host.count /\ (host'.at = "reschedule" <=> host.at = "reschedule")
    BY <1>3 DEF HandOver, HostIdle, TypeOK
  <1>5. TypeOK'
    BY <1>1, <1>2, <1>4 DEF TypeOK
  <1>6. PipesPartitioned' /\ LeavesCounted'
    <2>1. Busy' = Busy /\ \A p \in Pipe : Unfinished(p)' = Unfinished(p)
      BY <1>1 DEF Busy, Unfinished
    <2>2. PipesPartitioned'
      BY <1>1, <2>1 DEF PipesPartitioned
    <2>3. LeavesCounted'
      BY <1>1, <2>1 DEF LeavesCounted
    <2>. QED  BY <2>2, <2>3
  <1>7. /\ RequestsConserved' /\ PendingHasCarrier' /\ WaitCoversRequests'
        /\ EventMeansIdle' /\ HandOver' /\ NormalHasNone' /\ GoalRequested'
    BY <1>1, <1>4 DEF RequestsConserved, PendingHasCarrier, WaitCoversRequests,
                      EventMeansIdle, HandOver, NormalHasNone, GoalRequested
  <1>. QED  BY <1>5, <1>6, <1>7

-----------------------------------------------------------------------------
(* The application threads. *)

LEMMA ScheduleInv ==
  ASSUME Inv, NEW c \in Caller, Schedule(c)
  PROVE  Inv'
  <1>. USE DEF Inv
  <1>1. /\ pc[c] = "schedule" /\ ScheduleGraph(num[c])
        /\ requested' = requested + Promised(num[c])
        /\ pc' = [pc EXCEPT ![c] = "idle"] /\ ret' = [ret EXCEPT ![c] = "SUCCESS"]
        /\ fresh' = [fresh EXCEPT ![c] = TRUE] /\ num' = [num EXCEPT ![c] = 0]
        /\ UNCHANGED <<host, completed, goal, last_abandoned>>
    BY DEF Schedule, Returns
  <1>2. num[c] \in Nat
    BY DEF TypeOK
  <1>3. /\ GraphTypeOK' /\ PipesPartitioned' /\ LeavesCounted'
        /\ submitted_count' = submitted_count + Started(num[c])
        /\ Mode # "NORMAL" =>
             schedule_pending_count' = num[c] + schedule_pending_count - Started(num[c])
        /\ Mode = "NORMAL" => schedule_pending_count' = 0 /\ schedule_pending_count = 0
        /\ schedule_pending_count' > 0 => submitted_count' > 0
        /\ all_graph_completed_event' =>
             submitted_count' = 0 /\ schedule_pending_count' = 0 /\ all_graph_completed_event
    BY <1>1, <1>2, ScheduleGraphKeeps
  <1>4. Started(num[c]) \in Nat /\ Promised(num[c]) \in Nat
    BY <1>2, StartedIs DEF Promised
  <1>5. requested' \in Nat /\ requested' >= requested
    BY <1>1, <1>4 DEF TypeOK
  <1>6. TypeOK'
    <2>1. /\ pc' \in [Caller -> {"idle", "schedule", "waiting", "woken"}]
          /\ num' \in [Caller -> Nat] /\ fresh' \in [Caller -> BOOLEAN]
          /\ ret' \in [Caller -> Statuses]
      BY <1>1 DEF TypeOK, Statuses
    <2>. QED  BY <2>1, <1>1, <1>3, <1>5 DEF TypeOK, GraphTypeOK
  <1>7. RequestsConserved'
    <2>1. /\ requested = completed + submitted_count + schedule_pending_count + host.count
          /\ completed \in Nat /\ submitted_count \in Nat
          /\ schedule_pending_count \in Nat /\ host.count \in Nat
      BY DEF RequestsConserved, TypeOK
    <2>2. completed' = completed /\ host' = host
      BY <1>1
    <2>3. /\ submitted_count' + schedule_pending_count'
               = submitted_count + schedule_pending_count + Promised(num[c])
      <3>1. CASE Mode = "NORMAL"
        BY <3>1, <2>1, <1>3, <1>4 DEF Promised
      <3>2. CASE Mode # "NORMAL"
        BY <3>2, <2>1, <1>2, <1>3, <1>4 DEF Promised
      <3>. QED  BY <3>1, <3>2
    <2>4. submitted_count' \in Nat /\ schedule_pending_count' \in Nat
      BY <1>3 DEF GraphTypeOK
    <2>. QED  BY <2>1, <2>2, <2>3, <2>4, <1>1, <1>4 DEF RequestsConserved
  <1>8. PendingHasCarrier' /\ EventMeansIdle'
    BY <1>1, <1>3 DEF PendingHasCarrier, EventMeansIdle
  <1>9. HandOver' /\ NormalHasNone'
    BY <1>1, <1>3 DEF HandOver, NormalHasNone
  <1>10. GoalRequested'
    BY <1>1, <1>5 DEF GoalRequested, TypeOK
  <1>11. WaitCoversRequests'
    BY <1>1 DEF WaitCoversRequests, TypeOK
  <1>. QED  BY <1>3, <1>6, <1>7, <1>8, <1>9, <1>10, <1>11

(* What a call leaves alone that does not enter the graph lock. *)
GraphUnchanged ==
  /\ UNCHANGED <<free_q, submitted_count, schedule_pending_count, graph_state,
                 desc_state, complete_leaf_nodes, running>>
  /\ UNCHANGED <<host, requested, completed, abandoned, last_abandoned>>

(* Such a call preserves what does not mention the threads. *)
LEMMA CallKeeps ==
  ASSUME Inv, GraphUnchanged, all_graph_completed_event' \in {all_graph_completed_event, FALSE}
  PROVE  /\ GraphTypeOK' /\ PipesPartitioned' /\ LeavesCounted'
         /\ RequestsConserved' /\ PendingHasCarrier' /\ EventMeansIdle'
         /\ HandOver' /\ NormalHasNone'
  <1>. USE DEF Inv, GraphUnchanged
  <1>1. GraphTypeOK'
    BY DEF GraphTypeOK, TypeOK
  <1>2. PipesPartitioned' /\ LeavesCounted'
    <2>1. Busy' = Busy /\ \A p \in Pipe : Unfinished(p)' = Unfinished(p)
      BY DEF Busy, Unfinished
    <2>2. PipesPartitioned'
      BY <2>1 DEF PipesPartitioned
    <2>3. LeavesCounted'
      BY <2>1 DEF LeavesCounted
    <2>. QED  BY <2>2, <2>3
  <1>3. RequestsConserved' /\ PendingHasCarrier' /\ HandOver' /\ NormalHasNone'
    BY DEF RequestsConserved, PendingHasCarrier, HandOver, NormalHasNone
  <1>4. EventMeansIdle'
    BY DEF EventMeansIdle
  <1>. QED  BY <1>1, <1>2, <1>3, <1>4

LEMMA CallInv ==
  ASSUME Inv, NEW c \in Caller,
         ScheduleCall(c) \/ WaitCall(c) \/ WaitEvent(c) \/ WaitTimeout(c) \/ WaitReturn(c)
  PROVE  Inv'
  <1>. USE DEF Inv
  <1>1. CASE ScheduleCall(c)
    <2>1. GraphUnchanged /\ all_graph_completed_event' = all_graph_completed_event
      BY <1>1 DEF ScheduleCall, graph, history, GraphUnchanged
    <2>2. /\ pc' \in [Caller -> {"idle", "schedule", "waiting", "woken"}]
          /\ num' \in [Caller -> Nat] /\ ret' \in [Caller -> Statuses]
          /\ \A d \in Caller : pc'[d] = "woken" => pc[d] = "woken"
          /\ UNCHANGED <<fresh, requested, completed, goal>>
      <3>1. CASE /\ \E n \in Batch \ {0} : num' = [num EXCEPT ![c] = n]
                 /\ pc' = [pc EXCEPT ![c] = "schedule"] /\ ret' = ret
        <4>1. Batch \subseteq Nat
          BY DepthAssumption, ModeAssumption DEF Batch
        <4>. QED  BY <3>1, <4>1, <1>1 DEF ScheduleCall, history, TypeOK
      <3>2. CASE Returns(c, "SUCCESS") /\ num' = num
        BY <3>2, <1>1 DEF Returns, ScheduleCall, history, TypeOK, Statuses
      <3>. QED  BY <3>1, <3>2, <1>1 DEF ScheduleCall
    <2>. QED
      BY <2>1, <2>2, CallKeeps
         DEF TypeOK, GraphTypeOK, GraphUnchanged, WaitCoversRequests, GoalRequested
  <1>2. CASE WaitCall(c)
    <2>1. GraphUnchanged /\ all_graph_completed_event' = all_graph_completed_event
      BY <1>2 DEF WaitCall, graph, GraphUnchanged
    <2>2. /\ pc' \in [Caller -> {"idle", "schedule", "waiting", "woken"}]
          /\ fresh' \in [Caller -> BOOLEAN] /\ goal' \in [Caller -> Nat]
          /\ \A d \in Caller : pc'[d] = "woken" => pc[d] = "woken" /\ goal'[d] = goal[d]
          /\ \A d \in Caller : goal'[d] \in {goal[d], requested}
          /\ num' = num /\ ret' \in [Caller -> Statuses]
      BY <1>2 DEF WaitCall, Returns, TypeOK, Statuses
    <2>3. WaitCoversRequests'
      BY <2>1, <2>2 DEF GraphUnchanged, WaitCoversRequests
    <2>4. GoalRequested'
      <3>. SUFFICES ASSUME NEW d \in Caller PROVE goal'[d] <= requested'
        BY DEF GoalRequested
      <3>1. goal'[d] \in {goal[d], requested} /\ requested' = requested
        BY <2>1, <2>2 DEF GraphUnchanged
      <3>2. goal[d] <= requested /\ requested \in Nat
        BY DEF GoalRequested, TypeOK
      <3>. QED  BY <3>1, <3>2
    <2>5. GraphTypeOK' /\ PipesPartitioned' /\ LeavesCounted'
          /\ RequestsConserved' /\ PendingHasCarrier' /\ EventMeansIdle'
          /\ HandOver' /\ NormalHasNone'
      BY <2>1, CallKeeps
    <2>6. TypeOK'
      BY <2>1, <2>2, <2>5 DEF TypeOK, GraphTypeOK, GraphUnchanged
    <2>. QED  BY <2>3, <2>4, <2>5, <2>6
  <1>3. CASE WaitEvent(c)
    <2>1. GraphUnchanged /\ all_graph_completed_event' = FALSE
      BY <1>3 DEF WaitEvent, history, GraphUnchanged
    <2>2. /\ pc' \in [Caller -> {"idle", "schedule", "waiting", "woken"}]
          /\ \A d \in Caller : pc'[d] = "woken" => pc[d] = "woken" \/ d = c
          /\ UNCHANGED <<num, fresh, ret, goal>>
      BY <1>3 DEF WaitEvent, history, TypeOK
    <2>3. requested = completed
      BY <1>3 DEF WaitEvent, EventMeansIdle, RequestsConserved, TypeOK
    <2>4. WaitCoversRequests' /\ GoalRequested'
      BY <2>1, <2>2, <2>3 DEF GraphUnchanged, WaitCoversRequests, GoalRequested, TypeOK
    <2>. QED
      BY <2>1, <2>2, <2>4, CallKeeps DEF TypeOK, GraphTypeOK, GraphUnchanged
  <1>4. CASE WaitTimeout(c) \/ WaitReturn(c)
    <2>1. GraphUnchanged /\ all_graph_completed_event' = all_graph_completed_event
      BY <1>4 DEF WaitTimeout, WaitReturn, graph, history, GraphUnchanged
    <2>2. /\ pc' \in [Caller -> {"idle", "schedule", "waiting", "woken"}]
          /\ fresh' \in [Caller -> BOOLEAN] /\ ret' \in [Caller -> Statuses]
          /\ \A d \in Caller : pc'[d] = "woken" => pc[d] = "woken"
          /\ UNCHANGED <<num, goal>>
      BY <1>4 DEF WaitTimeout, WaitReturn, Returns, history, TypeOK, Statuses
    <2>. QED
      BY <2>1, <2>2, CallKeeps
         DEF TypeOK, GraphTypeOK, GraphUnchanged, WaitCoversRequests, GoalRequested
  <1>. QED  BY <1>1, <1>2, <1>3, <1>4

-----------------------------------------------------------------------------
(* The theorems. *)

LEMMA InitInv == Init => Inv
  <1>. SUFFICES ASSUME Init PROVE Inv
    OBVIOUS
  <1>. USE DEF Init
  <1>1. Busy = {}
    BY DEF Busy
  <1>2. Len(free_q) = Depth /\ free_q \in Seq(Pipe)
    BY DepthAssumption DEF Pipe
  <1>3. TypeOK
    <2>1. free_q \in Seq(Pipe) /\ graph_state \in States /\ running \subseteq Leaf \X Pipe
      BY <1>2 DEF States
    <2>2. complete_leaf_nodes \in [Pipe -> 0 .. NumLeafNodes - 1]
      BY LeafCount
    <2>3. host \in [at : {"idle", "reschedule", "abandon"}, count : Nat, abandon : SUBSET Pipe]
      BY DEF HostIdle
    <2>4. desc_state \in [Pipe -> States] /\ abandoned \in [Pipe -> BOOLEAN]
      BY DEF States
    <2>5. ret \in [Caller -> Statuses]
      BY DEF Statuses
    <2>. QED  BY <2>1, <2>2, <2>3, <2>4, <2>5 DEF TypeOK
  <1>4. PipesPartitioned
    <2>1. \A p \in Pipe : p + 1 \in 1 .. Depth /\ free_q[p + 1] = p
      BY DepthAssumption DEF Pipe
    <2>2. \A i \in 1 .. Depth : free_q[i] \in Pipe /\ free_q[i] = i - 1
      BY DepthAssumption DEF Pipe
    <2>3. {free_q[i] : i \in 1 .. Depth} = Pipe
      BY <2>1, <2>2
    <2>. QED  BY <1>1, <1>2, <2>2, <2>3, DepthAssumption DEF PipesPartitioned
  <1>5. /\ RequestsConserved /\ PendingHasCarrier /\ WaitCoversRequests
        /\ EventMeansIdle /\ HandOver /\ NormalHasNone /\ GoalRequested
    BY DEF RequestsConserved, PendingHasCarrier, WaitCoversRequests,
           EventMeansIdle, HandOver, NormalHasNone, GoalRequested, HostIdle
  <1>6. LeavesCounted
    BY <1>1 DEF LeavesCounted
  <1>. QED  BY <1>3, <1>4, <1>5, <1>6 DEF Inv

LEMMA NextInv == Inv /\ [Next]_vars => Inv'
  <1>. SUFFICES ASSUME Inv, [Next]_vars PROVE Inv'
    OBVIOUS
  <1>1. CASE HostTask
    BY <1>1, LeafCompletesInv, GraphCompletesInv, RescheduleInv, AbandonInv DEF HostTask
  <1>2. ASSUME NEW c \in Caller, CallerStep(c) PROVE Inv'
    BY <1>2, ScheduleInv, CallInv DEF CallerStep
  <1>3. CASE \E p \in Pipe : InnerAbandon(p)
    BY <1>3, AbandonInv
  <1>4. CASE UNCHANGED vars
    <2>1. UNCHANGED <<free_q, submitted_count, schedule_pending_count, graph_state,
                      desc_state, complete_leaf_nodes, all_graph_completed_event, running,
                      host, pc, num, fresh, ret, requested, completed, goal,
                      abandoned, last_abandoned>>
      BY <1>4 DEF vars, graph, callers, history
    <2>2. GraphUnchanged /\ all_graph_completed_event' = all_graph_completed_event
      BY <2>1 DEF GraphUnchanged
    <2>3. GraphTypeOK' /\ PipesPartitioned' /\ LeavesCounted'
          /\ RequestsConserved' /\ PendingHasCarrier' /\ EventMeansIdle'
          /\ HandOver' /\ NormalHasNone'
      BY <2>2, CallKeeps
    <2>4. TypeOK' /\ WaitCoversRequests' /\ GoalRequested'
      BY <2>1 DEF Inv, TypeOK, WaitCoversRequests, GoalRequested
    <2>. QED  BY <2>3, <2>4 DEF Inv
  <1>. QED  BY <1>1, <1>2, <1>3, <1>4 DEF Next

LEMMA SpecInv == Spec => []Inv
  BY InitInv, NextInv, PTL DEF Spec

(* Types and ranges, in particular that the leaf counter of an id stays    *)
(* below the number of leaf nodes (ownCheckGraphCompleted).                *)
THEOREM TypeCorrect == Spec => []TypeOK
  BY SpecInv, PTL DEF Inv

(* A pipeline id is free once or runs: none is given out twice or lost by  *)
(* ownGraphDequeueFreeObjDesc and ownGraphEnqueueFreeObjDesc.              *)
THEOREM PipesStayPartitioned == Spec => []PipesPartitioned
  BY SpecInv, PTL DEF Inv

(* Every request is completed, runs, is pending or is held by the HOST     *)
(* task, while the graph lock is given up between taking the pending       *)
(* requests and scheduling them (ownCheckGraphCompleted).                  *)
THEOREM NoRequestLost == Spec => []RequestsConserved
  BY SpecInv, PTL DEF Inv

(* What stays pending has an execution in progress that will start it.     *)
THEOREM PendingIsCarried == Spec => []PendingHasCarrier
  BY SpecInv, PTL DEF Inv

(* A thread that vxWaitGraph let through finds complete what had been      *)
(* requested when it began to wait, whatever the other threads scheduled.  *)
THEOREM WaitIsCovered == Spec => []WaitCoversRequests
  BY SpecInv, PTL DEF Inv

-----------------------------------------------------------------------------
(* What a wait reports of an abandoned execution, for one thread and leaf  *)
(* nodes whose callbacks go on.                                            *)

(* The descriptor of an id that runs tells whether a callback abandoned it. *)
DescTells ==
  \A p \in Busy : desc_state[p] = IF abandoned[p] THEN "ABANDONED" ELSE "RUNNING"

(* When the last execution is over the graph tells the same of it. *)
GraphTells ==
  submitted_count = 0 /\ completed > 0 =>
    graph_state = IF last_abandoned THEN "ABANDONED" ELSE "COMPLETED"

(* The event comes after an execution, and the only thread, awake, has the *)
(* graph to itself.                                                        *)
AloneWhenWoken ==
  /\ all_graph_completed_event => completed > 0
  /\ \A c \in Caller : pc[c] = "woken" =>
       submitted_count = 0 /\ schedule_pending_count = 0 /\ host.count = 0 /\ completed > 0

NoneToAbandon == host.at # "abandon" /\ host.abandon = {}

TellsInv == DescTells /\ GraphTells /\ AloneWhenWoken /\ NoneToAbandon

(* ownGraphScheduleGraph: the descriptors it takes start anew, and the graph *)
(* stays as it is when none is free or nothing was asked for.                *)
LEMMA ScheduleGraphTells ==
  ASSUME Inv, DescTells, GraphTells, all_graph_completed_event => completed > 0,
         NEW n \in Nat, ScheduleGraph(n), UNCHANGED <<completed, last_abandoned>>
  PROVE  DescTells' /\ GraphTells' /\ (all_graph_completed_event' => completed' > 0)
  <1>. DEFINE k == Started(n)
              taken == Taken(k)
  <1>1. TypeOK /\ PipesPartitioned /\ EventMeansIdle
    BY DEF Inv
  <1>2. k \in Nat /\ k <= Len(free_q) /\ Len(free_q) \in Nat
    BY <1>1, StartedIs DEF TypeOK
  <1>3. k \in 0 .. Len(free_q)
    BY <1>2
  <1>4. /\ submitted_count' = submitted_count + k
        /\ graph_state' = IF k > 0 THEN "RUNNING" ELSE graph_state
        /\ desc_state' = [p \in Pipe |-> IF p \in taken THEN "RUNNING" ELSE desc_state[p]]
        /\ all_graph_completed_event' = EventAfterStart(k)
        /\ running' = running \cup Leaf \X taken
        /\ abandoned' = [p \in Pipe |-> p \notin taken /\ abandoned[p]]
    BY DEF ScheduleGraph, Taken
  <1>. HIDE DEF k, taken
  <1>5. taken \subseteq Pipe \ Busy
    BY <1>1, <1>3, TakenIds DEF taken
  <1>6. Busy' \subseteq Busy \cup taken
    BY <1>4 DEF Busy
  <1>7. DescTells'
    <2>. SUFFICES ASSUME NEW p \in Busy'
                  PROVE  desc_state'[p] = IF abandoned'[p] THEN "ABANDONED" ELSE "RUNNING"
      BY DEF DescTells
    <2>1. p \in Pipe
      BY DEF Busy
    <2>2. CASE p \in taken
      BY <1>4, <2>1, <2>2
    <2>3. CASE p \notin taken
      <3>1. p \in Busy
        BY <1>6, <2>3
      <3>2. desc_state[p] = IF abandoned[p] THEN "ABANDONED" ELSE "RUNNING"
        BY <3>1 DEF DescTells
      <3>. QED  BY <3>2, <1>4, <2>1, <2>3
    <2>. QED  BY <2>2, <2>3
  <1>8. GraphTells'
    <2>. SUFFICES ASSUME submitted_count' = 0, completed > 0
                  PROVE  graph_state' = IF last_abandoned THEN "ABANDONED" ELSE "COMPLETED"
      BY DEF GraphTells
    <2>1. submitted_count \in Nat
      BY <1>1 DEF TypeOK
    <2>2. k = 0 /\ submitted_count = 0
      BY <1>2, <1>4, <2>1
    <2>. QED  BY <2>2, <1>4 DEF GraphTells
  <1>9. all_graph_completed_event' => completed' > 0
    BY <1>4 DEF EventAfterStart
  <1>. QED  BY <1>7, <1>8, <1>9

(* A completion that leaves an execution running leaves its descriptor alone. *)
LEMMA LeafCompletesTells ==
  ASSUME Inv, TellsInv, NEW l \in Leaf, NEW p \in Pipe, LeafCompletes(l, p, "CONTINUE")
  PROVE  TellsInv'
  <1>1. /\ running' = running \ {<<l, p>>}
        /\ abandoned' = [abandoned EXCEPT ![p] = @ \/ FALSE]
        /\ host' = [at |-> "idle", count |-> 0, abandon |-> {}]
        /\ UNCHANGED <<submitted_count, schedule_pending_count, graph_state, desc_state,
                       all_graph_completed_event, pc, completed, last_abandoned>>
    BY DEF LeafCompletes, CountLeaf, callers, ToAbandon
  <1>2. abandoned \in [Pipe -> BOOLEAN]
    BY DEF Inv, TypeOK
  <1>3. \A r \in Pipe : abandoned'[r] = abandoned[r]
    BY <1>1, <1>2
  <1>4. Busy' \subseteq Busy /\ Busy \subseteq Pipe
    BY <1>1 DEF Busy
  <1>5. DescTells'
    BY <1>1, <1>3, <1>4 DEF TellsInv, DescTells
  <1>6. GraphTells' /\ AloneWhenWoken' /\ NoneToAbandon'
    BY <1>1 DEF TellsInv, GraphTells, AloneWhenWoken, NoneToAbandon
  <1>. QED  BY <1>5, <1>6 DEF TellsInv

(* The last completion of an execution hands its descriptor's state on to the *)
(* graph when no other execution is underway.                                 *)
LEMMA GraphCompletesTells ==
  ASSUME Inv, TellsInv, NEW l \in Leaf, NEW p \in Pipe, GraphCompletes(l, p, "CONTINUE")
  PROVE  TellsInv'
  <1>. DEFINE state == StateAfterRun(p)
  <1>1. <<l, p>> \in running /\ complete_leaf_nodes[p] + 1 = NumLeafNodes
    BY DEF GraphCompletes, CompleteGraph
  <1>2. /\ p \in Busy /\ l \in Unfinished(p)
        /\ IsFiniteSet(Unfinished(p)) /\ Cardinality(Unfinished(p)) \in Nat \ {0}
        /\ complete_leaf_nodes[p] = NumLeafNodes - Cardinality(Unfinished(p))
    BY <1>1, UnfinishedIs DEF Inv
  <1>3. /\ submitted_count' = submitted_count - 1
        /\ desc_state' = [desc_state EXCEPT ![p] = state]
        /\ graph_state' = IF submitted_count - 1 = 0 THEN state ELSE graph_state
        /\ host' = [at |-> IF schedule_pending_count > 0 THEN "reschedule" ELSE "idle",
                    count |-> schedule_pending_count, abandon |-> {}]
        /\ running' = running \ {<<l, p>>}
        /\ completed' = completed + 1
        /\ abandoned' = [abandoned EXCEPT ![p] = @ \/ FALSE]
        /\ last_abandoned' = abandoned'[p]
        /\ pc' = pc
    BY DEF GraphCompletes, CompleteGraph, TakenOver, callers, ToAbandon
  <1>4. submitted_count > 0
    BY <1>2, BusyIsSubmitted DEF Inv
  <1>5. /\ submitted_count \in Nat /\ completed \in Nat
        /\ abandoned \in [Pipe -> BOOLEAN] /\ desc_state \in [Pipe -> States]
    BY DEF Inv, TypeOK
  <1>6. \A r \in Pipe : abandoned'[r] = abandoned[r]
    BY <1>3, <1>5
  <1>7. desc_state[p] = IF abandoned[p] THEN "ABANDONED" ELSE "RUNNING"
    BY <1>2 DEF TellsInv, DescTells
  <1>8. state = IF abandoned[p] THEN "ABANDONED" ELSE "COMPLETED"
    BY <1>7 DEF StateAfterRun
  <1>. HIDE DEF state
  <1>9. Busy' \subseteq Busy \ {p} /\ Busy \subseteq Pipe
    <2>1. Unfinished(p) = {l}
      <3>1. Cardinality(Unfinished(p)) = 1
        BY <1>1, <1>2, LeafCount
      <3>. QED  BY <3>1, <1>2, FS_Singleton
    <2>2. p \notin Busy'
      BY <2>1, <1>3 DEF Busy, Unfinished
    <2>3. Busy' \subseteq Busy /\ Busy \subseteq Pipe
      BY <1>3 DEF Busy
    <2>. QED  BY <2>2, <2>3
  <1>10. DescTells'
    <2>. SUFFICES ASSUME NEW r \in Busy'
                  PROVE  desc_state'[r] = IF abandoned'[r] THEN "ABANDONED" ELSE "RUNNING"
      BY DEF DescTells
    <2>1. r \in Busy /\ r # p /\ r \in Pipe
      BY <1>9
    <2>2. desc_state[r] = IF abandoned[r] THEN "ABANDONED" ELSE "RUNNING"
      BY <2>1 DEF TellsInv, DescTells
    <2>3. desc_state'[r] = desc_state[r] /\ abandoned'[r] = abandoned[r]
      BY <2>1, <1>3, <1>5, <1>6
    <2>. QED  BY <2>2, <2>3
  <1>11. GraphTells'
    <2>. SUFFICES ASSUME submitted_count' = 0
                  PROVE  graph_state' = IF last_abandoned' THEN "ABANDONED" ELSE "COMPLETED"
      BY DEF GraphTells
    <2>1. graph_state' = state
      BY <1>3
    <2>2. last_abandoned' = abandoned[p]
      BY <1>3, <1>6
    <2>. QED  BY <2>1, <2>2, <1>8
  <1>12. completed' > 0
    BY <1>3, <1>5
  <1>13. \A c \in Caller : pc'[c] # "woken"
    BY <1>3, <1>4, <1>5 DEF TellsInv, AloneWhenWoken
  <1>14. AloneWhenWoken' /\ NoneToAbandon'
    BY <1>3, <1>12, <1>13 DEF AloneWhenWoken, NoneToAbandon
  <1>. QED  BY <1>10, <1>11, <1>14 DEF TellsInv

(* While the HOST task holds requests no thread is awake. *)
LEMMA RescheduleTells ==
  ASSUME Inv, TellsInv, Reschedule
  PROVE  TellsInv'
  <1>1. /\ host.at = "reschedule" /\ ScheduleGraph(host.count)
        /\ host' = [host EXCEPT !.at = IF host.abandon # {} THEN "abandon" ELSE "idle",
                                !.count = 0]
        /\ UNCHANGED <<pc, completed, last_abandoned>>
    BY DEF Reschedule, callers
  <1>2. host \in [at : {"idle", "reschedule", "abandon"}, count : Nat, abandon : SUBSET Pipe]
    BY DEF Inv, TypeOK
  <1>3. host.count \in Nat \ {0}
    BY <1>1, <1>2 DEF Inv, HandOver
  <1>4. DescTells' /\ GraphTells' /\ (all_graph_completed_event' => completed' > 0)
    BY <1>1, <1>3, ScheduleGraphTells DEF TellsInv, AloneWhenWoken
  <1>5. \A c \in Caller : pc'[c] # "woken"
    BY <1>1, <1>3 DEF TellsInv, AloneWhenWoken
  <1>6. AloneWhenWoken'
    BY <1>4, <1>5 DEF AloneWhenWoken
  <1>7. NoneToAbandon'
    BY <1>1, <1>2 DEF TellsInv, NoneToAbandon
  <1>. QED  BY <1>4, <1>6, <1>7 DEF TellsInv

(* The callback of an inner node abandons an execution whose leaf nodes are *)
(* still to complete: its descriptor says so before they do.                *)
LEMMA InnerAbandonTells ==
  ASSUME Inv, TellsInv, NEW p \in Pipe, InnerAbandon(p)
  PROVE  TellsInv'
  <1>1. /\ p \in Busy
        /\ desc_state' = [desc_state EXCEPT ![p] = "ABANDONED"]
        /\ abandoned' = [abandoned EXCEPT ![p] = TRUE]
        /\ UNCHANGED <<submitted_count, schedule_pending_count, graph_state, running, host,
                       all_graph_completed_event, pc, completed, last_abandoned>>
    BY DEF InnerAbandon, callers
  <1>2. abandoned \in [Pipe -> BOOLEAN] /\ desc_state \in [Pipe -> States]
    BY DEF Inv, TypeOK
  <1>3. Busy' = Busy /\ Busy \subseteq Pipe
    BY <1>1 DEF Busy
  <1>4. DescTells'
    <2>. SUFFICES ASSUME NEW r \in Busy
                  PROVE  desc_state'[r] = IF abandoned'[r] THEN "ABANDONED" ELSE "RUNNING"
      BY <1>3 DEF DescTells
    <2>1. desc_state[r] = IF abandoned[r] THEN "ABANDONED" ELSE "RUNNING"
      BY DEF TellsInv, DescTells
    <2>. QED  BY <2>1, <1>1, <1>2, <1>3
  <1>5. GraphTells' /\ AloneWhenWoken' /\ NoneToAbandon'
    BY <1>1 DEF TellsInv, GraphTells, AloneWhenWoken, NoneToAbandon
  <1>. QED  BY <1>4, <1>5 DEF TellsInv

(* The calls of the only thread; it is not awake while it schedules. *)
LEMMA CallerTells ==
  ASSUME Inv, TellsInv, \A a, b \in Caller : a = b, NEW c \in Caller, CallerStep(c)
  PROVE  TellsInv'
  <1>1. pc \in [Caller -> {"idle", "schedule", "waiting", "woken"}]
    BY DEF Inv, TypeOK
  <1>2. CASE Schedule(c)
    <2>1. /\ pc[c] = "schedule" /\ ScheduleGraph(num[c])
          /\ pc' = [pc EXCEPT ![c] = "idle"]
          /\ UNCHANGED <<host, completed, last_abandoned>>
      BY <1>2 DEF Schedule, Returns
    <2>2. num[c] \in Nat
      BY DEF Inv, TypeOK
    <2>3. DescTells' /\ GraphTells' /\ (all_graph_completed_event' => completed' > 0)
      BY <2>1, <2>2, ScheduleGraphTells DEF TellsInv, AloneWhenWoken
    <2>4. \A d \in Caller : pc'[d] # "woken"
      BY <2>1, <1>1
    <2>5. AloneWhenWoken'
      BY <2>3, <2>4 DEF AloneWhenWoken
    <2>6. NoneToAbandon'
      BY <2>1 DEF TellsInv, NoneToAbandon
    <2>. QED  BY <2>3, <2>5, <2>6 DEF TellsInv
  <1>3. ASSUME GraphUnchanged, all_graph_completed_event' \in {all_graph_completed_event, FALSE},
               \A d \in Caller : pc'[d] = "woken" =>
                 pc[d] = "woken" \/ all_graph_completed_event
        PROVE  TellsInv'
    <2>1. Busy' = Busy
      BY <1>3 DEF GraphUnchanged, Busy
    <2>2. DescTells' /\ GraphTells' /\ NoneToAbandon'
      BY <1>3, <2>1 DEF GraphUnchanged, TellsInv, DescTells, GraphTells, NoneToAbandon
    <2>3. AloneWhenWoken'
      <3>1. all_graph_completed_event =>
              submitted_count = 0 /\ schedule_pending_count = 0 /\ host.count = 0
        BY DEF Inv, EventMeansIdle
      <3>2. AloneWhenWoken
        BY DEF TellsInv
      <3>3. UNCHANGED <<submitted_count, schedule_pending_count, host, completed>>
        BY <1>3 DEF GraphUnchanged
      <3>4. all_graph_completed_event' => completed' > 0
        BY <1>3, <3>2, <3>3 DEF AloneWhenWoken
      <3>5. ASSUME NEW d \in Caller, pc'[d] = "woken"
            PROVE  /\ submitted_count' = 0 /\ schedule_pending_count' = 0
                   /\ host'.count = 0 /\ completed' > 0
        <4>1. CASE pc[d] = "woken"
          BY <4>1, <3>2, <3>3 DEF AloneWhenWoken
        <4>2. CASE all_graph_completed_event
          BY <4>2, <3>1, <3>2, <3>3 DEF AloneWhenWoken
        <4>. QED  BY <4>1, <4>2, <3>5, <1>3
      <3>. QED  BY <3>4, <3>5 DEF AloneWhenWoken
    <2>. QED  BY <2>2, <2>3 DEF TellsInv
  <1>4. CASE ScheduleCall(c)
    <2>1. GraphUnchanged /\ all_graph_completed_event' = all_graph_completed_event
      BY <1>4 DEF ScheduleCall, graph, history, GraphUnchanged
    <2>2. \A d \in Caller : pc'[d] = "woken" => pc[d] = "woken"
      BY <1>1, <1>4 DEF ScheduleCall, Returns
    <2>. QED  BY <2>1, <2>2, <1>3
  <1>5. CASE WaitCall(c)
    <2>1. GraphUnchanged /\ all_graph_completed_event' = all_graph_completed_event
      BY <1>5 DEF WaitCall, graph, GraphUnchanged
    <2>2. \A d \in Caller : pc'[d] = "woken" => pc[d] = "woken"
      BY <1>1, <1>5 DEF WaitCall, Returns
    <2>. QED  BY <2>1, <2>2, <1>3
  <1>6. CASE WaitEvent(c)
    <2>1. GraphUnchanged /\ all_graph_completed_event' = FALSE /\ all_graph_completed_event
      BY <1>6 DEF WaitEvent, history, GraphUnchanged
    <2>. QED  BY <2>1, <1>3
  <1>7. CASE WaitTimeout(c) \/ WaitReturn(c)
    <2>1. GraphUnchanged /\ all_graph_completed_event' = all_graph_completed_event
      BY <1>7 DEF WaitTimeout, WaitReturn, graph, history, GraphUnchanged
    <2>2. \A d \in Caller : pc'[d] = "woken" => pc[d] = "woken"
      BY <1>1, <1>7 DEF WaitTimeout, WaitReturn, Returns
    <2>. QED  BY <2>1, <2>2, <1>3
  <1>. QED  BY <1>2, <1>4, <1>5, <1>6, <1>7 DEF CallerStep

LEMMA InitTells == Init => TellsInv
  <1>. SUFFICES ASSUME Init PROVE TellsInv
    OBVIOUS
  <1>1. Busy = {}
    BY DEF Init, Busy
  <1>. QED
    BY <1>1 DEF Init, HostIdle, TellsInv, DescTells, GraphTells, AloneWhenWoken, NoneToAbandon

LEMMA NextTells ==
  ASSUME ~LeafAbandons, \A a, b \in Caller : a = b, Inv, TellsInv, [Next]_vars
  PROVE  TellsInv'
  <1>1. CASE HostTask
    <2>1. LeafActions = {"CONTINUE"}
      BY DEF LeafActions
    <2>2. ~SetAbandon
      BY DEF SetAbandon, TellsInv, NoneToAbandon
    <2>. QED
      BY <1>1, <2>1, <2>2, LeafCompletesTells, GraphCompletesTells, RescheduleTells DEF HostTask
  <1>2. ASSUME NEW c \in Caller, CallerStep(c) PROVE TellsInv'
    BY <1>2, CallerTells
  <1>3. CASE \E p \in Pipe : InnerAbandon(p)
    BY <1>3, InnerAbandonTells
  <1>4. CASE UNCHANGED vars
    <2>1. UNCHANGED <<submitted_count, schedule_pending_count, graph_state, desc_state, running,
                      all_graph_completed_event, host, pc, completed, abandoned, last_abandoned>>
      BY <1>4 DEF vars, graph, callers, history
    <2>2. Busy' = Busy
      BY <2>1 DEF Busy
    <2>. QED
      BY <2>1, <2>2 DEF TellsInv, DescTells, GraphTells, AloneWhenWoken, NoneToAbandon
  <1>. QED  BY <1>1, <1>2, <1>3, <1>4 DEF Next

(* Only the return of the wait takes a thread that is awake back to idle. *)
LEMMA ReturnTells ==
  ASSUME Inv, TellsInv, [Next]_vars,
         NEW c \in Caller, pc[c] = "woken", pc'[c] = "idle"
  PROVE  ret'[c] = "ABANDONED" <=> last_abandoned
  <1>1. /\ pc \in [Caller -> {"idle", "schedule", "waiting", "woken"}]
        /\ ret \in [Caller -> Statuses]
    BY DEF Inv, TypeOK
  <1>2. pc' # pc
    BY <1>1
  <1>3. ~UNCHANGED vars /\ ~HostTask /\ ~(\E p \in Pipe : InnerAbandon(p))
    <2>1. ~UNCHANGED vars
      BY <1>2 DEF vars, callers
    <2>2. ~HostTask
      BY <1>2 DEF HostTask, LeafCompletes, CountLeaf, GraphCompletes, Reschedule, SetAbandon, callers
    <2>3. ~(\E p \in Pipe : InnerAbandon(p))
      BY <1>2 DEF InnerAbandon, callers
    <2>. QED  BY <2>1, <2>2, <2>3
  <1>4. PICK d \in Caller : CallerStep(d)
    BY <1>3 DEF Next
  <1>5. WaitReturn(c)
    <2>1. /\ Schedule(d) \/ ScheduleCall(d) => pc[d] \in {"idle", "schedule"}
          /\ WaitCall(d) \/ WaitEvent(d) \/ WaitTimeout(d) => pc[d] \in {"idle", "waiting"}
      BY DEF Schedule, ScheduleCall, WaitCall, WaitEvent, WaitTimeout
    <2>2. \A e \in Caller \ {d} : pc'[e] = pc[e]
      BY <1>1, <1>4 DEF CallerStep, Schedule, ScheduleCall, WaitCall, WaitEvent, WaitTimeout,
                        WaitReturn, Returns
    <2>3. d = c
      BY <2>2
    <2>. QED  BY <1>4, <2>1, <2>3 DEF CallerStep
  <1>6. ret'[c] = IF graph_state = "ABANDONED" THEN "ABANDONED" ELSE "SUCCESS"
    BY <1>1, <1>5 DEF WaitReturn, Returns
  <1>7. graph_state = IF last_abandoned THEN "ABANDONED" ELSE "COMPLETED"
    BY DEF TellsInv, AloneWhenWoken, GraphTells
  <1>. QED  BY <1>6, <1>7

(* With one thread that schedules and waits and leaf nodes whose callbacks *)
(* go on, vxWaitGraph returns VX_ERROR_GRAPH_ABANDONED exactly if a        *)
(* callback abandoned the execution that completed last.                   *)
THEOREM AbandonIsReported ==
  ASSUME ~LeafAbandons, \A a, b \in Caller : a = b
  PROVE  Spec => AbandonReported
  <1>1. Inv /\ TellsInv /\ [Next]_vars => TellsInv'
    BY NextTells
  <1>2. Inv /\ TellsInv /\ [Next]_vars =>
          [\A c \in Caller : pc[c] = "woken" /\ pc'[c] = "idle" =>
             (ret'[c] = "ABANDONED" <=> last_abandoned)]_vars
    BY ReturnTells
  <1>. QED  BY <1>1, <1>2, InitTells, SpecInv, PTL DEF Spec, AbandonReported

=============================================================================

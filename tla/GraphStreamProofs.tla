-------------------------- MODULE GraphStreamProofs --------------------------
(***************************************************************************)
(* For every pipeline depth, every set of leaf nodes and of those that     *)
(* wait for the trigger node, every number of other threads, every size of *)
(* the event queue from 4 on and every number of timeouts: what streaming  *)
(* promises.  The argument counts.  A round is what will make the task     *)
(* schedule the graph again: an event in the queue, or an execution that   *)
(* has yet to send it.  As long as its waits end in time, no step makes or *)
(* loses one while the graph streams, so it stays at the one that START    *)
(* brought (and the late one of a leaf).  And as there are few rounds      *)
(* there are few events, so that there is always room for the next.  A     *)
(* wait that times out ends the counting, not what Base says.              *)
(***************************************************************************)
EXTENDS GraphStream, Integers, FiniteSetTheorems, SequenceTheorems, TLAPS

-----------------------------------------------------------------------------
(* Queues whose elements are all different                                 *)

(* Putting an element at the end adds it to the set. *)
LEMMA Appended ==
  ASSUME NEW T, NEW s \in Seq(T), NEW e \in T
  PROVE  /\ Append(s, e) \in Seq(T)
         /\ Range(Append(s, e)) = Range(s) \cup {e}
         /\ IsInjective(s) /\ e \notin Range(s) => IsInjective(Append(s, e))
  <1>1. /\ Append(s, e) \in Seq(T) /\ Len(Append(s, e)) = Len(s) + 1
        /\ \A i \in 1 .. Len(s) : Append(s, e)[i] = s[i]
        /\ Append(s, e)[Len(s) + 1] = e
    OBVIOUS
  <1>2. /\ DOMAIN s = 1 .. Len(s) /\ Len(s) \in Nat
        /\ DOMAIN Append(s, e) = 1 .. (Len(s) + 1)
    BY <1>1, LenProperties
  <1>3. \A i \in 1 .. (Len(s) + 1) : i \in 1 .. Len(s) \/ i = Len(s) + 1
    BY <1>2
  <1>4. Len(s) + 1 \in 1 .. (Len(s) + 1) /\ 1 .. Len(s) \subseteq 1 .. (Len(s) + 1)
    BY <1>2
  <1>5. Range(Append(s, e)) \subseteq Range(s) \cup {e}
    BY <1>1, <1>2, <1>3 DEF Range
  <1>6. Range(s) \cup {e} \subseteq Range(Append(s, e))
    <2>1. e \in Range(Append(s, e))
      BY <1>1, <1>2, <1>4 DEF Range
    <2>2. ASSUME NEW x \in Range(s) PROVE x \in Range(Append(s, e))
      <3>1. PICK i \in 1 .. Len(s) : x = s[i]
        BY <1>2, <2>2 DEF Range
      <3>2. i \in DOMAIN Append(s, e) /\ Append(s, e)[i] = x
        BY <1>1, <1>2, <1>4, <3>1
      <3>. QED  BY <3>2 DEF Range
    <2>. QED  BY <2>1, <2>2
  <1>7. ASSUME IsInjective(s), e \notin Range(s)  PROVE IsInjective(Append(s, e))
    BY <1>1, <1>2, <1>7 DEF Range, IsInjective
  <1>. QED  BY <1>1, <1>5, <1>6, <1>7

(* A queue without doubles is as long as it has elements. *)
LEMMA LenIsCardinality ==
  ASSUME NEW T, NEW s \in Seq(T), IsInjective(s)
  PROVE  IsFiniteSet(Range(s)) /\ Cardinality(Range(s)) = Len(s) /\ Range(s) \subseteq T
  <1>1. DOMAIN s = 1 .. Len(s) /\ Len(s) \in Nat
    BY LenProperties
  <1>2. IsFiniteSet(1 .. Len(s)) /\ Cardinality(1 .. Len(s)) = Len(s)
    BY <1>1, FS_Interval
  <1>3. s \in Bijection(1 .. Len(s), Range(s))
    <2>1. s \in [1 .. Len(s) -> Range(s)]
      BY <1>1 DEF Range
    <2>. QED  BY <1>1, <2>1 DEF Bijection, Injection, Surjection, IsInjective, Range
  <1>4. ExistsBijection(1 .. Len(s), Range(s))
    BY <1>3 DEF ExistsBijection
  <1>5. Range(s) \subseteq T
    BY <1>1 DEF Range
  <1>. QED  BY <1>2, <1>4, <1>5, FS_Bijection

(* The first k elements. *)
Leading(s, k) == {s[i] : i \in 1 .. k}

(* Taking them leaves the others, and without doubles they are k. *)
LEMMA LeadingRemoved ==
  ASSUME NEW T, NEW s \in Seq(T), IsInjective(s), NEW k \in 0 .. Len(s)
  PROVE  LET rest == SubSeq(s, k + 1, Len(s))
             leading == Leading(s, k)
         IN  /\ rest \in Seq(T) /\ Len(rest) = Len(s) - k /\ IsInjective(rest)
             /\ Range(rest) \subseteq Range(s) /\ Range(rest) \cap leading = {}
             /\ leading \subseteq Range(s) /\ IsFiniteSet(leading) /\ Cardinality(leading) = k
<1> DEFINE n == Len(s)
           rest == SubSeq(s, k + 1, n)
           head == SubSeq(s, 1, k)
           leading == Leading(s, k)
<1>1. n \in Nat /\ k \in Nat /\ k <= n /\ DOMAIN s = 1 .. n /\ \A i \in 1 .. n : s[i] \in T
  BY LenProperties
<1>2. \A i, j \in 1 .. n : s[i] = s[j] => i = j
  BY <1>1 DEF IsInjective
<1>3. /\ rest \in Seq(T) /\ Len(rest) = n - k
      /\ \A i \in 1 .. n - k : rest[i] = s[k + i]
  <2>1. \A i \in k + 1 .. n : s[i] \in T
    BY <1>1
  <2> HIDE DEF n
  <2>2. k + 1 \in Int /\ n \in Int /\ n - (k + 1) + 1 = n - k
        /\ (IF k + 1 <= n THEN n - (k + 1) + 1 ELSE 0) = n - k
    BY <1>1
  <2>3. \A i \in 1 .. n - k : (k + 1) + i - 1 = k + i
    BY <1>1
  <2> QED BY <2>1, <2>2, <2>3, SubSeqProperties
<1>4. /\ head \in Seq(T) /\ Len(head) = k
      /\ \A i \in 1 .. k : head[i] = s[i]
  <2>1. \A i \in 1 .. k : s[i] \in T
    BY <1>1
  <2>2. k - 1 + 1 = k /\ (IF 1 <= k THEN k - 1 + 1 ELSE 0) = k /\ \A i \in 1 .. k : 1 + i - 1 = i
    BY <1>1
  <2> QED BY <1>1, <2>1, <2>2, SubSeqProperties
<1> HIDE DEF n, rest, head
<1>5. DOMAIN rest = 1 .. n - k /\ DOMAIN head = 1 .. k
  BY <1>3, <1>4, LenProperties
<1>6. IsInjective(rest)
  <2> SUFFICES ASSUME NEW i \in 1 .. n - k, NEW j \in 1 .. n - k, rest[i] = rest[j]
               PROVE  i = j
    BY <1>5 DEF IsInjective
  <2>1. k + i \in 1 .. n /\ k + j \in 1 .. n
    BY <1>1
  <2>2. k + i = k + j
    BY <1>2, <1>3, <2>1
  <2> QED BY <1>1, <2>2
<1>7. Range(rest) \subseteq Range(s) /\ Range(rest) \cap leading = {}
  <2> SUFFICES ASSUME NEW i \in 1 .. n - k  PROVE rest[i] \in Range(s) /\ rest[i] \notin leading
    BY <1>5 DEF Range
  <2>1. rest[i] = s[k + i] /\ k + i \in 1 .. n /\ \A j \in 1 .. k : j \in 1 .. n /\ j # k + i
    BY <1>1, <1>3
  <2> QED BY <1>1, <1>2, <2>1 DEF Range, Leading
<1>8. leading \subseteq Range(s)
  BY <1>1 DEF Range, Leading
<1>9. Range(head) = leading
  BY <1>4, <1>5 DEF Range, Leading
<1>10. IsInjective(head)
  BY <1>1, <1>2, <1>4, <1>5 DEF IsInjective
<1>11. IsFiniteSet(leading) /\ Cardinality(leading) = k
  BY <1>4, <1>9, <1>10, LenIsCardinality
<1> QED BY <1>3, <1>6, <1>7, <1>8, <1>11 DEF rest, n

-----------------------------------------------------------------------------
(* The inductive invariant: the graph                                      *)

(* The leaf nodes that have yet to complete for p. *)
Unfinished(p) == {l \in Leaf : <<l, p>> \in running}

(* The counter of p counts the leaf nodes that completed; an id at rest has 0. *)
LeavesCounted ==
  \A p \in Pipe : complete_leaf_nodes[p] =
    IF p \in S!Busy THEN S!NumLeafNodes - Cardinality(Unfinished(p)) ELSE 0

(* The types, and that an id is free once or runs. *)
GraphTypes ==
  /\ pipeline_depth \in 1 .. Depth
  /\ trigger \subseteq Leaf /\ trigger # {} /\ trigger_is_leaf \in BOOLEAN
  /\ trigger_is_leaf => \E l \in Leaf : trigger = {l}
  /\ free_q \in Seq(Pipe) /\ IsInjective(free_q)
  /\ running \subseteq Leaf \X Pipe
  /\ Range(free_q) \cap S!Busy = {}
  /\ submitted_count \in Nat /\ submitted_count = Cardinality(S!Busy)
  /\ Len(free_q) + submitted_count = pipeline_depth
  /\ schedule_pending_count \in Nat
  /\ graph_state \in S!States /\ desc_state \in [Pipe -> S!States]
  /\ complete_leaf_nodes \in [Pipe -> 0 .. S!NumLeafNodes - 1] /\ LeavesCounted
  /\ all_graph_completed_event \in BOOLEAN

(* The leaf nodes that wait for the trigger node complete after it.          *)
HostTypes ==
  /\ host \in [at : {"idle", "reschedule"}, count : Nat, abandon : {{}}]
  /\ host.at = "reschedule" <=> host.count > 0
  /\ untriggered \subseteq Pipe
  /\ \A p \in untriggered, l \in trigger : <<l, p>> \in running
  /\ notify \in BOOLEAN
  /\ notify => trigger_is_leaf

(* The other variables. *)
StreamTypes ==
  /\ stream_state \in {"IDLE", "RUNNING"}
  /\ task \in {"get", "wait_run", "wait_stop", "wait_delete", "ended"}
  /\ executions \in 0 .. 1
  /\ is_streaming \in BOOLEAN /\ stop_done \in BOOLEAN /\ delete_done \in BOOLEAN
  /\ app \in {"idle", "stopping", "releasing", "released"}
  /\ event_q \in Seq(Events)
  /\ timeouts \in Nat

(* Nothing runs, nothing waits to run. *)
Quiet == submitted_count = 0 /\ schedule_pending_count = 0 /\ host.count = 0

(* What runs has started (ownGraphScheduleGraph), and the event says that    *)
(* all is complete.                                                          *)
GraphHolds ==
  /\ graph_state = "RUNNING" => submitted_count > 0
  /\ submitted_count > 0 \/ schedule_pending_count = 0
  /\ all_graph_completed_event => Quiet
  /\ ~Pipelining => untriggered = {} /\ ~notify

(* Which of its waits the streaming task is in. *)
TaskHolds ==
  /\ task = "wait_run" => ~Pipelining
  /\ task = "wait_stop" => stream_state = "IDLE"

(* A completion that is gone and nobody took has not been waited for. *)
NotMissed ==
  /\ task \in {"wait_run", "wait_stop"} \/ (Pipelining /\ stream_state = "RUNNING")
  /\ Quiet /\ ~all_graph_completed_event
  => taken

(* What holds whether or not waits end by the timeout. *)
Base == GraphTypes /\ HostTypes /\ StreamTypes /\ GraphHolds /\ TaskHolds /\ NotMissed

(* Without pipelining an execution is waited for before the next; a timeout  *)
(* ends that.                                                                *)
Alone ==
  ~Pipelining => /\ schedule_pending_count = 0 /\ host.count = 0
                 /\ submitted_count > 0 => task = "wait_run"

GraphRuns == GraphHolds /\ Alone

-----------------------------------------------------------------------------
(* The inductive invariant: the queue of events                            *)

(* The event that makes the task schedule again. *)
Tick == IF Pipelining THEN "STREAMING_EVENT" ELSE "RUN"

(* What the application waits for when it has called. *)
EndCall == IF app = "stopping" THEN "STOP" ELSE "DELETE"

(* START is at `start' and STOP or DELETE at `end', 0 for nowhere; all the   *)
(* other events are ticks.                                                   *)
QueueIs(start, end) ==
  /\ start \in 0 .. Len(event_q) /\ end \in 0 .. Len(event_q)
  /\ start > 0 /\ end > 0 => start < end
  /\ \A i \in 1 .. Len(event_q) :
       event_q[i] = IF i = start THEN "START" ELSE IF i = end THEN EndCall ELSE Tick

One(i) == IF i > 0 THEN 1 ELSE 0

(* The ticks, and those of them behind START. *)
Ticks(start, end) == Len(event_q) - One(start) - One(end)
LateTicks(start, end) == Len(event_q) - start - One(end)

(* The rounds that are not in the queue. *)
UnderWay ==
  IF Pipelining
  THEN Cardinality(untriggered) + schedule_pending_count + host.count + IF notify THEN 1 ELSE 0
  ELSE IF task = "wait_run" THEN 1 ELSE 0

(* How many rounds a graph that streams may have. *)
Fine(rounds) == rounds = 1 \/ (Pipelining /\ trigger_is_leaf /\ rounds = 2)

(* When START comes to the head the ticks before it have been ignored, and    *)
(* what it adds makes the rounds of the graph that streams then.              *)
RoundsHold(start, end) ==
  /\ Ticks(start, end) + UnderWay <= 2
  /\ stream_state = "RUNNING" => Fine(Ticks(start, end) + UnderWay)
  /\ start > 0 => Fine(LateTicks(start, end) + UnderWay + 1)

(* How far the calls of the application have come with the task. *)
CallsHold(start, end) ==
  /\ stream_state = "RUNNING" => is_streaming /\ start = 0
  /\ start > 0 => Quiet /\ task = "get" /\ is_streaming
  /\ end > 0 => task \in {"get", "wait_run"} /\ app \in {"stopping", "releasing"}
  /\ is_streaming /\ start = 0 /\ (app = "idle" \/ end > 0) => stream_state = "RUNNING"
  /\ ~is_streaming => Quiet /\ app # "stopping" /\ task \in {"get", "ended"}
  /\ task = "wait_run" => stream_state = "RUNNING" /\ ~Pipelining
  /\ task = "wait_stop" => stream_state = "IDLE" /\ app = "stopping" /\ Pipelining
  /\ task = "wait_delete" => stream_state = "RUNNING" /\ app = "releasing" /\ ~Pipelining
  /\ task = "ended" => stream_state = "IDLE" /\ app \in {"releasing", "released"}
  /\ stop_done => app = "stopping" /\ end = 0 /\ task = "get" /\ Quiet
  /\ app = "stopping" /\ end = 0
       => start = 0 /\ stream_state = "IDLE" /\ (stop_done \/ task = "wait_stop")
  /\ delete_done => app = "releasing" /\ task = "ended"
  /\ app = "releasing" /\ end = 0 => task \in {"ended", "wait_delete"}
  /\ app = "released" => task = "ended"

StreamHolds(start, end) == QueueIs(start, end) /\ RoundsHold(start, end) /\ CallsHold(start, end)

StreamInv == \E start, end \in Nat : StreamHolds(start, end)

Inv == GraphTypes /\ HostTypes /\ StreamTypes /\ GraphRuns /\ StreamInv /\ NotMissed

-----------------------------------------------------------------------------
(* The graph: what scheduling and completing do to it                      *)

Ids(k) == Leading(free_q, k)

(* There is a leaf node. *)
LEMMA LeafCount == S!NumLeafNodes \in Nat \ {0} /\ S!NumLeafNodes = Cardinality(Leaf)
<1>1. S!NumLeafNodes = Cardinality(Leaf)
  <2>1. S!Cardinality(Leaf) = Cardinality(Leaf)
    BY DEF S!Cardinality, Cardinality, S!IsFiniteSet, IsFiniteSet
  <2> QED BY <2>1 DEF S!NumLeafNodes
<1>2. Cardinality(Leaf) \in Nat /\ Cardinality(Leaf) # 0
  <2>1. IsFiniteSet(Leaf) /\ Leaf # {}
    BY LeafAssumption
  <2>2. Cardinality(Leaf) \in Nat
    BY <2>1, FS_CardinalityType
  <2>3. Cardinality(Leaf) # 0
    BY <2>1, FS_EmptySet
  <2> QED BY <2>2, <2>3
<1>3. S!NumLeafNodes \in Nat /\ S!NumLeafNodes # 0
  BY <1>1, <1>2
<1> QED BY <1>1, <1>3

(* An id is busy when a leaf node has yet to complete for it. *)
LEMMA BusyIs ==
  /\ S!Busy = {p \in Pipe : \E l \in Leaf : <<l, p>> \in running}
  /\ S!Busy \subseteq Pipe /\ IsFiniteSet(S!Busy) /\ Cardinality(S!Busy) \in Nat
<1>1. S!Busy = {p \in Pipe : \E l \in Leaf : <<l, p>> \in running}
  BY DEF S!Busy, S!Pipe, Pipe
<1>2. IsFiniteSet(Pipe)
  BY FS_Interval, DepthAssumption DEF Pipe
<1> QED BY <1>1, <1>2, FS_Subset, FS_CardinalityType

(* The ids that run are as many as were submitted. *)
LEMMA BusyMeansSubmitted ==
  ASSUME GraphTypes
  PROVE  S!Busy = {} <=> submitted_count = 0
  BY BusyIs, FS_EmptySet DEF GraphTypes

(* An id whose leaf node has yet to complete runs, and its counter tells how *)
(* many have yet to.                                                         *)
LEMMA UnfinishedIs ==
  ASSUME GraphTypes, NEW l \in Leaf, NEW p \in Pipe, <<l, p>> \in running
  PROVE  /\ p \in S!Busy /\ l \in Unfinished(p) /\ submitted_count > 0
         /\ IsFiniteSet(Unfinished(p)) /\ Cardinality(Unfinished(p)) \in Nat \ {0}
         /\ complete_leaf_nodes[p] = S!NumLeafNodes - Cardinality(Unfinished(p))
<1>1. p \in S!Busy /\ l \in Unfinished(p)
  BY BusyIs DEF Unfinished
<1>2. Unfinished(p) \subseteq Leaf
  BY DEF Unfinished
<1>3. IsFiniteSet(Unfinished(p))
  BY <1>2, LeafAssumption, FS_Subset
<1>4. Cardinality(Unfinished(p)) \in Nat \ {0}
  BY <1>1, <1>3, FS_CardinalityType, FS_EmptySet
<1>5. submitted_count > 0
  BY <1>1, BusyMeansSubmitted DEF GraphTypes
<1> QED BY <1>1, <1>3, <1>4, <1>5 DEF GraphTypes, LeavesCounted

(* ownGraphScheduleGraph: k executions start, on the k ids that were free *)
(* longest.                                                               *)
LEMMA GraphScheduled ==
  ASSUME GraphTypes, NEW n \in Nat, S!ScheduleGraph(n), UNCHANGED setup
  PROVE  \E k \in Nat :
           /\ k = S!Started(n) /\ k <= Len(free_q) /\ k <= n + schedule_pending_count
           /\ k = Len(free_q) \/ k = n + schedule_pending_count
           /\ submitted_count' = submitted_count + k
           /\ schedule_pending_count' = n + schedule_pending_count - k
           /\ all_graph_completed_event' = (k = 0 /\ all_graph_completed_event)
           /\ graph_state' = IF k > 0 THEN "RUNNING" ELSE graph_state
           /\ Ids(k) \subseteq Pipe /\ IsFiniteSet(Ids(k)) /\ Cardinality(Ids(k)) = k
           /\ Ids(k) \cap S!Busy = {} /\ S!Busy' = S!Busy \cup Ids(k)
           /\ running' = running \cup Leaf \X Ids(k)
           /\ GraphTypes'
<1> DEFINE k == S!Started(n)
           l == Len(free_q)
           pending == schedule_pending_count
<1>1. /\ l \in Nat /\ pending \in Nat /\ submitted_count \in Nat
      /\ free_q \in Seq(Pipe) /\ IsInjective(free_q) /\ Range(free_q) \subseteq Pipe
      /\ l + submitted_count = pipeline_depth
  BY LenIsCardinality DEF GraphTypes
<1>2. /\ k \in Nat /\ k <= l /\ k <= n + pending
      /\ k = l \/ k = n + pending
  BY <1>1 DEF S!Started, S!Smaller
<1>3. /\ free_q' = SubSeq(free_q, k + 1, l)
      /\ submitted_count' = submitted_count + k
      /\ schedule_pending_count' = n + pending - k
      /\ graph_state' = IF k > 0 THEN "RUNNING" ELSE graph_state
      /\ desc_state' = [p \in Pipe |-> IF p \in Ids(k) THEN "RUNNING" ELSE desc_state[p]]
      /\ all_graph_completed_event' = (k = 0 /\ all_graph_completed_event)
      /\ running' = running \cup Leaf \X Ids(k)
      /\ complete_leaf_nodes' = complete_leaf_nodes
  BY DEF S!ScheduleGraph, S!StillPending, S!EventAfterStart, Ids, Leading, S!Pipe, Pipe
<1> HIDE DEF k, l, pending
<1>4. /\ free_q' \in Seq(Pipe) /\ Len(free_q') = l - k /\ IsInjective(free_q')
      /\ Range(free_q') \subseteq Range(free_q) /\ Range(free_q') \cap Ids(k) = {}
      /\ Ids(k) \subseteq Range(free_q) /\ IsFiniteSet(Ids(k)) /\ Cardinality(Ids(k)) = k
  <2>1. k \in 0 .. Len(free_q)
    BY <1>2 DEF l
  <2>2. /\ SubSeq(free_q, k + 1, l) \in Seq(Pipe) /\ Len(SubSeq(free_q, k + 1, l)) = l - k
        /\ IsInjective(SubSeq(free_q, k + 1, l))
        /\ Range(SubSeq(free_q, k + 1, l)) \subseteq Range(free_q)
        /\ Range(SubSeq(free_q, k + 1, l)) \cap Ids(k) = {}
        /\ Ids(k) \subseteq Range(free_q) /\ IsFiniteSet(Ids(k)) /\ Cardinality(Ids(k)) = k
    BY <1>1, <2>1, LeadingRemoved DEF l, Ids
  <2> QED BY <1>3, <2>2
<1>5. Ids(k) \subseteq Pipe /\ Ids(k) \cap S!Busy = {}
  BY <1>1, <1>4 DEF GraphTypes
<1>6. S!Busy' = S!Busy \cup Ids(k)
  <2>1. S!Busy' = {p \in Pipe : \E m \in Leaf : <<m, p>> \in running'}
    BY DEF S!Busy, S!Pipe, Pipe
  <2>2. PICK m \in Leaf : TRUE
    BY LeafAssumption
  <2> QED BY <1>3, <1>5, <2>1, <2>2, BusyIs
<1>7. submitted_count' = Cardinality(S!Busy')
  <2>1. Cardinality(S!Busy \cap Ids(k)) = 0
    BY <1>5, FS_EmptySet
  <2>2. Cardinality(S!Busy \cup Ids(k)) =
          Cardinality(S!Busy) + Cardinality(Ids(k)) - Cardinality(S!Busy \cap Ids(k))
    BY <1>4, BusyIs, FS_Union
  <2>3. submitted_count = Cardinality(S!Busy)
    BY DEF GraphTypes
  <2>4. Cardinality(S!Busy \cup Ids(k)) = submitted_count + k
    BY <1>1, <1>2, <1>4, <2>1, <2>2, <2>3
  <2> QED BY <1>3, <1>6, <2>4
<1>8. LeavesCounted'
  <2> SUFFICES ASSUME NEW p \in Pipe
               PROVE  complete_leaf_nodes[p] =
                        IF p \in S!Busy' THEN S!NumLeafNodes - Cardinality(Unfinished(p)') ELSE 0
    BY <1>3 DEF LeavesCounted
  <2>1. CASE p \in Ids(k)
    <3>1. Unfinished(p)' = Leaf
      BY <1>3, <2>1 DEF Unfinished
    <3>2. p \notin S!Busy /\ p \in S!Busy'
      BY <1>5, <1>6, <2>1
    <3> QED BY <3>1, <3>2, LeafCount DEF GraphTypes, LeavesCounted
  <2>2. CASE p \notin Ids(k)
    <3>1. Unfinished(p)' = Unfinished(p)
      BY <1>3, <2>2 DEF Unfinished
    <3> QED BY <1>6, <2>2, <3>1 DEF GraphTypes, LeavesCounted
  <2> QED BY <2>1, <2>2
<1>9. running' \subseteq Leaf \X Pipe
  BY <1>3, <1>5 DEF GraphTypes
<1>10. Range(free_q') \cap S!Busy' = {}
  BY <1>4, <1>6 DEF GraphTypes
<1>11. /\ submitted_count' \in Nat /\ Len(free_q') + submitted_count' = pipeline_depth
       /\ schedule_pending_count' \in Nat
  BY <1>1, <1>2, <1>3, <1>4
<1>12. graph_state' \in S!States /\ desc_state' \in [Pipe -> S!States]
       /\ all_graph_completed_event' \in BOOLEAN
  BY <1>3 DEF GraphTypes, S!States
<1>13. GraphTypes'
  BY <1>3, <1>4, <1>7, <1>8, <1>9, <1>10, <1>11, <1>12 DEF GraphTypes, setup
<1> QED BY <1>2, <1>3, <1>4, <1>5, <1>6, <1>13 DEF k, l, pending

(* A leaf node completes that is not the last one of its id. *)
LEMMA LeafCounted ==
  ASSUME GraphTypes, NEW l \in Leaf, NEW p \in Pipe, S!CountLeaf(l, p, "CONTINUE"),
         UNCHANGED setup
  PROVE  /\ host.at = "idle" /\ host' = S!HostIdle
         /\ S!Busy' = S!Busy /\ submitted_count > 0
         /\ running' = running \ {<<l, p>>} /\ <<l, p>> \in running
         /\ UNCHANGED <<submitted_count, schedule_pending_count, graph_state,
                        all_graph_completed_event>>
         /\ GraphTypes'
<1>1. /\ host.at = "idle" /\ <<l, p>> \in running
      /\ complete_leaf_nodes[p] + 1 # S!NumLeafNodes
      /\ running' = running \ {<<l, p>>}
      /\ complete_leaf_nodes' = [complete_leaf_nodes EXCEPT ![p] = @ + 1]
      /\ host' = S!HostIdle
      /\ UNCHANGED <<free_q, submitted_count, schedule_pending_count, graph_state,
                     desc_state, all_graph_completed_event>>
  BY DEF S!CountLeaf, S!ToAbandon, S!HostIdle
<1>2. /\ p \in S!Busy /\ l \in Unfinished(p) /\ submitted_count > 0
      /\ IsFiniteSet(Unfinished(p)) /\ Cardinality(Unfinished(p)) \in Nat \ {0}
      /\ complete_leaf_nodes[p] = S!NumLeafNodes - Cardinality(Unfinished(p))
  BY <1>1, UnfinishedIs
<1>3. complete_leaf_nodes[p] \in 0 .. S!NumLeafNodes - 1
  BY DEF GraphTypes
<1>4. Unfinished(p)' = Unfinished(p) \ {l}
  BY <1>1 DEF Unfinished
<1>5. Cardinality(Unfinished(p)') = Cardinality(Unfinished(p)) - 1
  BY <1>2, <1>4, FS_RemoveElement
<1>6. \A r \in Pipe \ {p} : Unfinished(r)' = Unfinished(r)
  BY <1>1 DEF Unfinished
<1>7. S!Busy' = S!Busy
  <2>1. Cardinality(Unfinished(p)) # 1
    BY <1>1, <1>2, LeafCount
  <2>2. PICK m \in Leaf : m # l /\ <<m, p>> \in running
    <3>1. Unfinished(p) # {l}
      BY <2>1, FS_Singleton
    <3> QED BY <1>2, <3>1 DEF Unfinished
  <2>3. S!Busy' = {q \in Pipe : \E i \in Leaf : <<i, q>> \in running'}
    BY DEF S!Busy, S!Pipe, Pipe
  <2>4. p \in S!Busy'
    BY <1>1, <2>2, <2>3
  <2>5. \A r \in Pipe \ {p} : r \in S!Busy' <=> r \in S!Busy
    BY <1>1, <2>3, BusyIs
  <2> QED BY <1>2, <2>3, <2>4, <2>5, BusyIs
<1>8. complete_leaf_nodes' \in [Pipe -> 0 .. S!NumLeafNodes - 1]
  <2>1. complete_leaf_nodes[p] + 1 \in 0 .. S!NumLeafNodes - 1
    BY <1>1, <1>3, LeafCount
  <2> QED BY <1>1, <2>1 DEF GraphTypes
<1>9. LeavesCounted'
  <2>1. complete_leaf_nodes'[p] = S!NumLeafNodes - Cardinality(Unfinished(p)')
    BY <1>1, <1>2, <1>5, LeafCount DEF GraphTypes
  <2>2. \A r \in Pipe \ {p} : complete_leaf_nodes'[r] = complete_leaf_nodes[r]
    BY <1>1 DEF GraphTypes
  <2>3. LeavesCounted
    BY DEF GraphTypes
  <2> QED BY <1>2, <1>6, <1>7, <2>1, <2>2, <2>3 DEF LeavesCounted
<1>10. running' \subseteq Leaf \X Pipe
  BY <1>1 DEF GraphTypes
<1>11. GraphTypes'
  BY <1>1, <1>7, <1>8, <1>9, <1>10 DEF GraphTypes, setup
<1> QED BY <1>1, <1>2, <1>7, <1>11

(* The completion of an execution: the requests that were pending go to the HOST task. *)
LEMMA GraphCompleted ==
  ASSUME GraphTypes, host.count \in Nat, NEW l \in Leaf, NEW p \in Pipe,
         S!CompleteGraph(l, p, "CONTINUE"), UNCHANGED setup
  PROVE  /\ p \in S!Busy /\ S!Busy' = S!Busy \ {p} /\ host.at = "idle"
         /\ running' = running \ {<<l, p>>} /\ <<l, p>> \in running
         /\ submitted_count > 0 /\ submitted_count' = submitted_count - 1
         /\ schedule_pending_count' = 0
         /\ host' = [at |-> IF schedule_pending_count > 0 THEN "reschedule" ELSE "idle",
                     count |-> schedule_pending_count, abandon |-> {}]
         /\ graph_state' = "RUNNING" => submitted_count' > 0 \/ graph_state = "RUNNING"
         /\ submitted_count' = 0 => graph_state' # "RUNNING"
         /\ all_graph_completed_event' =
              ((submitted_count' = 0 /\ schedule_pending_count = 0) \/ all_graph_completed_event)
         /\ GraphTypes'
<1>1. /\ host.at = "idle" /\ <<l, p>> \in running
      /\ complete_leaf_nodes[p] + 1 = S!NumLeafNodes
      /\ submitted_count' = submitted_count - 1
      /\ schedule_pending_count' = schedule_pending_count - schedule_pending_count
      /\ desc_state' = [desc_state EXCEPT ![p] = S!StateAfterRun(p)]
      /\ graph_state' = IF submitted_count - 1 = 0 THEN S!StateAfterRun(p) ELSE graph_state
      /\ all_graph_completed_event' =
           ((submitted_count - 1 = 0 /\ schedule_pending_count = 0) \/ all_graph_completed_event)
      /\ host' = [at |-> IF schedule_pending_count > 0 THEN "reschedule" ELSE "idle",
                  count |-> schedule_pending_count, abandon |-> {}]
      /\ free_q' = S!FreePipe(p)
      /\ complete_leaf_nodes' = [complete_leaf_nodes EXCEPT ![p] = 0]
      /\ running' = running \ {<<l, p>>}
  BY DEF S!CompleteGraph, S!TakenOver, S!LeftPending, S!AllCompleted, S!ToAbandon,
         S!LeafCountAfterRun
<1>2. /\ p \in S!Busy /\ l \in Unfinished(p) /\ submitted_count > 0
      /\ IsFiniteSet(Unfinished(p)) /\ Cardinality(Unfinished(p)) \in Nat \ {0}
      /\ complete_leaf_nodes[p] = S!NumLeafNodes - Cardinality(Unfinished(p))
  BY <1>1, UnfinishedIs
<1>3. Unfinished(p) = {l}
  <2>1. Cardinality(Unfinished(p)) = 1
    BY <1>1, <1>2, LeafCount
  <2> QED BY <1>2, <2>1, FS_Singleton
<1>4. S!Busy' = S!Busy \ {p}
  <2>1. S!Busy' = {q \in Pipe : \E i \in Leaf : <<i, q>> \in running'}
    BY DEF S!Busy, S!Pipe, Pipe
  <2>2. p \notin S!Busy'
    BY <1>1, <1>3, <2>1 DEF Unfinished
  <2>3. \A r \in Pipe \ {p} : r \in S!Busy' <=> r \in S!Busy
    BY <1>1, <2>1, BusyIs
  <2> QED BY <2>1, <2>2, <2>3, BusyIs
<1>5. submitted_count \in Nat /\ schedule_pending_count \in Nat
  BY DEF GraphTypes
<1>6. S!StateAfterRun(p) \in S!States /\ S!StateAfterRun(p) # "RUNNING"
  BY DEF S!StateAfterRun, GraphTypes, S!States
<1>7. free_q' = Append(free_q, p) /\ Len(free_q) \in Nat
  <2>1. /\ Len(free_q) \in Nat /\ Len(free_q) + submitted_count = pipeline_depth
        /\ pipeline_depth \in 1 .. Depth
    BY DEF GraphTypes
  <2>2. Len(free_q) < FreeQSize
    BY <1>2, <1>5, <2>1, DepthAssumption
  <2> QED BY <1>1, <2>1, <2>2 DEF S!FreePipe
<1>8. /\ free_q' \in Seq(Pipe) /\ IsInjective(free_q') /\ Len(free_q') = Len(free_q) + 1
      /\ Range(free_q') = Range(free_q) \cup {p}
  <2>1. free_q \in Seq(Pipe) /\ IsInjective(free_q) /\ p \notin Range(free_q)
    BY <1>2 DEF GraphTypes
  <2> QED BY <1>7, <2>1, Appended, AppendProperties
<1>9. running' \subseteq Leaf \X Pipe /\ Cardinality(S!Busy') = submitted_count'
  <2>1. Cardinality(S!Busy \ {p}) = Cardinality(S!Busy) - 1
    BY <1>2, BusyIs, FS_RemoveElement
  <2> QED BY <1>1, <1>4, <2>1 DEF GraphTypes
<1>10. Range(free_q') \cap S!Busy' = {}
  BY <1>4, <1>8 DEF GraphTypes
<1>11. /\ submitted_count' \in Nat /\ schedule_pending_count' = 0
       /\ Len(free_q') + submitted_count' = pipeline_depth
  <2>1. Len(free_q) + submitted_count = pipeline_depth /\ pipeline_depth \in Nat
    BY DEF GraphTypes
  <2>2. Len(free_q') = Len(free_q) + 1 /\ submitted_count' = submitted_count - 1
    BY <1>1, <1>8
  <2>3. schedule_pending_count' = 0
    BY <1>1, <1>5
  <2> QED BY <1>2, <1>5, <1>7, <2>1, <2>2, <2>3
<1>12. /\ graph_state' \in S!States /\ desc_state' \in [Pipe -> S!States]
       /\ all_graph_completed_event' \in BOOLEAN
  BY <1>1, <1>6 DEF GraphTypes
<1>13. /\ complete_leaf_nodes' \in [Pipe -> 0 .. S!NumLeafNodes - 1] /\ LeavesCounted'
  <2>1. complete_leaf_nodes' \in [Pipe -> 0 .. S!NumLeafNodes - 1]
    BY <1>1, LeafCount DEF GraphTypes
  <2>2. \A r \in Pipe \ {p} : /\ complete_leaf_nodes'[r] = complete_leaf_nodes[r]
                              /\ Unfinished(r)' = Unfinished(r)
    BY <1>1 DEF GraphTypes, Unfinished
  <2>3. complete_leaf_nodes'[p] = 0
    BY <1>1 DEF GraphTypes
  <2>4. LeavesCounted
    BY DEF GraphTypes
  <2> QED BY <1>4, <2>1, <2>2, <2>3, <2>4 DEF LeavesCounted
<1>14. GraphTypes'
  BY <1>8, <1>9, <1>10, <1>11, <1>12, <1>13 DEF GraphTypes, setup
<1>15. submitted_count' = 0 => graph_state' # "RUNNING"
  BY <1>1, <1>6
<1>16. graph_state' = "RUNNING" => submitted_count' > 0 \/ graph_state = "RUNNING"
  BY <1>1, <1>6
<1> QED BY <1>1, <1>2, <1>4, <1>11, <1>14, <1>15, <1>16

-----------------------------------------------------------------------------
(* The queue of events: what adding one and removing one does to the places *)

Prev(i) == IF i > 0 THEN i - 1 ELSE 0

(* How long the queue is: ticks, START, and the end of a call. *)
LEMMA QueueSize ==
  ASSUME StreamTypes, NEW start \in Nat, NEW end \in Nat, QueueIs(start, end)
  PROVE  /\ Len(event_q) \in Nat /\ Ticks(start, end) \in Nat
         /\ start > 0 => LateTicks(start, end) \in Nat
         /\ Len(event_q) = Ticks(start, end) + One(start) + One(end)
         /\ One(start) \in 0 .. 1 /\ One(end) \in 0 .. 1
  BY DEF StreamTypes, QueueIs, Ticks, LateTicks, One

(* The events are of the declared kinds, and ticks are none of the others. *)
LEMMA EventsAre ==
  /\ Tick \in Events /\ EndCall \in Events /\ EndCall' \in Events /\ "START" \in Events
  /\ Tick \notin {"START", "STOP", "DELETE"} /\ EndCall \in {"STOP", "DELETE"}
  BY DEF Tick, EndCall, Events

(* What ownEventQueueAddEvent does when there is room. *)
LEMMA Added ==
  ASSUME StreamTypes, NEW e \in Events, Len(event_q) < EventQueueSize,
         event_q' = Add(event_q, e)
  PROVE  /\ event_q' \in Seq(Events) /\ Len(event_q') = Len(event_q) + 1
         /\ \A i \in 1 .. Len(event_q) : event_q'[i] = event_q[i]
         /\ event_q'[Len(event_q) + 1] = e
<1>1. event_q \in Seq(Events) /\ event_q' = Append(event_q, e)
  BY DEF StreamTypes, Add
<1> QED BY <1>1, AppendProperties

(* A tick at the end is behind START, if START is there. *)
LEMMA TickAdded ==
  ASSUME StreamTypes, NEW start \in Nat, NEW end \in Nat, QueueIs(start, end),
         Len(event_q) < EventQueueSize, event_q' = Add(event_q, Tick),
         UNCHANGED <<pipeline_depth, app>>
  PROVE  /\ QueueIs(start, end)' /\ event_q' \in Seq(Events)
         /\ Ticks(start, end)' = Ticks(start, end) + 1
         /\ LateTicks(start, end)' = LateTicks(start, end) + 1
<1>1. /\ event_q' \in Seq(Events) /\ Len(event_q') = Len(event_q) + 1
      /\ \A i \in 1 .. Len(event_q) : event_q'[i] = event_q[i]
      /\ event_q'[Len(event_q) + 1] = Tick
  BY Added, EventsAre
<1>2. Tick' = Tick /\ EndCall' = EndCall /\ Len(event_q) \in Nat
  BY QueueSize DEF Tick, EndCall, Pipelining
<1>3. ASSUME NEW i \in 1 .. Len(event_q')
      PROVE  event_q'[i] = IF i = start THEN "START" ELSE IF i = end THEN EndCall' ELSE Tick'
  <2>1. CASE i \in 1 .. Len(event_q)
    BY <1>1, <1>2, <2>1 DEF QueueIs
  <2>2. CASE i = Len(event_q) + 1
    <3>1. i # start /\ i # end
      BY <1>2, <2>2 DEF QueueIs
    <3> QED BY <1>1, <1>2, <2>2, <3>1
  <2> QED BY <1>1, <1>2, <2>1, <2>2
<1>4. QueueIs(start, end)'
  BY <1>1, <1>2, <1>3 DEF QueueIs
<1> QED BY <1>1, <1>2, <1>4 DEF Ticks, LateTicks, One

(* START at the end has all ticks before it. *)
LEMMA StartAdded ==
  ASSUME StreamTypes, QueueIs(0, 0), Len(event_q) < EventQueueSize,
         event_q' = Add(event_q, "START"), UNCHANGED <<pipeline_depth, app>>
  PROVE  /\ event_q' \in Seq(Events)
         /\ \E start \in Nat \ {0} :
              /\ QueueIs(start, 0)'
              /\ Ticks(start, 0)' = Ticks(0, 0) /\ LateTicks(start, 0)' = 0
<1>1. /\ event_q' \in Seq(Events) /\ Len(event_q') = Len(event_q) + 1
      /\ \A i \in 1 .. Len(event_q) : event_q'[i] = event_q[i]
      /\ event_q'[Len(event_q) + 1] = "START"
  BY Added, EventsAre
<1>2. Tick' = Tick /\ Len(event_q) \in Nat
  BY QueueSize DEF Tick, Pipelining
<1>3. PICK start \in Nat \ {0} : start = Len(event_q) + 1
  BY <1>2
<1>4. ASSUME NEW i \in 1 .. Len(event_q')
      PROVE  event_q'[i] = IF i = start THEN "START" ELSE IF i = 0 THEN EndCall' ELSE Tick'
  BY <1>1, <1>2, <1>3 DEF QueueIs
<1>5. QueueIs(start, 0)'
  BY <1>1, <1>2, <1>3, <1>4 DEF QueueIs
<1>6. Ticks(start, 0)' = Ticks(0, 0) /\ LateTicks(start, 0)' = 0
  BY <1>1, <1>2, <1>3 DEF Ticks, LateTicks, One
<1> QED BY <1>1, <1>5, <1>6

(* The end of a call at the end of the queue counts as no tick. *)
LEMMA EndAdded ==
  ASSUME StreamTypes, NEW start \in Nat, QueueIs(start, 0), Len(event_q) < EventQueueSize,
         event_q' = Add(event_q, EndCall'), UNCHANGED pipeline_depth
  PROVE  /\ event_q' \in Seq(Events)
         /\ \E end \in Nat \ {0} :
              /\ QueueIs(start, end)'
              /\ Ticks(start, end)' = Ticks(start, 0)
              /\ LateTicks(start, end)' = LateTicks(start, 0)
<1>1. /\ event_q' \in Seq(Events) /\ Len(event_q') = Len(event_q) + 1
      /\ \A i \in 1 .. Len(event_q) : event_q'[i] = event_q[i]
      /\ event_q'[Len(event_q) + 1] = EndCall'
  <2>1. EndCall' \in Events
    BY EventsAre
  <2> DEFINE e == EndCall'
  <2> HIDE DEF e
  <2>2. e \in Events /\ event_q' = Add(event_q, e)
    BY <2>1 DEF e
  <2>3. /\ event_q' \in Seq(Events) /\ Len(event_q') = Len(event_q) + 1
        /\ \A i \in 1 .. Len(event_q) : event_q'[i] = event_q[i]
        /\ event_q'[Len(event_q) + 1] = e
    BY <2>2, Added
  <2> QED BY <2>3 DEF e
<1>2. Tick' = Tick /\ Len(event_q) \in Nat /\ start \in 0 .. Len(event_q)
  BY QueueSize DEF Tick, Pipelining, QueueIs
<1>3. PICK end \in Nat \ {0} : end = Len(event_q) + 1
  BY <1>2
<1>4. ASSUME NEW i \in 1 .. Len(event_q')
      PROVE  event_q'[i] = IF i = start THEN "START" ELSE IF i = end THEN EndCall' ELSE Tick'
  BY <1>1, <1>2, <1>3 DEF QueueIs
<1>5. QueueIs(start, end)'
  BY <1>1, <1>2, <1>3, <1>4 DEF QueueIs
<1>6. Ticks(start, end)' = Ticks(start, 0) /\ LateTicks(start, end)' = LateTicks(start, 0)
  BY <1>1, <1>2, <1>3 DEF Ticks, LateTicks, One
<1> QED BY <1>1, <1>5, <1>6

(* The head is START, the end of a call or a tick, as the places say. *)
LEMMA HeadIs ==
  ASSUME StreamTypes, NEW start \in Nat, NEW end \in Nat, QueueIs(start, end), event_q # <<>>
  PROVE  /\ Len(event_q) > 0
         /\ Head(event_q) = IF start = 1 THEN "START" ELSE IF end = 1 THEN EndCall ELSE Tick
<1>1. /\ event_q \in Seq(Events) /\ Len(event_q) \in Nat /\ Len(event_q) > 0
      /\ Head(event_q) = event_q[1]
  BY EmptySeq DEF StreamTypes
<1> QED BY <1>1 DEF QueueIs

(* What is left without the head is laid out the same way, one place further *)
(* on.                                                                       *)
LEMMA HeadRemoved ==
  ASSUME StreamTypes, NEW start \in Nat, NEW end \in Nat, QueueIs(start, end), event_q # <<>>
  PROVE  /\ Tail(event_q) \in Seq(Events) /\ Len(Tail(event_q)) = Len(event_q) - 1
         /\ Prev(start) \in 0 .. Len(Tail(event_q)) /\ Prev(end) \in 0 .. Len(Tail(event_q))
         /\ Prev(start) > 0 /\ Prev(end) > 0 => Prev(start) < Prev(end)
         /\ \A i \in 1 .. Len(Tail(event_q)) :
              Tail(event_q)[i] =
                IF i = Prev(start) THEN "START" ELSE IF i = Prev(end) THEN EndCall ELSE Tick
<1> DEFINE q == Tail(event_q)
<1>1. /\ q \in Seq(Events) /\ Len(q) = Len(event_q) - 1 /\ Len(event_q) \in Nat /\ Len(event_q) > 0
      /\ \A i \in 1 .. Len(q) : q[i] = event_q[i + 1]
  BY HeadTailProperties, EmptySeq DEF StreamTypes
<1>2. Prev(start) \in 0 .. Len(q) /\ Prev(end) \in 0 .. Len(q)
  BY <1>1 DEF Prev, QueueIs
<1>3. Prev(start) > 0 /\ Prev(end) > 0 => Prev(start) < Prev(end)
  BY DEF Prev, QueueIs
<1>4. ASSUME NEW i \in 1 .. Len(q)
      PROVE  q[i] = IF i = Prev(start) THEN "START" ELSE IF i = Prev(end) THEN EndCall ELSE Tick
  <2>1. i + 1 \in 1 .. Len(event_q) /\ (i + 1 = start <=> i = Prev(start))
        /\ (i + 1 = end <=> i = Prev(end))
    BY <1>1 DEF Prev
  <2> QED BY <1>1, <2>1 DEF QueueIs
<1> QED BY <1>1, <1>2, <1>3, <1>4

(* The task obtains an event: unless that is START or the end of a call, it *)
(* is a tick. With START gone the ticks are those that were behind it.      *)
LEMMA HeadGone ==
  ASSUME StreamTypes, NEW start \in Nat, NEW end \in Nat, QueueIs(start, end), event_q # <<>>,
         event_q' = Tail(event_q), UNCHANGED <<pipeline_depth, app>>
  PROVE  /\ QueueIs(Prev(start), Prev(end))' /\ event_q' \in Seq(Events)
         /\ Ticks(Prev(start), Prev(end))' =
              Ticks(start, end) - (IF start = 1 \/ end = 1 THEN 0 ELSE 1)
         /\ start > 0 => LateTicks(Prev(start), Prev(end))' = LateTicks(start, end)
         /\ start = 1 => Ticks(Prev(start), Prev(end))' = LateTicks(start, end)
<1> DEFINE q == Tail(event_q)
<1>1. /\ q \in Seq(Events) /\ Len(q) = Len(event_q) - 1
      /\ Prev(start) \in 0 .. Len(q) /\ Prev(end) \in 0 .. Len(q)
      /\ Prev(start) > 0 /\ Prev(end) > 0 => Prev(start) < Prev(end)
      /\ \A i \in 1 .. Len(q) :
           q[i] = IF i = Prev(start) THEN "START" ELSE IF i = Prev(end) THEN EndCall ELSE Tick
  BY HeadRemoved
<1>2. event_q' = q /\ Tick' = Tick /\ EndCall' = EndCall
  BY DEF Tick, EndCall, Pipelining
<1> HIDE DEF q
<1>3. QueueIs(Prev(start), Prev(end))'
  BY <1>1, <1>2 DEF QueueIs
<1>4. /\ Len(event_q) \in Nat /\ start \in 0 .. Len(event_q) /\ end \in 0 .. Len(event_q)
      /\ start > 0 /\ end > 0 => start < end
      /\ Len(event_q') = Len(event_q) - 1
  BY <1>1, <1>2, QueueSize DEF QueueIs
<1> DEFINE L == Len(event_q)
           M == Len(event_q')
<1>5. /\ L \in Nat /\ start \in 0 .. L /\ end \in 0 .. L /\ M = L - 1
      /\ start > 0 /\ end > 0 => start < end
  BY <1>4
<1>6. /\ Ticks(start, end) = L - One(start) - One(end)
      /\ Ticks(Prev(start), Prev(end))' = M - One(Prev(start)) - One(Prev(end))
      /\ LateTicks(start, end) = L - start - One(end)
      /\ LateTicks(Prev(start), Prev(end))' = M - Prev(start) - One(Prev(end))
  BY DEF Ticks, LateTicks
<1> HIDE DEF L, M
<1>7. /\ start = 1 => One(start) = 1 /\ One(Prev(start)) = 0
      /\ start # 1 => One(Prev(start)) = One(start)
      /\ end = 1 => One(end) = 1 /\ One(Prev(end)) = 0
      /\ end # 1 => One(Prev(end)) = One(end)
      /\ One(start) \in 0 .. 1 /\ One(end) \in 0 .. 1
  BY <1>5 DEF One, Prev
<1>8. /\ start > 0 => Prev(start) = start - 1
      /\ start > 0 => end # 1
      /\ start = 1 => Prev(start) = 0
  BY <1>5 DEF Prev
<1>9. start = 1 \/ end = 1 => ~(start = 1 /\ end = 1)
  BY <1>5
<1>10. Ticks(Prev(start), Prev(end))' =
         Ticks(start, end) - (IF start = 1 \/ end = 1 THEN 0 ELSE 1)
  BY <1>5, <1>6, <1>7, <1>9
<1>11. start > 0 => LateTicks(Prev(start), Prev(end))' = LateTicks(start, end)
  BY <1>5, <1>6, <1>7, <1>8
<1>12. start = 1 => Ticks(Prev(start), Prev(end))' = LateTicks(start, end)
  BY <1>5, <1>6, <1>7, <1>8
<1> QED BY <1>1, <1>2, <1>3, <1>10, <1>11, <1>12

(* Steps that leave the queue alone. *)
LEMMA QueueKept ==
  ASSUME NEW start \in Nat, NEW end \in Nat, QueueIs(start, end),
         UNCHANGED <<event_q, pipeline_depth>>, app' = app \/ end = 0
  PROVE  /\ QueueIs(start, end)'
         /\ Ticks(start, end)' = Ticks(start, end) /\ LateTicks(start, end)' = LateTicks(start, end)
<1>1. Tick' = Tick /\ (end = 0 \/ EndCall' = EndCall)
  BY DEF Tick, EndCall, Pipelining
<1>2. QueueIs(start, end)'
  BY <1>1 DEF QueueIs
<1> QED BY <1>2 DEF Ticks, LateTicks, One

-----------------------------------------------------------------------------
(* What the steps have in common                                           *)

(* A trigger node has yet to complete only for ids that run: the leaf nodes *)
(* that wait for it have yet to complete.                                   *)
LEMMA UntriggeredRuns ==
  ASSUME GraphTypes, HostTypes
  PROVE  untriggered \subseteq S!Busy
<1>1. PICK l \in trigger : l \in Leaf
  BY DEF GraphTypes
<1> QED BY <1>1, BusyIs DEF HostTypes

(* The rounds under way can be counted. *)
LEMMA UnderWayType ==
  ASSUME GraphTypes, HostTypes
  PROVE  /\ IsFiniteSet(untriggered) /\ Cardinality(untriggered) \in Nat
         /\ UnderWay \in Nat
<1>3. IsFiniteSet(untriggered)
  BY UntriggeredRuns, BusyIs, FS_Subset
<1>4. Cardinality(untriggered) \in Nat
  BY <1>3, FS_CardinalityType
<1>5. schedule_pending_count \in Nat /\ host.count \in Nat
  BY DEF GraphTypes, HostTypes
<1> QED BY <1>3, <1>4, <1>5 DEF UnderWay

(* With nothing to run only the event of a leaf can be under way. *)
LEMMA QuietMeans ==
  ASSUME GraphTypes, HostTypes, Quiet
  PROVE  /\ untriggered = {} /\ Cardinality(untriggered) = 0 /\ host.at = "idle"
         /\ Pipelining => UnderWay = IF notify THEN 1 ELSE 0
<1>1. untriggered = {}
  BY UntriggeredRuns, BusyMeansSubmitted DEF Quiet
<1>2. Cardinality(untriggered) = 0
  BY <1>1, FS_EmptySet
<1>3. host.at = "idle"
  BY DEF HostTypes, Quiet
<1> QED BY <1>1, <1>2, <1>3 DEF UnderWay, Quiet

(* Steps that neither start nor complete an execution. *)
LEMMA HoldsKept ==
  ASSUME GraphTypes, HostTypes, GraphHolds,
         UNCHANGED <<free_q, submitted_count, schedule_pending_count, graph_state, desc_state,
                     complete_leaf_nodes, running, host, setup, untriggered, notify>>,
         all_graph_completed_event' = all_graph_completed_event
           \/ all_graph_completed_event' = FALSE
  PROVE  /\ GraphTypes' /\ HostTypes' /\ GraphHolds'
         /\ Quiet' = Quiet /\ Pipelining' = Pipelining
         /\ Pipelining => UnderWay' = UnderWay
<1>1. S!Busy' = S!Busy /\ LeavesCounted' = LeavesCounted
  BY DEF S!Busy, S!Pipe, LeavesCounted, Unfinished
<1>2. GraphTypes'
  BY <1>1 DEF GraphTypes, setup
<1>3. HostTypes'
  BY DEF HostTypes, setup
<1>4. Quiet' = Quiet /\ Pipelining' = Pipelining
  BY DEF Quiet, Pipelining, setup
<1>5. GraphHolds'
  BY <1>4 DEF GraphHolds, GraphTypes
<1>6. Pipelining => UnderWay' = UnderWay
  BY <1>4 DEF UnderWay
<1> QED BY <1>2, <1>3, <1>4, <1>5, <1>6

(* The same in time. *)
LEMMA GraphKept ==
  ASSUME GraphTypes, HostTypes, GraphRuns,
         UNCHANGED <<free_q, submitted_count, schedule_pending_count, graph_state, desc_state,
                     complete_leaf_nodes, running, host, setup, untriggered, notify>>,
         all_graph_completed_event' = all_graph_completed_event
           \/ all_graph_completed_event' = FALSE,
         task' = task \/ submitted_count = 0 \/ Pipelining
  PROVE  /\ GraphTypes' /\ HostTypes' /\ GraphRuns'
         /\ Quiet' = Quiet /\ Pipelining' = Pipelining
         /\ Pipelining => UnderWay' = UnderWay
<1>1. /\ GraphTypes' /\ HostTypes' /\ GraphHolds'
      /\ Quiet' = Quiet /\ Pipelining' = Pipelining
      /\ Pipelining => UnderWay' = UnderWay
  BY HoldsKept DEF GraphRuns
<1>2. Alone'
  BY <1>1 DEF GraphRuns, Alone, GraphTypes
<1> QED BY <1>1, <1>2 DEF GraphRuns

(* The queue never holds more than three events when one is added. *)
LEMMA RoomFor ==
  ASSUME StreamTypes, NEW start \in Nat, NEW end \in Nat, QueueIs(start, end),
         Ticks(start, end) + One(start) + One(end) <= 3
  PROVE  Len(event_q) < EventQueueSize
  BY QueueSize, EventQueueAssumption

(* Scheduling: what is not started stays pending. *)
LEMMA ScheduledHolds ==
  ASSUME GraphTypes, HostTypes, GraphHolds,
         NEW n \in Nat \ {0}, Schedule(n),
         UNCHANGED <<setup, notify>>, host' = host \/ host' = S!HostIdle
  PROVE  /\ GraphTypes' /\ HostTypes' /\ GraphHolds' /\ submitted_count' > 0
         /\ schedule_pending_count \in Nat /\ schedule_pending_count' \in Nat
         /\ Cardinality(untriggered) \in Nat /\ Cardinality(untriggered') \in Nat
         /\ Pipelining => Cardinality(untriggered') + schedule_pending_count' =
                            Cardinality(untriggered) + schedule_pending_count + n
<1>1. PICK k \in Nat :
        /\ k = S!Started(n) /\ k <= Len(free_q) /\ k <= n + schedule_pending_count
        /\ k = Len(free_q) \/ k = n + schedule_pending_count
        /\ submitted_count' = submitted_count + k
        /\ schedule_pending_count' = n + schedule_pending_count - k
        /\ all_graph_completed_event' = (k = 0 /\ all_graph_completed_event)
        /\ graph_state' = IF k > 0 THEN "RUNNING" ELSE graph_state
        /\ Ids(k) \subseteq Pipe /\ IsFiniteSet(Ids(k)) /\ Cardinality(Ids(k)) = k
        /\ Ids(k) \cap S!Busy = {} /\ S!Busy' = S!Busy \cup Ids(k)
        /\ running' = running \cup Leaf \X Ids(k)
        /\ GraphTypes'
  BY GraphScheduled DEF Schedule
<1>2. untriggered' = IF Pipelining THEN untriggered \cup Ids(k) ELSE untriggered
  BY <1>1 DEF Ids, Leading, Schedule
<1>3. IsFiniteSet(untriggered) /\ Cardinality(untriggered) \in Nat
  BY UnderWayType
<1>4. untriggered \cap Ids(k) = {} /\ untriggered \subseteq S!Busy
  BY <1>1, UntriggeredRuns
<1>5. Cardinality(untriggered \cup Ids(k)) = Cardinality(untriggered) + k
  <2>1. Cardinality(untriggered \cap Ids(k)) = 0
    BY <1>4, FS_EmptySet
  <2>2. Cardinality(untriggered \cup Ids(k)) =
          Cardinality(untriggered) + Cardinality(Ids(k)) - Cardinality(untriggered \cap Ids(k))
    BY <1>1, <1>3, FS_Union
  <2> QED BY <1>1, <1>3, <2>1, <2>2
<1>6. /\ submitted_count \in Nat /\ schedule_pending_count \in Nat /\ Len(free_q) \in Nat
      /\ Len(free_q) + submitted_count = pipeline_depth /\ pipeline_depth \in Nat
      /\ pipeline_depth > 0
  BY DepthAssumption DEF GraphTypes
<1>7. submitted_count' > 0 /\ (k = 0 => submitted_count > 0)
  BY <1>1, <1>6
<1>8. HostTypes'
  <2>1. untriggered' \subseteq Pipe
    BY <1>1, <1>2 DEF HostTypes
  <2>2. \A p \in untriggered', m \in trigger' : <<m, p>> \in running'
    <3>1. trigger' = trigger /\ trigger \subseteq Leaf
      BY DEF setup, GraphTypes
    <3> QED BY <1>1, <1>2, <3>1 DEF HostTypes
  <2>3. /\ host' \in [at : {"idle", "reschedule"}, count : Nat, abandon : {{}}]
        /\ host'.at = "reschedule" <=> host'.count > 0
    BY DEF HostTypes, S!HostIdle
  <2> QED BY <2>1, <2>2, <2>3 DEF HostTypes, setup
<1>9. GraphHolds'
  <2>1. ~all_graph_completed_event'
    <3>1. k = 0 => ~all_graph_completed_event
      BY <1>7 DEF GraphHolds, Quiet
    <3> QED BY <1>1, <3>1
  <2>2. Pipelining' = Pipelining
    BY DEF Pipelining, setup
  <2> QED BY <1>2, <1>7, <2>1, <2>2 DEF GraphHolds
<1>10. schedule_pending_count' \in Nat
  BY <1>1 DEF GraphTypes
<1>11. Cardinality(untriggered') \in Nat
  BY <1>2, <1>3, <1>5
<1>12. schedule_pending_count' = n + schedule_pending_count - k
  BY <1>1
<1>13. Pipelining => Cardinality(untriggered') + schedule_pending_count' =
                       Cardinality(untriggered) + schedule_pending_count + n
  BY <1>2, <1>3, <1>5, <1>6, <1>12
<1>14. GraphTypes'
  BY <1>1
<1> QED BY <1>3, <1>6, <1>7, <1>8, <1>9, <1>10, <1>11, <1>13, <1>14

(* In time, with pipelining. *)
LEMMA ScheduledRuns ==
  ASSUME GraphTypes, HostTypes, GraphRuns, Pipelining, NEW n \in Nat \ {0}, Schedule(n),
         UNCHANGED <<setup, notify>>, host' = host \/ host' = S!HostIdle
  PROVE  /\ GraphTypes' /\ HostTypes' /\ GraphRuns' /\ submitted_count' > 0
         /\ schedule_pending_count \in Nat /\ schedule_pending_count' \in Nat
         /\ Cardinality(untriggered) \in Nat /\ Cardinality(untriggered') \in Nat
         /\ Cardinality(untriggered') + schedule_pending_count' =
              Cardinality(untriggered) + schedule_pending_count + n
<1>1. Pipelining'
  BY DEF Pipelining, setup
<1> QED BY <1>1, ScheduledHolds DEF GraphRuns, Alone

-----------------------------------------------------------------------------
(* The application                                                         *)

(* vxStartGraphStreaming: START goes behind the ticks that are left. *)
LEMMA StartGraphStreamingKeeps ==
  ASSUME Inv, StartGraphStreaming
  PROVE  Inv'
<1>1. PICK start \in Nat, end \in Nat : StreamHolds(start, end)
  BY DEF Inv, StreamInv
<1>2. /\ GraphTypes /\ HostTypes /\ StreamTypes /\ GraphRuns /\ NotMissed
      /\ QueueIs(start, end) /\ RoundsHold(start, end) /\ CallsHold(start, end)
  BY <1>1 DEF Inv, StreamHolds
<1>3. /\ start = 0 /\ end = 0 /\ Quiet /\ task = "get" /\ stream_state = "IDLE"
      /\ app = "idle" /\ ~is_streaming
  BY <1>2 DEF StartGraphStreaming, CallsHold, StreamTypes
<1>4. /\ GraphTypes' /\ HostTypes' /\ GraphRuns' /\ Quiet' /\ UnderWay' = UnderWay
  <2>1. UnderWay' = UnderWay
    BY DEF StartGraphStreaming, UnderWay, stream, setup, Pipelining, graph
  <2> QED BY <1>2, <1>3, <2>1, GraphKept DEF StartGraphStreaming, graph, stream
<1>5. Ticks(0, 0) + UnderWay <= 2 /\ Ticks(0, 0) \in Nat /\ UnderWay \in Nat
  BY <1>2, <1>3, QueueSize, UnderWayType DEF RoundsHold
<1>6. Len(event_q) < EventQueueSize
  BY <1>2, <1>3, <1>5, RoomFor DEF One
<1>7. /\ event_q' \in Seq(Events)
      /\ \E s \in Nat \ {0} :
           QueueIs(s, 0)' /\ Ticks(s, 0)' = Ticks(0, 0) /\ LateTicks(s, 0)' = 0
  BY <1>2, <1>3, <1>6, StartAdded DEF StartGraphStreaming, setup
<1>8. PICK s \in Nat \ {0} :
        QueueIs(s, 0)' /\ Ticks(s, 0)' = Ticks(0, 0) /\ LateTicks(s, 0)' = 0
  BY <1>7
<1>9. Fine(UnderWay + 1)'
  <2>1. CASE Pipelining
    <3>1. UnderWay = IF notify THEN 1 ELSE 0
      BY <1>2, <1>3, <2>1, QuietMeans
    <3>2. notify => trigger_is_leaf
      BY <1>2 DEF HostTypes
    <3>3. Pipelining' = Pipelining /\ trigger_is_leaf' = trigger_is_leaf
      BY DEF StartGraphStreaming, setup, Pipelining
    <3> QED BY <1>4, <2>1, <3>1, <3>2, <3>3 DEF Fine
  <2>2. CASE ~Pipelining
    BY <1>3, <1>4, <2>2 DEF UnderWay, Fine
  <2> QED BY <2>1, <2>2
<1>10. RoundsHold(s, 0)'
  <2>1. stream_state' = "IDLE"
    BY <1>3 DEF StartGraphStreaming, stream
  <2>2. Fine(LateTicks(s, 0) + UnderWay + 1)'
    BY <1>4, <1>5, <1>8, <1>9 DEF Fine
  <2> QED BY <1>4, <1>5, <1>8, <2>1, <2>2 DEF RoundsHold
<1>11. CallsHold(s, 0)'
  BY <1>2, <1>3, <1>4 DEF CallsHold, StartGraphStreaming, stream
<1>12. StreamTypes' /\ NotMissed'
  <2>1. StreamTypes'
    BY <1>2, <1>7 DEF StartGraphStreaming, StreamTypes, stream
  <2>2. NotMissed'
    BY <1>3 DEF StartGraphStreaming, NotMissed, stream
  <2> QED BY <2>1, <2>2
<1> QED BY <1>4, <1>8, <1>10, <1>11, <1>12 DEF Inv, StreamInv, StreamHolds

(* Stopping and releasing: the end of the call is added to the queue. *)
LEMMA EndKeeps ==
  ASSUME Inv, StopGraphStreaming \/ FreeStreaming
  PROVE  Inv'
<1>1. PICK start \in Nat, end \in Nat : StreamHolds(start, end)
  BY DEF Inv, StreamInv
<1>2. /\ GraphTypes /\ HostTypes /\ StreamTypes /\ GraphRuns /\ NotMissed
      /\ QueueIs(start, end) /\ RoundsHold(start, end) /\ CallsHold(start, end)
  BY <1>1 DEF Inv, StreamHolds
<1>3. end = 0 /\ app = "idle"
  BY <1>2 DEF StopGraphStreaming, FreeStreaming, CallsHold
<1>4. /\ UNCHANGED <<graph, host, setup, untriggered, notify, stream, is_streaming, taken, timeouts>>
      /\ event_q' = Add(event_q, EndCall')
      /\ (app' = "stopping" /\ is_streaming /\ stop_done' = FALSE /\ delete_done' = delete_done)
          \/ (app' = "releasing" /\ delete_done' = FALSE /\ stop_done' = stop_done)
  BY DEF StopGraphStreaming, FreeStreaming, EndCall
<1>5. GraphTypes' /\ HostTypes' /\ GraphRuns' /\ Quiet' = Quiet /\ UnderWay' = UnderWay
  <2>1. UnderWay' = UnderWay
    BY <1>4 DEF UnderWay, stream, setup, Pipelining, graph
  <2> QED BY <1>2, <1>4, <2>1, GraphKept DEF graph, stream
<1>6. /\ Ticks(start, 0) + UnderWay <= 2 /\ Ticks(start, 0) \in Nat /\ UnderWay \in Nat
      /\ One(start) \in 0 .. 1
  BY <1>2, <1>3, QueueSize, UnderWayType DEF RoundsHold
<1>7. Len(event_q) < EventQueueSize
  <2>1. Ticks(start, 0) + One(start) + One(0) <= 3
    BY <1>6 DEF One
  <2> QED BY <1>2, <1>3, <2>1, RoomFor
<1>8. /\ event_q' \in Seq(Events)
      /\ \E e \in Nat \ {0} :
           /\ QueueIs(start, e)'
           /\ Ticks(start, e)' = Ticks(start, 0) /\ LateTicks(start, e)' = LateTicks(start, 0)
  BY <1>2, <1>3, <1>4, <1>7, EndAdded DEF setup
<1>9. PICK e \in Nat \ {0} :
        /\ QueueIs(start, e)'
        /\ Ticks(start, e)' = Ticks(start, 0) /\ LateTicks(start, e)' = LateTicks(start, 0)
  BY <1>8
<1>10. RoundsHold(start, e)'
  BY <1>2, <1>3, <1>4, <1>5, <1>9 DEF RoundsHold, Fine, stream, setup, Pipelining
<1>11. CallsHold(start, e)'
  <2>1. task \in {"get", "wait_run"} /\ ~stop_done /\ ~delete_done
    BY <1>2, <1>3 DEF CallsHold, StreamTypes
  <2>2. Pipelining' = Pipelining
    BY <1>4 DEF Pipelining, setup
  <2> QED BY <1>2, <1>3, <1>4, <1>5, <2>1, <2>2 DEF CallsHold, stream
<1>12. StreamTypes' /\ NotMissed'
  <2>1. StreamTypes'
    BY <1>2, <1>4, <1>8 DEF StreamTypes, stream
  <2>2. NotMissed'
    BY <1>2, <1>4, <1>5 DEF NotMissed, stream, Pipelining, setup, graph
  <2> QED BY <2>1, <2>2
<1> QED BY <1>5, <1>9, <1>10, <1>11, <1>12 DEF Inv, StreamInv, StreamHolds

(* A wait that times out is not in time. *)
LEMMA Late ==
  ASSUME StreamTypes, InTime'
  PROVE  ~TimesOut
  BY DEF StreamTypes, InTime, TimesOut

(* So in time a wait for the graph ends with the event. *)
LEMMA EndsWithEvent ==
  ASSUME StreamTypes, InTime', NEW status, WaitGraphEnds(status)
  PROVE  status = "SUCCESS" /\ TakeEvent /\ UNCHANGED timeouts
  BY Late DEF WaitGraphEnds

(* The returns of stopping and releasing, and the other threads. *)
LEMMA ReturnKeeps ==
  ASSUME Inv, InTime',
         StopReturns \/ Released \/ \E w \in Waiter : WaitGraph(w) \/ WaitReturns(w)
  PROVE  Inv'
<1>1. PICK start \in Nat, end \in Nat : StreamHolds(start, end)
  BY DEF Inv, StreamInv
<1>2. /\ GraphTypes /\ HostTypes /\ StreamTypes /\ GraphRuns /\ NotMissed
      /\ QueueIs(start, end) /\ RoundsHold(start, end) /\ CallsHold(start, end)
  BY <1>1 DEF Inv, StreamHolds
<1>0. Released => delete_done /\ UNCHANGED timeouts
  BY <1>2, Late DEF Released
<1>3. /\ UNCHANGED <<free_q, submitted_count, schedule_pending_count, graph_state, desc_state,
                     complete_leaf_nodes, running, host, setup, untriggered, notify, event_q,
                     stream, timeouts>>
      /\ all_graph_completed_event' = all_graph_completed_event
           \/ all_graph_completed_event' = FALSE
      /\ taken' \/ UNCHANGED <<all_graph_completed_event, taken>>
  BY <1>0 DEF StopReturns, Released, WaitGraph, WaitReturns, TakeEvent, graph
<1>4. \/ /\ app = "stopping" /\ stop_done /\ ~stop_done' /\ ~is_streaming' /\ app' = "idle"
         /\ delete_done' = delete_done
      \/ /\ app = "releasing" /\ delete_done /\ ~delete_done' /\ app' = "released"
         /\ UNCHANGED <<is_streaming, stop_done>>
      \/ UNCHANGED control
  BY <1>0 DEF StopReturns, Released, WaitGraph, WaitReturns
<1>5. GraphTypes' /\ HostTypes' /\ GraphRuns' /\ Quiet' = Quiet /\ UnderWay' = UnderWay
  <2>1. UnderWay' = UnderWay
    BY <1>3 DEF UnderWay, stream, setup, Pipelining
  <2> QED BY <1>2, <1>3, <2>1, GraphKept DEF stream
<1>6. app' = app \/ end = 0
  BY <1>2, <1>4 DEF CallsHold, control
<1>7. /\ QueueIs(start, end)'
      /\ Ticks(start, end)' = Ticks(start, end) /\ LateTicks(start, end)' = LateTicks(start, end)
  BY <1>2, <1>3, <1>6, QueueKept DEF setup
<1>8. RoundsHold(start, end)'
  BY <1>2, <1>3, <1>5, <1>7 DEF RoundsHold, Fine, stream, setup, Pipelining
<1>9. CallsHold(start, end)'
  <2>1. Pipelining' = Pipelining /\ stream_state' = stream_state /\ task' = task
    BY <1>3 DEF Pipelining, setup, stream
  <2>2. CASE app = "stopping" /\ stop_done /\ ~stop_done' /\ ~is_streaming' /\ app' = "idle"
             /\ delete_done' = delete_done
    BY <1>2, <1>5, <2>1, <2>2 DEF CallsHold, StreamTypes
  <2>3. CASE app = "releasing" /\ delete_done /\ ~delete_done' /\ app' = "released"
             /\ UNCHANGED <<is_streaming, stop_done>>
    BY <1>2, <1>5, <2>1, <2>3 DEF CallsHold, StreamTypes
  <2>4. CASE UNCHANGED control
    BY <1>2, <1>5, <2>1, <2>4 DEF CallsHold, control
  <2> QED BY <1>4, <2>2, <2>3, <2>4
<1>10. StreamTypes'
  <2>1. is_streaming' \in BOOLEAN /\ stop_done' \in BOOLEAN /\ delete_done' \in BOOLEAN
    BY <1>2 DEF StreamTypes, StopReturns, Released, WaitGraph, WaitReturns, control
  <2>2. app' \in {"idle", "stopping", "releasing", "released"}
    BY <1>2, <1>4 DEF StreamTypes, control
  <2> QED BY <1>2, <1>3, <2>1, <2>2 DEF StreamTypes, stream
<1>11. NotMissed'
  BY <1>2, <1>3, <1>5 DEF NotMissed, stream, Pipelining, setup
<1> QED BY <1>5, <1>7, <1>8, <1>9, <1>10, <1>11 DEF Inv, StreamInv, StreamHolds

-----------------------------------------------------------------------------
(* The streaming task                                                      *)

(* An execution by itself: the one pipeline id is taken, nothing is pending. *)
LEMMA ScheduledAlone ==
  ASSUME GraphTypes, HostTypes, GraphRuns, ~Pipelining, submitted_count = 0,
         Schedule(1), task' = "wait_run", UNCHANGED <<setup, notify, host>>
  PROVE  GraphTypes' /\ HostTypes' /\ GraphRuns' /\ submitted_count' > 0
<1>1. GraphTypes' /\ HostTypes' /\ GraphHolds' /\ submitted_count' > 0
  BY ScheduledHolds DEF GraphRuns
<1>2. /\ schedule_pending_count = 0 /\ host.count = 0 /\ Len(free_q) = 1
  BY DEF GraphTypes, GraphRuns, Alone, Pipelining
<1>3. S!Started(1) = 1
  BY <1>2 DEF S!Started, S!Smaller
<1>4. schedule_pending_count' = 0
  BY <1>2, <1>3 DEF Schedule, S!ScheduleGraph, S!StillPending
<1> QED BY <1>1, <1>2, <1>4 DEF GraphRuns, Alone, Pipelining, setup

(* START gone from the head and a tick added. *)
LEMMA StartToTick ==
  ASSUME StreamTypes, NEW start \in Nat, NEW end \in Nat, QueueIs(start, end),
         event_q # <<>>, Len(event_q) <= EventQueueSize, event_q' = Add(Tail(event_q), Tick),
         UNCHANGED <<pipeline_depth, app>>
  PROVE  /\ QueueIs(Prev(start), Prev(end))' /\ event_q' \in Seq(Events)
         /\ start = 1 => Ticks(Prev(start), Prev(end))' = LateTicks(start, end) + 1
<1>0. PICK q : q = Tail(event_q)
  OBVIOUS
<1>1. /\ q \in Seq(Events) /\ Len(q) = Len(event_q) - 1
      /\ Prev(start) \in 0 .. Len(q) /\ Prev(end) \in 0 .. Len(q)
      /\ Prev(start) > 0 /\ Prev(end) > 0 => Prev(start) < Prev(end)
      /\ \A i \in 1 .. Len(q) :
           q[i] = IF i = Prev(start) THEN "START" ELSE IF i = Prev(end) THEN EndCall ELSE Tick
  BY <1>0, HeadRemoved
<1>2. Len(event_q) \in Nat /\ (start = 1 => Prev(start) = 0 /\ One(Prev(end)) = One(end))
  BY DEF QueueIs, StreamTypes, Prev, One
<1>3. Len(q) < EventQueueSize /\ Len(q) \in Nat
  BY <1>1, <1>2, EventQueueAssumption
<1>4. event_q' = Append(q, Tick)
  BY <1>0, <1>3 DEF Add
<1>5. /\ event_q' \in Seq(Events) /\ Len(event_q') = Len(q) + 1
      /\ \A i \in 1 .. Len(q) : event_q'[i] = q[i]
      /\ event_q'[Len(q) + 1] = Tick
  <2>1. Tick \in Events
    BY EventsAre
  <2>2. q \in Seq(Events)
    BY <1>1
  <2> HIDE DEF Tick
  <2> DEFINE t == Tick
  <2> HIDE DEF t
  <2>3. t \in Events /\ event_q' = Append(q, t)
    BY <1>4, <2>1 DEF t
  <2>4. /\ event_q' \in Seq(Events) /\ Len(event_q') = Len(q) + 1
        /\ \A i \in 1 .. Len(q) : event_q'[i] = q[i]
        /\ event_q'[Len(q) + 1] = t
    BY <2>2, <2>3, AppendProperties
  <2> QED BY <2>4 DEF t
<1>6. Tick' = Tick /\ EndCall' = EndCall
  BY DEF Tick, EndCall, Pipelining
<1>7. ASSUME NEW i \in 1 .. Len(event_q')
      PROVE  event_q'[i] =
               IF i = Prev(start) THEN "START" ELSE IF i = Prev(end) THEN EndCall' ELSE Tick'
  <2>1. CASE i \in 1 .. Len(q)
    BY <1>1, <1>2, <1>5, <1>6, <2>1
  <2>2. CASE i = Len(q) + 1
    <3>1. i # Prev(start) /\ i # Prev(end)
      BY <1>1, <1>3, <2>2
    <3> QED BY <1>5, <1>6, <2>2, <3>1
  <2> QED BY <1>3, <1>5, <2>1, <2>2
<1>8. QueueIs(Prev(start), Prev(end))'
  BY <1>1, <1>3, <1>5, <1>6, <1>7 DEF QueueIs
<1>9. Len(event_q') = Len(event_q)
  BY <1>1, <1>2, <1>5
<1>10. start = 1 => Ticks(Prev(start), Prev(end))' = LateTicks(start, end) + 1
  BY <1>2, <1>9 DEF Ticks, LateTicks, One, Prev
<1> QED BY <1>5, <1>8, <1>10

(* START: the round that begins makes up the rounds of the graph that *)
(* streams.                                                           *)
LEMMA StartIdleKeeps ==
  ASSUME Inv, StartIdle
  PROVE  Inv'
<1>1. PICK start \in Nat, end \in Nat : StreamHolds(start, end)
  BY DEF Inv, StreamInv
<1>2. /\ GraphTypes /\ HostTypes /\ StreamTypes /\ GraphRuns /\ NotMissed
      /\ QueueIs(start, end) /\ RoundsHold(start, end) /\ CallsHold(start, end)
  BY <1>1 DEF Inv, StreamHolds
<1>3. start = 1 /\ event_q # <<>> /\ task = "get"
  BY <1>2, HeadIs, EventsAre DEF StartIdle, Obtains
<1>4. Quiet /\ is_streaming /\ Fine(LateTicks(1, end) + UnderWay + 1)
  BY <1>2, <1>3 DEF CallsHold, RoundsHold
<1>5. /\ UnderWay \in Nat /\ LateTicks(1, end) \in Nat
      /\ LateTicks(1, end) + UnderWay + 1 <= 2
      /\ Len(event_q) = LateTicks(1, end) + 1 + One(end) /\ One(end) \in 0 .. 1
      /\ end # 1
  <2>1. UnderWay \in Nat
    BY <1>2, UnderWayType
  <2>2. LateTicks(1, end) \in Nat /\ One(end) \in 0 .. 1 /\ Len(event_q) \in Nat
    BY <1>2, <1>3, QueueSize
  <2>3. LateTicks(1, end) + UnderWay + 1 <= 2
    BY <1>4, <2>1, <2>2 DEF Fine
  <2>4. end # 1
    BY <1>2, <1>3 DEF QueueIs
  <2> QED BY <2>1, <2>2, <2>3, <2>4 DEF LateTicks
<1>6. /\ ~stop_done /\ ~delete_done /\ (app = "idle" \/ end > 0)
      /\ end > 0 => app \in {"stopping", "releasing"}
  BY <1>2, <1>3 DEF CallsHold, StreamTypes
<1>7. /\ UNCHANGED <<host, setup, notify, task, control, taken, timeouts>>
      /\ stream_state' = "RUNNING"
      /\ Pipelining' = Pipelining /\ app' = app /\ pipeline_depth' = pipeline_depth
      /\ trigger_is_leaf' = trigger_is_leaf
  BY DEF StartIdle, setup, control, Pipelining
<1>8. Prev(end) \in Nat /\ (Prev(end) > 0 <=> end > 0)
  BY <1>5 DEF Prev
<1>9. CallsHold(0, Prev(end))'
  BY <1>3, <1>4, <1>6, <1>7, <1>8 DEF CallsHold, control
<1>10. executions' \in 0 .. 1
  BY <1>2 DEF StartIdle, NextExecution, StreamTypes
<1>11. CASE Pipelining
  <2>1. event_q' = Tail(event_q)
    BY <1>11 DEF StartIdle
  <2>2. /\ QueueIs(0, Prev(end))' /\ event_q' \in Seq(Events)
        /\ Ticks(0, Prev(end))' = LateTicks(1, end)
    <3>1. Prev(1) = 0
      BY DEF Prev
    <3> QED BY <1>2, <1>3, <1>7, <2>1, <3>1, HeadGone
  <2>3. Schedule(1)
    <3>1. graph_state # "RUNNING" /\ graph_state \in S!States
      BY <1>2, <1>4 DEF GraphRuns, GraphHolds, Quiet, GraphTypes
    <3> QED BY <1>11, <3>1 DEF StartIdle, S!States
  <2>4. /\ GraphTypes' /\ HostTypes' /\ GraphRuns' /\ submitted_count' > 0
        /\ schedule_pending_count \in Nat /\ schedule_pending_count' \in Nat
        /\ Cardinality(untriggered) \in Nat /\ Cardinality(untriggered') \in Nat
        /\ Cardinality(untriggered') + schedule_pending_count' =
             Cardinality(untriggered) + schedule_pending_count + 1
    <3>1. Schedule(1) /\ UNCHANGED <<setup, notify>> /\ host' = host
      BY <1>7, <2>3
    <3>2. GraphTypes /\ HostTypes /\ GraphRuns /\ 1 \in Nat \ {0}
      BY <1>2
    <3> QED BY <1>11, <3>1, <3>2, ScheduledRuns
  <2>5. UnderWay' = UnderWay + 1
    <3>1. host' = host /\ notify' = notify /\ host.count \in Nat
      BY <1>2, <1>7 DEF HostTypes
    <3> QED BY <1>7, <1>11, <2>4, <3>1 DEF UnderWay
  <2>6. RoundsHold(0, Prev(end))'
    <3>1. Ticks(0, Prev(end))' + UnderWay' = LateTicks(1, end) + UnderWay + 1
      BY <1>5, <2>2, <2>5
    <3> QED BY <1>4, <1>5, <1>7, <3>1 DEF RoundsHold, Fine
  <2>7. StreamTypes'
    BY <1>2, <1>7, <1>10, <2>2 DEF StreamTypes, control
  <2>8. NotMissed'
    BY <2>4 DEF NotMissed, Quiet
  <2> QED BY <1>8, <1>9, <2>2, <2>4, <2>6, <2>7, <2>8 DEF Inv, StreamInv, StreamHolds
<1>12. CASE ~Pipelining
  <2>1. event_q' = Add(Tail(event_q), Tick) /\ UNCHANGED <<graph, untriggered>>
    BY <1>12 DEF StartIdle, Tick
  <2>2. /\ QueueIs(0, Prev(end))' /\ event_q' \in Seq(Events)
        /\ Ticks(0, Prev(end))' = LateTicks(1, end) + 1
    <3>1. Len(event_q) <= EventQueueSize
      BY <1>5, EventQueueAssumption
    <3>2. /\ QueueIs(Prev(start), Prev(end))' /\ event_q' \in Seq(Events)
          /\ start = 1 => Ticks(Prev(start), Prev(end))' = LateTicks(start, end) + 1
      BY <1>2, <1>3, <1>7, <2>1, <3>1, StartToTick
    <3>3. Prev(start) = 0
      BY <1>3 DEF Prev
    <3> QED BY <1>3, <3>2, <3>3
  <2>3. GraphTypes' /\ HostTypes' /\ GraphRuns'
    BY <1>2, <1>7, <2>1, GraphKept DEF graph
  <2>4. UnderWay' = 0 /\ UnderWay = 0
    BY <1>3, <1>7, <1>12 DEF UnderWay
  <2>5. RoundsHold(0, Prev(end))'
    <3>1. Ticks(0, Prev(end))' + UnderWay' = LateTicks(1, end) + UnderWay + 1
      BY <1>5, <2>2, <2>4
    <3> QED BY <1>4, <1>5, <1>7, <3>1 DEF RoundsHold, Fine
  <2>6. StreamTypes'
    BY <1>2, <1>7, <1>10, <2>2 DEF StreamTypes, control
  <2>7. NotMissed'
    BY <1>3, <1>7, <1>12 DEF NotMissed
  <2> QED BY <1>8, <1>9, <2>2, <2>3, <2>5, <2>6, <2>7 DEF Inv, StreamInv, StreamHolds
<1> QED BY <1>11, <1>12

(* RUN and STREAMING_EVENT: the graph is scheduled once more. *)
LEMMA NextExecutionKeeps ==
  ASSUME Inv, RunRunning \/ TriggerRunning
  PROVE  Inv'
<1>1. PICK start \in Nat, end \in Nat : StreamHolds(start, end)
  BY DEF Inv, StreamInv
<1>2. /\ GraphTypes /\ HostTypes /\ StreamTypes /\ GraphRuns /\ NotMissed
      /\ QueueIs(start, end) /\ RoundsHold(start, end) /\ CallsHold(start, end)
  BY <1>1 DEF Inv, StreamHolds
<1>3. /\ stream_state = "RUNNING" /\ task = "get" /\ event_q # <<>>
      /\ event_q' = Tail(event_q) /\ Schedule(1)
      /\ Head(event_q) \in {"RUN", "STREAMING_EVENT"}
      /\ UNCHANGED <<host, setup, notify, stream_state, control, taken, timeouts>>
  BY DEF RunRunning, TriggerRunning, Obtains
<1>4. start = 0 /\ end # 1 /\ is_streaming
  BY <1>2, <1>3, HeadIs, EventsAre DEF CallsHold
<1>5. Head(event_q) = Tick
  BY <1>2, <1>3, <1>4, HeadIs
<1>6. /\ Pipelining => TriggerRunning /\ task' = "get"
      /\ ~Pipelining => RunRunning /\ task' = "wait_run"
  BY <1>3, <1>5 DEF Tick, RunRunning, TriggerRunning, Obtains, Schedule
<1>7. /\ Pipelining' = Pipelining /\ app' = app /\ pipeline_depth' = pipeline_depth
      /\ trigger_is_leaf' = trigger_is_leaf /\ stream_state' = "RUNNING"
  BY <1>3 DEF setup, control, Pipelining
<1>8. Prev(end) \in Nat /\ (Prev(end) > 0 <=> end > 0)
  BY <1>4 DEF Prev
<1>9. /\ QueueIs(0, Prev(end))' /\ event_q' \in Seq(Events)
      /\ Ticks(0, Prev(end))' = Ticks(0, end) - 1
  <2>1. Prev(0) = 0
    BY DEF Prev
  <2> QED BY <1>2, <1>3, <1>4, <1>7, <2>1, HeadGone
<1>10. /\ GraphTypes' /\ HostTypes' /\ GraphRuns' /\ submitted_count' > 0
       /\ UnderWay' = UnderWay + 1
  <2>1. CASE Pipelining
    <3>1. /\ GraphTypes' /\ HostTypes' /\ GraphRuns' /\ submitted_count' > 0
          /\ schedule_pending_count \in Nat /\ schedule_pending_count' \in Nat
          /\ Cardinality(untriggered) \in Nat /\ Cardinality(untriggered') \in Nat
          /\ Cardinality(untriggered') + schedule_pending_count' =
               Cardinality(untriggered) + schedule_pending_count + 1
      <4>1. Schedule(1) /\ UNCHANGED <<setup, notify>> /\ host' = host
        BY <1>3
      <4> QED BY <1>2, <2>1, <4>1, ScheduledRuns
    <3>2. host' = host /\ notify' = notify /\ host.count \in Nat
      BY <1>2, <1>3 DEF HostTypes
    <3>3. UnderWay' = UnderWay + 1
      BY <1>7, <2>1, <3>1, <3>2 DEF UnderWay
    <3> QED BY <3>1, <3>3
  <2>2. CASE ~Pipelining
    <3>1. submitted_count = 0
      BY <1>2, <1>3, <2>2 DEF GraphRuns, Alone, GraphTypes
    <3>2. GraphTypes' /\ HostTypes' /\ GraphRuns' /\ submitted_count' > 0
      BY <1>2, <1>3, <1>6, <2>2, <3>1, ScheduledAlone
    <3>3. UnderWay' = 1 /\ UnderWay = 0
      BY <1>3, <1>6, <1>7, <2>2 DEF UnderWay
    <3> QED BY <3>2, <3>3
  <2> QED BY <2>1, <2>2
<1>11. RoundsHold(0, Prev(end))'
  <2>1. Ticks(0, end) \in Nat /\ UnderWay \in Nat
    BY <1>2, <1>4, QueueSize, UnderWayType
  <2>2. Ticks(0, Prev(end))' + UnderWay' = Ticks(0, end) + UnderWay
    BY <1>9, <1>10, <2>1
  <2>3. Ticks(0, end) + UnderWay <= 2 /\ Fine(Ticks(0, end) + UnderWay)
    BY <1>2, <1>3, <1>4 DEF RoundsHold
  <2> QED BY <1>7, <2>2, <2>3 DEF RoundsHold, Fine
<1>12. CallsHold(0, Prev(end))'
  <2>1. ~stop_done /\ ~delete_done /\ (app = "idle" \/ end > 0)
    BY <1>2, <1>3 DEF CallsHold, StreamTypes
  <2>2. end > 0 => app \in {"stopping", "releasing"}
    BY <1>2 DEF CallsHold
  <2>3. task' \in {"get", "wait_run"} /\ (task' = "wait_run" => ~Pipelining)
    BY <1>6
  <2> QED BY <1>3, <1>4, <1>7, <1>8, <2>1, <2>2, <2>3 DEF CallsHold, control
<1>13. StreamTypes'
  <2>1. executions' \in 0 .. 1 /\ task' \in {"get", "wait_run"}
    BY <1>2, <1>6 DEF RunRunning, TriggerRunning, NextExecution, StreamTypes
  <2> QED BY <1>2, <1>3, <1>9, <2>1 DEF StreamTypes, control
<1>14. NotMissed'
  BY <1>10 DEF NotMissed, Quiet
<1> QED BY <1>8, <1>9, <1>10, <1>11, <1>12, <1>13, <1>14 DEF Inv, StreamInv, StreamHolds

(* The execution waited for is over: the task sends itself RUN. *)
LEMMA RunWaitedKeeps ==
  ASSUME Inv, InTime', NEW status, RunWaited(status)
  PROVE  Inv'
<1>1. PICK start \in Nat, end \in Nat : StreamHolds(start, end)
  BY DEF Inv, StreamInv
<1>2. /\ GraphTypes /\ HostTypes /\ StreamTypes /\ GraphRuns /\ NotMissed
      /\ QueueIs(start, end) /\ RoundsHold(start, end) /\ CallsHold(start, end)
  BY <1>1 DEF Inv, StreamHolds
<1>3. start = 0 /\ stream_state = "RUNNING" /\ ~Pipelining /\ is_streaming /\ task = "wait_run"
  BY <1>2 DEF CallsHold, RunWaited
<1>0. TakeEvent /\ UNCHANGED timeouts
  BY <1>2, EndsWithEvent DEF RunWaited
<1>4. /\ UNCHANGED <<free_q, submitted_count, schedule_pending_count, graph_state, desc_state,
                     complete_leaf_nodes, running, host, setup, untriggered, notify,
                     stream_state, control, taken, timeouts>>
      /\ all_graph_completed_event' = FALSE /\ submitted_count = 0 /\ task' = "get"
      /\ event_q' = Add(event_q, Tick)
  BY <1>0, <1>2, <1>3 DEF RunWaited, TakeEvent, RunAgain, Tick, GraphRuns, GraphHolds, Quiet
<1>5. /\ Pipelining' = Pipelining /\ app' = app /\ pipeline_depth' = pipeline_depth
      /\ trigger_is_leaf' = trigger_is_leaf
  BY <1>4 DEF setup, control, Pipelining
<1>6. GraphTypes' /\ HostTypes' /\ GraphRuns' /\ Quiet' = Quiet
  BY <1>2, <1>4, GraphKept
<1>7. UnderWay = 1 /\ UnderWay' = 0
  BY <1>3, <1>4, <1>5 DEF UnderWay
<1>8. /\ Ticks(0, end) \in Nat /\ Ticks(0, end) + UnderWay <= 2 /\ One(end) \in 0 .. 1
      /\ Fine(Ticks(0, end) + UnderWay)
  BY <1>2, <1>3, QueueSize DEF RoundsHold
<1>9. Len(event_q) < EventQueueSize
  <2>1. Ticks(0, end) + One(0) + One(end) <= 3
    BY <1>7, <1>8 DEF One
  <2> QED BY <1>2, <1>3, <2>1, RoomFor
<1>10. /\ QueueIs(0, end)' /\ event_q' \in Seq(Events)
       /\ Ticks(0, end)' = Ticks(0, end) + 1
  BY <1>2, <1>3, <1>4, <1>5, <1>9, TickAdded
<1>11. RoundsHold(0, end)'
  <2>1. Ticks(0, end)' + UnderWay' = Ticks(0, end) + UnderWay
    BY <1>7, <1>8, <1>10
  <2> QED BY <1>5, <1>8, <2>1 DEF RoundsHold, Fine
<1>12. CallsHold(0, end)'
  <2>1. ~stop_done /\ ~delete_done /\ (app = "idle" \/ end > 0)
    BY <1>2, <1>3 DEF CallsHold, StreamTypes
  <2>2. end > 0 => app \in {"stopping", "releasing"}
    BY <1>2 DEF CallsHold
  <2> QED BY <1>3, <1>4, <2>1, <2>2 DEF CallsHold, control
<1>13. StreamTypes'
  <2>1. executions' \in 0 .. 1
    BY <1>2 DEF RunWaited, NextExecution, StreamTypes
  <2> QED BY <1>2, <1>4, <1>10, <2>1 DEF StreamTypes, control
<1>14. NotMissed'
  BY <1>3, <1>4, <1>5 DEF NotMissed
<1> QED BY <1>6, <1>10, <1>11, <1>12, <1>13, <1>14 DEF Inv, StreamInv, StreamHolds

(* STOP and DELETE: the end of a call gone from the head. *)
LEMMA EndTakenKeeps ==
  ASSUME Inv, Stop \/ Delete
  PROVE  Inv'
<1>1. PICK start \in Nat, end \in Nat : StreamHolds(start, end)
  BY DEF Inv, StreamInv
<1>2. /\ GraphTypes /\ HostTypes /\ StreamTypes /\ GraphRuns /\ NotMissed
      /\ QueueIs(start, end) /\ RoundsHold(start, end) /\ CallsHold(start, end)
  BY <1>1 DEF Inv, StreamHolds
<1>3. /\ task = "get" /\ event_q # <<>> /\ event_q' = Tail(event_q)
      /\ Head(event_q) \in {"STOP", "DELETE"}
      /\ UNCHANGED <<graph, host, setup, untriggered, notify, executions, is_streaming, app, taken,
                     timeouts>>
      /\ (Head(event_q) = "STOP" /\ Stop) \/ (Head(event_q) = "DELETE" /\ Delete)
  BY DEF Stop, Delete, Obtains
<1>4. end = 1 /\ start = 0 /\ Head(event_q) = EndCall
  <2>1. start # 1 /\ end = 1
    BY <1>2, <1>3, HeadIs, EventsAre
  <2>2. Head(event_q) = EndCall
    BY <1>2, <1>3, <2>1, HeadIs
  <2> QED BY <2>1, <2>2, <1>2 DEF QueueIs
<1>5. \/ app = "stopping" /\ Stop
      \/ app = "releasing" /\ Delete
  <2>1. app \in {"stopping", "releasing"}
    BY <1>2, <1>4 DEF CallsHold
  <2> QED BY <1>3, <1>4, <2>1 DEF EndCall
<1>6. /\ Pipelining' = Pipelining /\ pipeline_depth' = pipeline_depth /\ trigger_is_leaf' = trigger_is_leaf
  BY <1>3 DEF setup, Pipelining
<1>7. ~Pipelining => submitted_count = 0 /\ Quiet
  BY <1>2, <1>3 DEF GraphRuns, Alone, GraphTypes, Quiet
<1>8. /\ task' \in {"get", "wait_stop", "wait_delete", "ended"}
      /\ stream_state' \in {"IDLE", "RUNNING"}
      /\ stop_done' \in BOOLEAN /\ delete_done' \in BOOLEAN
  BY <1>2, <1>3, <1>5 DEF Stop, Delete, StreamTypes
<1>9. GraphTypes' /\ HostTypes' /\ GraphRuns' /\ Quiet' = Quiet /\ UnderWay' = UnderWay
  <2>1. /\ GraphTypes' /\ HostTypes' /\ GraphRuns' /\ Quiet' = Quiet
        /\ Pipelining => UnderWay' = UnderWay
    BY <1>2, <1>3, <1>7, GraphKept DEF graph
  <2>2. ~Pipelining => UnderWay' = UnderWay
    BY <1>3, <1>6, <1>8 DEF UnderWay
  <2> QED BY <2>1, <2>2
<1>10. /\ QueueIs(0, 0)' /\ event_q' \in Seq(Events)
       /\ Ticks(0, 0)' = Ticks(0, 1)
  <2>1. Prev(start) = 0 /\ Prev(end) = 0
    BY <1>4 DEF Prev
  <2>2. /\ QueueIs(Prev(start), Prev(end))' /\ event_q' \in Seq(Events)
        /\ Ticks(Prev(start), Prev(end))' =
             Ticks(start, end) - (IF start = 1 \/ end = 1 THEN 0 ELSE 1)
    BY <1>2, <1>3, <1>6, HeadGone
  <2>3. Ticks(start, end) \in Nat
    BY <1>2, QueueSize
  <2> QED BY <1>4, <2>1, <2>2, <2>3
<1>11. ~stop_done /\ ~delete_done
  BY <1>2, <1>3, <1>4 DEF CallsHold, StreamTypes
<1>12. is_streaming => stream_state = "RUNNING"
  BY <1>2, <1>4 DEF CallsHold
<1>13. CASE app = "stopping" /\ Stop
  <2>1. is_streaming /\ stream_state = "RUNNING"
    BY <1>2, <1>12, <1>13 DEF CallsHold, StreamTypes
  <2>2. /\ stream_state' = "IDLE" /\ delete_done' = delete_done
        /\ \/ Pipelining /\ task' = "wait_stop" /\ stop_done' = stop_done
           \/ ~Pipelining /\ task' = "get" /\ stop_done' = TRUE
    BY <1>3, <1>13, <2>1 DEF Stop, WaitsForGraph
  <2>3. CallsHold(0, 0)'
    BY <1>3, <1>6, <1>7, <1>9, <1>11, <1>13, <2>1, <2>2 DEF CallsHold
  <2>4. RoundsHold(0, 0)'
    BY <1>2, <1>4, <1>9, <1>10, <2>2 DEF RoundsHold
  <2>5. NotMissed'
    BY <1>2, <1>3, <1>6, <1>9, <2>1, <2>2 DEF NotMissed, graph
  <2>6. StreamTypes'
    BY <1>2, <1>3, <1>8, <1>10 DEF StreamTypes
  <2> QED BY <1>9, <1>10, <2>3, <2>4, <2>5, <2>6 DEF Inv, StreamInv, StreamHolds
<1>14. CASE app = "releasing" /\ Delete
  <2>1. /\ stop_done' = stop_done
        /\ \/ /\ task' = "wait_delete" /\ stream_state = "RUNNING" /\ ~Pipelining
              /\ UNCHANGED <<stream_state, delete_done>>
           \/ task' = "ended" /\ stream_state' = "IDLE" /\ delete_done' = TRUE
    BY <1>14 DEF Delete
  <2>2. CallsHold(0, 0)'
    BY <1>2, <1>3, <1>6, <1>9, <1>11, <1>14, <2>1 DEF CallsHold
  <2>3. RoundsHold(0, 0)'
    BY <1>2, <1>4, <1>6, <1>9, <1>10, <2>1 DEF RoundsHold, Fine
  <2>4. NotMissed'
    BY <1>6, <2>1 DEF NotMissed
  <2>5. StreamTypes'
    BY <1>2, <1>3, <1>8, <1>10 DEF StreamTypes
  <2> QED BY <1>9, <1>10, <2>2, <2>3, <2>4, <2>5 DEF Inv, StreamInv, StreamHolds
<1> QED BY <1>5, <1>13, <1>14

(* The wait before the task says that it stopped or ended is over. *)
LEMMA WaitedKeeps ==
  ASSUME Inv, InTime', NEW status, Waited(status)
  PROVE  Inv'
<1>1. PICK start \in Nat, end \in Nat : StreamHolds(start, end)
  BY DEF Inv, StreamInv
<1>2. /\ GraphTypes /\ HostTypes /\ StreamTypes /\ GraphRuns /\ NotMissed
      /\ QueueIs(start, end) /\ RoundsHold(start, end) /\ CallsHold(start, end)
  BY <1>1 DEF Inv, StreamHolds
<1>3. start = 0 /\ end = 0 /\ task \in {"wait_stop", "wait_delete"}
  BY <1>2 DEF CallsHold, Waited
<1>0. TakeEvent /\ UNCHANGED timeouts
  BY <1>2, EndsWithEvent DEF Waited
<1>4. /\ UNCHANGED <<free_q, submitted_count, schedule_pending_count, graph_state, desc_state,
                     complete_leaf_nodes, running, host, setup, untriggered, notify, event_q,
                     executions, is_streaming, app, taken, timeouts>>
      /\ all_graph_completed_event' = FALSE /\ Quiet /\ submitted_count = 0
  BY <1>0, <1>2 DEF Waited, TakeEvent, GraphRuns, GraphHolds, Quiet
<1>5. /\ Pipelining' = Pipelining /\ app' = app /\ pipeline_depth' = pipeline_depth
      /\ trigger_is_leaf' = trigger_is_leaf
  BY <1>4 DEF setup, Pipelining
<1>6. \/ /\ task = "wait_stop" /\ task' = "get" /\ stop_done' = TRUE
         /\ UNCHANGED <<stream_state, delete_done>>
      \/ /\ task = "wait_delete" /\ task' = "ended" /\ stream_state' = "IDLE"
         /\ delete_done' = TRUE /\ stop_done' = stop_done
  BY DEF Waited, SaysStopped
<1>7. GraphTypes' /\ HostTypes' /\ GraphRuns' /\ Quiet' = Quiet /\ UnderWay' = UnderWay
  <2>1. /\ GraphTypes' /\ HostTypes' /\ GraphRuns' /\ Quiet' = Quiet
        /\ Pipelining => UnderWay' = UnderWay
    BY <1>2, <1>4, GraphKept
  <2>2. ~Pipelining => UnderWay' = UnderWay
    BY <1>5, <1>6 DEF UnderWay
  <2> QED BY <2>1, <2>2
<1>8. QueueIs(0, 0)' /\ Ticks(0, 0)' = Ticks(0, 0)
  BY <1>2, <1>3, <1>4, <1>5, QueueKept
<1>9. stream_state' = "IDLE"
  BY <1>2, <1>6 DEF CallsHold
<1>10. RoundsHold(0, 0)'
  BY <1>2, <1>3, <1>7, <1>8, <1>9 DEF RoundsHold
<1>11. CallsHold(0, 0)'
  <2>1. CASE task = "wait_stop"
    <3>1. app = "stopping" /\ stream_state = "IDLE" /\ is_streaming
      BY <1>2, <2>1 DEF CallsHold, StreamTypes
    <3>2. ~delete_done
      BY <1>2, <2>1 DEF CallsHold, StreamTypes
    <3> QED BY <1>4, <1>5, <1>6, <1>7, <1>9, <2>1, <3>1, <3>2 DEF CallsHold
  <2>2. CASE task = "wait_delete"
    <3>1. app = "releasing" /\ ~stop_done
      BY <1>2, <2>2 DEF CallsHold, StreamTypes
    <3> QED BY <1>4, <1>5, <1>6, <1>7, <1>9, <2>2, <3>1 DEF CallsHold
  <2> QED BY <1>3, <2>1, <2>2
<1>12. StreamTypes'
  BY <1>2, <1>4, <1>6, <1>9 DEF StreamTypes
<1>13. NotMissed'
  BY <1>6, <1>9 DEF NotMissed
<1> QED BY <1>7, <1>8, <1>10, <1>11, <1>12, <1>13 DEF Inv, StreamInv, StreamHolds

(* An idle task drops a tick; a task that streams acts on all it obtains. *)
LEMMA IgnoreKeeps ==
  ASSUME Inv, Ignore
  PROVE  Inv'
<1>1. PICK start \in Nat, end \in Nat : StreamHolds(start, end)
  BY DEF Inv, StreamInv
<1>2. /\ GraphTypes /\ HostTypes /\ StreamTypes /\ GraphRuns /\ NotMissed
      /\ QueueIs(start, end) /\ RoundsHold(start, end) /\ CallsHold(start, end)
  BY <1>1 DEF Inv, StreamHolds
<1>0. /\ task = "get" /\ event_q # <<>> /\ event_q' = Tail(event_q)
      /\ Head(event_q) \in Events \ ActsOn
      /\ UNCHANGED <<graph, host, setup, untriggered, notify, stream, control, taken, timeouts>>
  BY DEF Ignore, Obtains
<1>4. start # 1 /\ end # 1
  <2>1. CASE start = 1
    <3>1. Head(event_q) = "START" /\ stream_state = "IDLE"
      BY <1>0, <1>2, <2>1, HeadIs DEF CallsHold, StreamTypes
    <3> QED BY <1>0, <3>1 DEF ActsOn
  <2>2. CASE end = 1
    <3>1. start # 1
      BY <1>2, <2>2 DEF QueueIs
    <3>2. Head(event_q) = EndCall
      BY <1>0, <1>2, <2>2, <3>1, HeadIs
    <3> QED BY <1>0, <3>2, EventsAre DEF ActsOn
  <2> QED BY <2>1, <2>2
<1>3. /\ task = "get" /\ event_q # <<>> /\ event_q' = Tail(event_q) /\ stream_state = "IDLE"
      /\ UNCHANGED <<graph, host, setup, untriggered, notify, stream, control, taken, timeouts>>
  <2>1. Head(event_q) = Tick
    BY <1>0, <1>2, <1>4, HeadIs
  <2>2. stream_state = "IDLE"
    BY <1>0, <1>2, <2>1 DEF ActsOn, Tick, StreamTypes
  <2> QED BY <1>0, <2>2
<1>5. /\ Pipelining' = Pipelining /\ app' = app /\ pipeline_depth' = pipeline_depth
      /\ trigger_is_leaf' = trigger_is_leaf /\ task' = task /\ stream_state' = stream_state
  BY <1>3 DEF setup, Pipelining, control, stream
<1>6. GraphTypes' /\ HostTypes' /\ GraphRuns' /\ Quiet' = Quiet /\ UnderWay' = UnderWay
  <2>1. UnderWay' = UnderWay
    BY <1>3, <1>5 DEF UnderWay, graph
  <2> QED BY <1>2, <1>3, <1>5, <2>1, GraphKept DEF graph
<1>7. /\ Prev(start) \in Nat /\ (Prev(start) > 0 <=> start > 0) /\ (Prev(start) = 0 <=> start = 0)
      /\ Prev(end) \in Nat /\ (Prev(end) > 0 <=> end > 0) /\ (Prev(end) = 0 <=> end = 0)
  BY <1>4 DEF Prev
<1>8. /\ QueueIs(Prev(start), Prev(end))' /\ event_q' \in Seq(Events)
      /\ Ticks(Prev(start), Prev(end))' = Ticks(start, end) - 1
      /\ start > 0 => LateTicks(Prev(start), Prev(end))' = LateTicks(start, end)
  BY <1>2, <1>3, <1>4, <1>5, HeadGone
<1>9. RoundsHold(Prev(start), Prev(end))'
  <2>1. /\ Ticks(start, end) \in Nat /\ UnderWay \in Nat
        /\ Ticks(start, end) + UnderWay <= 2
        /\ start > 0 => Fine(LateTicks(start, end) + UnderWay + 1)
    BY <1>2, QueueSize, UnderWayType DEF RoundsHold
  <2>2. Ticks(Prev(start), Prev(end))' + UnderWay' <= 2
    BY <1>6, <1>8, <2>1
  <2>3. Prev(start) > 0 => Fine(LateTicks(Prev(start), Prev(end)) + UnderWay + 1)'
    BY <1>5, <1>6, <1>7, <1>8, <2>1 DEF Fine
  <2> QED BY <1>3, <1>5, <2>2, <2>3 DEF RoundsHold
<1>10. CallsHold(Prev(start), Prev(end))'
  BY <1>2, <1>3, <1>5, <1>6, <1>7 DEF CallsHold, control
<1>11. StreamTypes'
  BY <1>2, <1>3, <1>8 DEF StreamTypes, control, stream
<1>12. NotMissed'
  BY <1>3, <1>5 DEF NotMissed
<1> QED BY <1>6, <1>7, <1>8, <1>9, <1>10, <1>11, <1>12 DEF Inv, StreamInv, StreamHolds

-----------------------------------------------------------------------------
(* The HOST task                                                           *)

(* The trigger node, or the HOST task after a leaf, sends STREAMING_EVENT:  *)
(* a round that was under way is in the queue.                              *)
LEMMA SentKeeps ==
  ASSUME Inv, Notify \/ \E p \in Pipe : TriggerCompletes(p)
  PROVE  Inv'
<1>1. PICK start \in Nat, end \in Nat : StreamHolds(start, end)
  BY DEF Inv, StreamInv
<1>2. /\ GraphTypes /\ HostTypes /\ StreamTypes /\ GraphRuns /\ NotMissed
      /\ QueueIs(start, end) /\ RoundsHold(start, end) /\ CallsHold(start, end)
  BY <1>1 DEF Inv, StreamHolds
<1>3. Pipelining
  BY <1>2 DEF GraphRuns, GraphHolds, Notify, TriggerCompletes
<1>4. /\ UNCHANGED <<graph, host, setup, stream, control, taken, timeouts>>
      /\ event_q' = Add(event_q, Tick) /\ notify' = FALSE
      /\ \/ notify /\ UNCHANGED untriggered
         \/ ~notify /\ \E p \in untriggered : untriggered' = untriggered \ {p}
  BY <1>2, <1>3 DEF Notify, TriggerCompletes, Tick, HostTypes
<1>5. /\ Pipelining' = Pipelining /\ app' = app /\ pipeline_depth' = pipeline_depth
      /\ trigger_is_leaf' = trigger_is_leaf /\ task' = task /\ stream_state' = stream_state
      /\ S!Busy' = S!Busy /\ LeavesCounted' = LeavesCounted /\ Quiet' = Quiet
  BY <1>4 DEF setup, Pipelining, control, stream, graph, S!Busy, S!Pipe, LeavesCounted,
              Unfinished, Quiet
<1>6. /\ UnderWay \in Nat /\ UnderWay' = UnderWay - 1 /\ UnderWay >= 1
  <2>1. /\ IsFiniteSet(untriggered) /\ Cardinality(untriggered) \in Nat
        /\ schedule_pending_count \in Nat /\ host.count \in Nat
    BY <1>2, UnderWayType DEF GraphTypes, HostTypes
  <2>2. UNCHANGED <<schedule_pending_count, host>>
    BY <1>4 DEF graph
  <2>3. CASE notify /\ UNCHANGED untriggered
    BY <1>3, <1>4, <1>5, <2>1, <2>2, <2>3 DEF UnderWay
  <2>4. ASSUME ~notify, NEW p \in untriggered, untriggered' = untriggered \ {p}
        PROVE  /\ UnderWay \in Nat /\ UnderWay' = UnderWay - 1 /\ UnderWay >= 1
    <3>1. /\ Cardinality(untriggered') = Cardinality(untriggered) - 1
          /\ Cardinality(untriggered') \in Nat
      BY <2>1, <2>4, FS_RemoveElement, FS_CardinalityType
    <3> QED BY <1>3, <1>4, <1>5, <2>1, <2>2, <2>4, <3>1 DEF UnderWay
  <2> QED BY <1>4, <2>3, <2>4
<1>7. GraphTypes' /\ HostTypes' /\ GraphRuns'
  <2>1. GraphTypes'
    BY <1>2, <1>4, <1>5 DEF GraphTypes, graph, setup
  <2>2. HostTypes'
    BY <1>2, <1>4 DEF HostTypes, graph, setup
  <2>3. GraphRuns'
    BY <1>2, <1>3, <1>4, <1>5 DEF GraphRuns, GraphHolds, Alone, graph
  <2> QED BY <2>1, <2>2, <2>3
<1>8. /\ Ticks(start, end) \in Nat /\ Ticks(start, end) + UnderWay <= 2
      /\ start > 0 => LateTicks(start, end) \in Nat
      /\ One(start) \in 0 .. 1 /\ One(end) \in 0 .. 1
  BY <1>2, QueueSize DEF RoundsHold
<1>9. Len(event_q) < EventQueueSize
  <2>1. Ticks(start, end) + One(start) + One(end) <= 3
    BY <1>6, <1>8
  <2> QED BY <1>2, <2>1, RoomFor
<1>10. /\ QueueIs(start, end)' /\ event_q' \in Seq(Events)
       /\ Ticks(start, end)' = Ticks(start, end) + 1
       /\ LateTicks(start, end)' = LateTicks(start, end) + 1
  BY <1>2, <1>4, <1>5, <1>9, TickAdded
<1>11. RoundsHold(start, end)'
  <2>1. Ticks(start, end)' + UnderWay' = Ticks(start, end) + UnderWay
    BY <1>6, <1>8, <1>10
  <2>2. start > 0 => LateTicks(start, end)' + UnderWay' + 1 = LateTicks(start, end) + UnderWay + 1
    BY <1>6, <1>8, <1>10
  <2> QED BY <1>2, <1>5, <2>1, <2>2 DEF RoundsHold, Fine
<1>12. CallsHold(start, end)'
  BY <1>2, <1>4, <1>5 DEF CallsHold, control
<1>13. StreamTypes'
  BY <1>2, <1>4, <1>10 DEF StreamTypes, control, stream
<1>14. NotMissed'
  BY <1>2, <1>4, <1>5 DEF NotMissed, graph
<1> QED BY <1>7, <1>10, <1>11, <1>12, <1>13, <1>14 DEF Inv, StreamInv, StreamHolds

(* What a leaf node does to the rounds: if it waits for the trigger node, it *)
(* is the trigger node, and its event is about to be sent.                   *)
LEMMA LeafTriggers ==
  ASSUME GraphTypes, HostTypes, NEW l \in Leaf, NEW p \in Pipe, LeafCompletes(l, p),
         running' = running \ {<<l, p>>}
  PROVE  /\ untriggered' \subseteq untriggered
         /\ \A q \in untriggered', m \in trigger : <<m, q>> \in running'
         /\ notify' \in BOOLEAN /\ (notify' => trigger_is_leaf /\ untriggered # {}) /\ ~notify
         /\ Cardinality(untriggered) \in Nat /\ Cardinality(untriggered') \in Nat
         /\ Cardinality(untriggered') + (IF notify' THEN 1 ELSE 0) = Cardinality(untriggered)
<1>1. /\ ~notify /\ (l \in trigger => trigger_is_leaf \/ p \notin untriggered)
      /\ untriggered' = IF l \in trigger THEN untriggered \ {p} ELSE untriggered
      /\ notify' = (l \in trigger /\ p \in untriggered)
  BY DEF LeafCompletes
<1>2. IsFiniteSet(untriggered) /\ Cardinality(untriggered) \in Nat
  BY UnderWayType
<1>3. CASE l \in trigger /\ p \in untriggered
  <2>1. Cardinality(untriggered') = Cardinality(untriggered) - 1 /\ Cardinality(untriggered') \in Nat
    BY <1>1, <1>2, <1>3, FS_RemoveElement, FS_CardinalityType
  <2>2. \A q \in untriggered', m \in trigger : <<m, q>> \in running'
    BY <1>1, <1>3 DEF HostTypes
  <2>3. untriggered' = untriggered \ {p} /\ notify' = TRUE /\ trigger_is_leaf
    BY <1>1, <1>3
  <2> QED BY <1>1, <1>2, <1>3, <2>1, <2>2, <2>3
<1>4. CASE ~(l \in trigger /\ p \in untriggered)
  <2>1. untriggered' = untriggered /\ notify' = FALSE
    BY <1>1, <1>4
  <2>2. \A q \in untriggered', m \in trigger : <<m, q>> \in running'
    BY <1>4, <2>1 DEF HostTypes
  <2> QED BY <1>1, <1>2, <2>1, <2>2
<1> QED BY <1>3, <1>4

(* A leaf node completes: the execution goes on, or is complete and its      *)
(* requests that were pending go to the HOST task.                           *)
LEMMA LeafHolds ==
  ASSUME GraphTypes, HostTypes, GraphHolds, NEW l \in Leaf, NEW p \in Pipe, LeafCompletes(l, p)
  PROVE  /\ GraphTypes' /\ HostTypes' /\ GraphHolds'
         /\ ~Quiet /\ (Quiet' <=> all_graph_completed_event')
         /\ host.at = "idle" /\ host.count = 0 /\ ~notify
         /\ host'.count + schedule_pending_count' = schedule_pending_count
         /\ host'.count \in Nat /\ submitted_count > 0
         /\ Cardinality(untriggered) \in Nat /\ Cardinality(untriggered') \in Nat
         /\ Cardinality(untriggered') + (IF notify' THEN 1 ELSE 0) = Cardinality(untriggered)
<1>1. UNCHANGED setup /\ Pipelining' = Pipelining
  BY DEF LeafCompletes, setup, Pipelining
<1>2. host.count \in Nat /\ schedule_pending_count \in Nat
  BY DEF GraphTypes, HostTypes
<1>3. /\ running' = running \ {<<l, p>>} /\ submitted_count > 0 /\ host.at = "idle"
      /\ GraphTypes' /\ (graph_state' = "RUNNING" => submitted_count' > 0)
      /\ submitted_count' > 0 \/ schedule_pending_count' = 0
      /\ (Quiet' <=> all_graph_completed_event')
      /\ host' \in [at : {"idle", "reschedule"}, count : Nat, abandon : {{}}]
      /\ host'.at = "reschedule" <=> host'.count > 0
      /\ host'.count + schedule_pending_count' = schedule_pending_count
  <2>1. CASE S!CountLeaf(l, p, "CONTINUE")
    <3>1. /\ host.at = "idle" /\ host' = S!HostIdle
          /\ submitted_count > 0 /\ running' = running \ {<<l, p>>}
          /\ UNCHANGED <<submitted_count, schedule_pending_count, graph_state,
                         all_graph_completed_event>>
          /\ GraphTypes'
      BY <1>1, <2>1, LeafCounted
    <3>2. ~Quiet /\ ~Quiet'
      BY <3>1 DEF Quiet
    <3>3. host'.at = "idle" /\ host'.count = 0 /\ host'.abandon = {}
          /\ host' \in [at : {"idle", "reschedule"}, count : Nat, abandon : {{}}]
      BY <3>1 DEF S!HostIdle
    <3>4. ~all_graph_completed_event' /\ (graph_state' = "RUNNING" => submitted_count' > 0)
      BY <3>1, <3>2 DEF GraphHolds
    <3>5. host'.count + schedule_pending_count' = schedule_pending_count
      BY <1>2, <3>1, <3>3
    <3>6. host'.at = "reschedule" <=> host'.count > 0
      BY <3>3
    <3> QED BY <3>1, <3>2, <3>3, <3>4, <3>5, <3>6
  <2>2. CASE S!CompleteGraph(l, p, "CONTINUE")
    <3>1. /\ host.at = "idle" /\ running' = running \ {<<l, p>>}
          /\ submitted_count > 0 /\ submitted_count' = submitted_count - 1
          /\ schedule_pending_count' = 0
          /\ host' = [at |-> IF schedule_pending_count > 0 THEN "reschedule" ELSE "idle",
                      count |-> schedule_pending_count, abandon |-> {}]
          /\ submitted_count' = 0 => graph_state' # "RUNNING"
          /\ all_graph_completed_event' =
               ((submitted_count' = 0 /\ schedule_pending_count = 0) \/ all_graph_completed_event)
          /\ GraphTypes'
      BY <1>1, <1>2, <2>2, GraphCompleted
    <3>2. submitted_count' \in Nat /\ ~all_graph_completed_event
      BY <3>1 DEF GraphTypes, GraphHolds, Quiet
    <3>3. /\ host'.count = schedule_pending_count
          /\ host'.at = IF schedule_pending_count > 0 THEN "reschedule" ELSE "idle"
          /\ host' \in [at : {"idle", "reschedule"}, count : Nat, abandon : {{}}]
      BY <1>2, <3>1
    <3>4. Quiet' <=> all_graph_completed_event'
      <4>1. Quiet' <=> submitted_count' = 0 /\ schedule_pending_count = 0
        BY <3>1, <3>3 DEF Quiet
      <4> QED BY <3>1, <3>2, <4>1
    <3>5. host'.at = "reschedule" <=> host'.count > 0
      BY <1>2, <3>3
    <3>6. /\ host'.count + schedule_pending_count' = schedule_pending_count
          /\ graph_state' = "RUNNING" => submitted_count' > 0
      <4>1. host'.count + schedule_pending_count' = schedule_pending_count
        BY <1>2, <3>1, <3>3
      <4>2. submitted_count' = 0 \/ submitted_count' > 0
        BY <3>2
      <4> QED BY <3>1, <4>1, <4>2
    <3>7. submitted_count' > 0 \/ schedule_pending_count' = 0
      BY <3>1
    <3> QED BY <3>1, <3>3, <3>4, <3>5, <3>6, <3>7
  <2> QED BY <2>1, <2>2 DEF LeafCompletes
<1>4. host.count = 0
  BY <1>2, <1>3 DEF HostTypes
<1>5. /\ untriggered' \subseteq untriggered
      /\ \A q \in untriggered', m \in trigger : <<m, q>> \in running'
      /\ notify' \in BOOLEAN /\ (notify' => trigger_is_leaf /\ untriggered # {}) /\ ~notify
      /\ Cardinality(untriggered) \in Nat /\ Cardinality(untriggered') \in Nat
      /\ Cardinality(untriggered') + (IF notify' THEN 1 ELSE 0) = Cardinality(untriggered)
  BY <1>3, LeafTriggers
<1>6. HostTypes'
  <2>1. trigger' = trigger /\ trigger_is_leaf' = trigger_is_leaf
    BY <1>1 DEF setup
  <2>2. untriggered' \subseteq Pipe
    BY <1>5 DEF HostTypes
  <2>3. \A q \in untriggered', m \in trigger' : <<m, q>> \in running'
    BY <1>5, <2>1
  <2> QED BY <1>3, <1>5, <2>1, <2>2, <2>3 DEF HostTypes
<1>7. GraphHolds'
  <2>1. ~Pipelining => untriggered' = {} /\ ~notify'
    BY <1>5 DEF GraphHolds
  <2> QED BY <1>1, <1>3, <2>1 DEF GraphHolds
<1>8. ~Quiet
  BY <1>3 DEF Quiet
<1> QED BY <1>2, <1>3, <1>4, <1>5, <1>6, <1>7, <1>8

(* The round of an execution that completes is pending with the HOST task,   *)
(* or to be notified, or was sent already.                                   *)
LEMMA LeafCompletesKeeps ==
  ASSUME Inv, NEW l \in Leaf, NEW p \in Pipe, LeafCompletes(l, p)
  PROVE  Inv'
<1>1. PICK start \in Nat, end \in Nat : StreamHolds(start, end)
  BY DEF Inv, StreamInv
<1>2. /\ GraphTypes /\ HostTypes /\ StreamTypes /\ GraphRuns /\ NotMissed
      /\ QueueIs(start, end) /\ RoundsHold(start, end) /\ CallsHold(start, end)
  BY <1>1 DEF Inv, StreamHolds
<1>3. /\ ~notify /\ UNCHANGED <<setup, event_q, stream, control, timeouts>>
  BY DEF LeafCompletes
<1>4. /\ GraphTypes' /\ HostTypes' /\ GraphHolds'
      /\ ~Quiet /\ (Quiet' <=> all_graph_completed_event')
      /\ host.count = 0 /\ host'.count + schedule_pending_count' = schedule_pending_count
      /\ host'.count \in Nat /\ submitted_count > 0
      /\ Cardinality(untriggered) \in Nat /\ Cardinality(untriggered') \in Nat
      /\ Cardinality(untriggered') + (IF notify' THEN 1 ELSE 0) = Cardinality(untriggered)
  BY <1>2, LeafHolds DEF GraphRuns
<1>5. /\ Pipelining' = Pipelining /\ app' = app /\ pipeline_depth' = pipeline_depth
      /\ trigger_is_leaf' = trigger_is_leaf /\ task' = task /\ stream_state' = stream_state
  BY <1>3 DEF setup, Pipelining, control, stream
<1>6. schedule_pending_count \in Nat /\ schedule_pending_count' \in Nat
  BY <1>2, <1>4 DEF GraphTypes
<1>7. GraphRuns'
  <2>1. ~Pipelining => schedule_pending_count' = 0 /\ host'.count = 0 /\ task' = "wait_run"
    BY <1>2, <1>4, <1>5, <1>6 DEF GraphRuns, Alone
  <2> QED BY <1>4, <1>5, <2>1 DEF GraphRuns, Alone
<1>8. UnderWay' = UnderWay
  <2>1. CASE Pipelining
    <3>1. UnderWay = Cardinality(untriggered) + schedule_pending_count
      BY <1>3, <1>4, <1>6, <2>1 DEF UnderWay
    <3>2. UnderWay' = Cardinality(untriggered') + schedule_pending_count' + host'.count
                        + IF notify' THEN 1 ELSE 0
      BY <1>5, <2>1 DEF UnderWay
    <3> QED BY <1>4, <1>6, <3>1, <3>2
  <2>2. CASE ~Pipelining
    BY <1>5, <2>2 DEF UnderWay
  <2> QED BY <2>1, <2>2
<1>12. start = 0
  BY <1>2, <1>4 DEF CallsHold
<1>13. /\ QueueIs(0, end)' /\ Ticks(0, end)' = Ticks(0, end)
  BY <1>2, <1>3, <1>5, <1>12, QueueKept
<1>14. RoundsHold(0, end)'
  BY <1>2, <1>5, <1>8, <1>12, <1>13 DEF RoundsHold, Fine
<1>15. CallsHold(0, end)'
  <2>1. is_streaming /\ ~stop_done
    BY <1>2, <1>4 DEF CallsHold, StreamTypes
  <2> QED BY <1>2, <1>3, <1>5, <1>12, <2>1 DEF CallsHold, control
<1>16. StreamTypes'
  BY <1>2, <1>3 DEF StreamTypes, control, stream
<1>17. NotMissed'
  BY <1>4 DEF NotMissed
<1> QED BY <1>4, <1>7, <1>13, <1>14, <1>15, <1>16, <1>17 DEF Inv, StreamInv, StreamHolds

(* The HOST task schedules what was pending. *)
LEMMA RescheduleKeeps ==
  ASSUME Inv, Reschedule
  PROVE  Inv'
<1>1. PICK start \in Nat, end \in Nat : StreamHolds(start, end)
  BY DEF Inv, StreamInv
<1>2. /\ GraphTypes /\ HostTypes /\ StreamTypes /\ GraphRuns /\ NotMissed
      /\ QueueIs(start, end) /\ RoundsHold(start, end) /\ CallsHold(start, end)
  BY <1>1 DEF Inv, StreamHolds
<1>3. host.count \in Nat \ {0} /\ Pipelining /\ ~Quiet
  BY <1>2 DEF Reschedule, HostTypes, GraphRuns, Alone, Quiet
<1>4. /\ GraphTypes' /\ HostTypes' /\ GraphRuns' /\ submitted_count' > 0
      /\ schedule_pending_count \in Nat /\ schedule_pending_count' \in Nat
      /\ Cardinality(untriggered) \in Nat /\ Cardinality(untriggered') \in Nat
      /\ Cardinality(untriggered') + schedule_pending_count' =
           Cardinality(untriggered) + schedule_pending_count + host.count
  <2> DEFINE n == host.count
  <2>1. n \in Nat \ {0} /\ Schedule(n) /\ UNCHANGED <<setup, notify>> /\ host' = S!HostIdle
    BY <1>3 DEF Reschedule
  <2> HIDE DEF n
  <2>2. /\ GraphTypes' /\ HostTypes' /\ GraphRuns' /\ submitted_count' > 0
        /\ schedule_pending_count \in Nat /\ schedule_pending_count' \in Nat
        /\ Cardinality(untriggered) \in Nat /\ Cardinality(untriggered') \in Nat
        /\ Cardinality(untriggered') + schedule_pending_count' =
             Cardinality(untriggered) + schedule_pending_count + n
    BY <1>2, <1>3, <2>1, ScheduledRuns
  <2> QED BY <2>2 DEF n
<1>5. /\ UNCHANGED <<setup, notify, event_q, stream, control, taken, timeouts>>
      /\ host'.count = 0
  BY DEF Reschedule, S!HostIdle
<1>6. /\ Pipelining' = Pipelining /\ app' = app /\ pipeline_depth' = pipeline_depth
      /\ trigger_is_leaf' = trigger_is_leaf /\ task' = task /\ stream_state' = stream_state
  BY <1>5 DEF setup, Pipelining, control, stream
<1>7. UnderWay' = UnderWay
  BY <1>3, <1>4, <1>5, <1>6 DEF UnderWay
<1>8. start = 0
  BY <1>2, <1>3 DEF CallsHold
<1>9. /\ QueueIs(0, end)' /\ Ticks(0, end)' = Ticks(0, end)
  BY <1>2, <1>5, <1>6, <1>8, QueueKept
<1>10. RoundsHold(0, end)'
  BY <1>2, <1>6, <1>7, <1>8, <1>9 DEF RoundsHold, Fine
<1>11. CallsHold(0, end)'
  <2>1. is_streaming /\ ~stop_done
    BY <1>2, <1>3 DEF CallsHold, StreamTypes
  <2> QED BY <1>2, <1>5, <1>6, <1>8, <2>1 DEF CallsHold, control
<1>12. StreamTypes'
  BY <1>2, <1>5 DEF StreamTypes, control, stream
<1>13. NotMissed'
  BY <1>4 DEF NotMissed, Quiet
<1> QED BY <1>4, <1>9, <1>10, <1>11, <1>12, <1>13 DEF Inv, StreamInv, StreamHolds

-----------------------------------------------------------------------------
(* The invariant                                                           *)

(* A verified graph that never streamed. *)
LEMMA InitInv == Init => Inv
<1> SUFFICES ASSUME Init PROVE Inv
  OBVIOUS
<1>1. pipeline_depth \in 1 .. Depth /\ pipeline_depth \in Nat /\ Depth \in Nat
  BY DepthAssumption DEF Init
<1>2. /\ free_q \in Seq(Pipe) /\ Len(free_q) = pipeline_depth /\ IsInjective(free_q)
  <2>1. free_q = [i \in 1 .. pipeline_depth |-> i - 1]
    BY DEF Init
  <2>2. \A i \in 1 .. pipeline_depth : i - 1 \in Pipe
    BY <1>1 DEF Pipe
  <2>3. free_q \in Seq(Pipe) /\ Len(free_q) = pipeline_depth
    BY <1>1, <2>1, <2>2
  <2>4. IsInjective(free_q)
    BY <1>1, <2>1 DEF IsInjective
  <2> QED BY <2>3, <2>4
<1>3. running = {} /\ S!Busy = {} /\ Cardinality(S!Busy) = 0
  BY FS_EmptySet, BusyIs DEF Init
<1>4. GraphTypes
  <2>1. graph_state \in S!States /\ desc_state \in [Pipe -> S!States]
    BY DEF Init, S!States
  <2>2. running \subseteq Leaf \X Pipe /\ Range(free_q) \cap S!Busy = {}
    BY <1>3
  <2>3. trigger \subseteq Leaf /\ trigger # {}
    BY DEF Init
  <2>6. trigger_is_leaf \in BOOLEAN
    BY DEF Init
  <2>7. /\ submitted_count = 0 /\ schedule_pending_count = 0
        /\ all_graph_completed_event \in BOOLEAN
    BY DEF Init
  <2>5. trigger_is_leaf => \E l \in Leaf : trigger = {l}
    BY DEF Init
  <2>4. complete_leaf_nodes \in [Pipe -> 0 .. S!NumLeafNodes - 1] /\ LeavesCounted
    BY <1>3, LeafCount DEF Init, LeavesCounted
  <2> QED BY <1>1, <1>2, <1>3, <2>1, <2>2, <2>3, <2>4, <2>5, <2>6, <2>7 DEF GraphTypes
<1>5. HostTypes
  <2>1. /\ host \in [at : {"idle", "reschedule"}, count : Nat, abandon : {{}}]
        /\ host.at = "idle" /\ host.count = 0
    BY DEF Init, S!HostIdle
  <2>2. untriggered = {} /\ notify \in BOOLEAN /\ ~notify
    BY DEF Init
  <2> QED BY <2>1, <2>2 DEF HostTypes
<1>6. StreamTypes
  <2>1. event_q \in Seq(Events)
    BY DEF Init
  <2>2. /\ stream_state = "IDLE" /\ task = "get" /\ executions = 0 /\ app = "idle"
        /\ is_streaming \in BOOLEAN /\ stop_done \in BOOLEAN /\ delete_done \in BOOLEAN
        /\ timeouts \in Nat
    BY DEF Init
  <2> QED BY <2>1, <2>2 DEF StreamTypes
<1>7. Quiet /\ GraphRuns
  BY DEF Init, GraphRuns, GraphHolds, Alone, Quiet, S!HostIdle
<1>8. UnderWay = 0
  <2>1. Pipelining => UnderWay = IF notify THEN 1 ELSE 0
    BY <1>4, <1>5, <1>7, QuietMeans
  <2> QED BY <2>1 DEF Init, UnderWay
<1>9. Len(event_q) = 0
  BY DEF Init
<1>10. QueueIs(0, 0) /\ Ticks(0, 0) = 0
  BY <1>9 DEF QueueIs, Ticks, One
<1>11. RoundsHold(0, 0)
  BY <1>8, <1>10 DEF RoundsHold, Init
<1>12. CallsHold(0, 0)
  BY <1>7 DEF CallsHold, Init
<1>13. NotMissed
  BY DEF Init, NotMissed
<1> QED BY <1>4, <1>5, <1>6, <1>7, <1>10, <1>11, <1>12, <1>13 DEF Inv, StreamInv, StreamHolds

(* Nothing happens. *)
LEMMA StutterKeeps ==
  ASSUME Inv, UNCHANGED vars
  PROVE  Inv'
<1>1. PICK start \in Nat, end \in Nat : StreamHolds(start, end)
  BY DEF Inv, StreamInv
<1>2. /\ GraphTypes /\ HostTypes /\ StreamTypes /\ GraphRuns /\ NotMissed
      /\ QueueIs(start, end) /\ RoundsHold(start, end) /\ CallsHold(start, end)
  BY <1>1 DEF Inv, StreamHolds
<1>3. UNCHANGED <<graph, host, setup, untriggered, notify, event_q, stream, control, taken,
                 timeouts>>
  BY DEF vars
<1>4. /\ Pipelining' = Pipelining /\ UnderWay' = UnderWay /\ app' = app
      /\ pipeline_depth' = pipeline_depth
  BY <1>3 DEF setup, Pipelining, UnderWay, graph, stream, control
<1>5. GraphTypes' /\ HostTypes' /\ GraphRuns' /\ Quiet' = Quiet
  BY <1>2, <1>3, GraphKept DEF graph, stream
<1>6. /\ QueueIs(start, end)'
      /\ Ticks(start, end)' = Ticks(start, end) /\ LateTicks(start, end)' = LateTicks(start, end)
  BY <1>2, <1>3, <1>4, QueueKept
<1>7. RoundsHold(start, end)'
  BY <1>2, <1>3, <1>4, <1>6 DEF RoundsHold, Fine, stream, setup
<1>8. CallsHold(start, end)'
  BY <1>2, <1>3, <1>4, <1>5 DEF CallsHold, stream, control
<1>9. StreamTypes' /\ NotMissed'
  <2>1. StreamTypes'
    BY <1>2, <1>3 DEF StreamTypes, stream, control
  <2>2. NotMissed'
    BY <1>2, <1>3, <1>4, <1>5 DEF NotMissed, stream, graph
  <2> QED BY <2>1, <2>2
<1> QED BY <1>5, <1>6, <1>7, <1>8, <1>9 DEF Inv, StreamInv, StreamHolds

-----------------------------------------------------------------------------
(* What holds whether or not waits time out                                *)

(* Adding an event, or dropping it for want of room, leaves a queue. *)
LEMMA AddType ==
  ASSUME NEW q \in Seq(Events), NEW e \in Events
  PROVE  Add(q, e) \in Seq(Events)
  BY AppendProperties DEF Add

(* Where a completion that is gone would be missed. *)
MayMiss == task \in {"wait_run", "wait_stop"} \/ (Pipelining /\ stream_state = "RUNNING")

(* Steps that leave the graph alone, but perhaps for its event. *)
LEMMA GraphRests ==
  ASSUME Base, StreamTypes', TaskHolds',
         UNCHANGED <<free_q, submitted_count, schedule_pending_count, graph_state, desc_state,
                     complete_leaf_nodes, running, host, setup, untriggered, notify>>,
         \/ all_graph_completed_event' = all_graph_completed_event
         \/ all_graph_completed_event' = FALSE /\ (taken' \/ ~MayMiss'),
         MayMiss' => MayMiss \/ ~Quiet,
         taken => taken'
  PROVE  Base'
<1>1. GraphTypes' /\ HostTypes' /\ GraphHolds' /\ Quiet' = Quiet
  BY HoldsKept DEF Base
<1>2. NotMissed'
  BY <1>1 DEF Base, NotMissed, MayMiss
<1> QED BY <1>1, <1>2 DEF Base

(* A wait for the graph that ends, in time or not. *)
LEMMA GraphWaited ==
  ASSUME timeouts \in Nat, NEW status, WaitGraphEnds(status)
  PROVE  /\ timeouts' \in Nat
         /\ UNCHANGED <<free_q, submitted_count, schedule_pending_count, graph_state, desc_state,
                        complete_leaf_nodes, running>>
         /\ all_graph_completed_event' = all_graph_completed_event
              \/ all_graph_completed_event' = FALSE
<1>1. CASE TakeEvent /\ UNCHANGED timeouts
  BY <1>1 DEF TakeEvent
<1>2. CASE TimesOut /\ UNCHANGED graph
  BY <1>2 DEF TimesOut, graph
<1> QED BY <1>1, <1>2 DEF WaitGraphEnds

(* An execution starts. *)
LEMMA ScheduledBase ==
  ASSUME Base, StreamTypes', TaskHolds', NEW n \in Nat \ {0}, Schedule(n),
         UNCHANGED <<setup, notify>>, host' = host \/ host' = S!HostIdle
  PROVE  Base'
<1>1. GraphTypes' /\ HostTypes' /\ GraphHolds' /\ submitted_count' > 0
  BY ScheduledHolds DEF Base
<1> QED BY <1>1 DEF Base, NotMissed, Quiet

(* The streaming task. *)
LEMMA StreamingTaskBase == Base /\ StreamingTask => Base'
<1> SUFFICES ASSUME Base, StreamingTask PROVE Base'
  OBVIOUS
<1> USE DEF Base
<1>1. executions \in 0 .. 1 /\ event_q \in Seq(Events) /\ timeouts \in Nat
  BY DEF StreamTypes
<1>2. ASSUME event_q # <<>> PROVE Tail(event_q) \in Seq(Events)
  BY <1>1, <1>2, HeadTailProperties
<1>3. NextExecution => executions' \in 0 .. 1
  BY <1>1 DEF NextExecution
<1>4. ASSUME UNCHANGED setup PROVE Pipelining' = Pipelining
  BY <1>4 DEF setup, Pipelining
<1>5. CASE StartIdle
  <2>1. /\ event_q # <<>> /\ task = "get" /\ task' = "get" /\ stream_state' = "RUNNING"
        /\ UNCHANGED <<host, setup, notify, control, taken, timeouts>>
    BY <1>5 DEF StartIdle, Obtains
  <2>2. event_q' \in Seq(Events) /\ executions' \in 0 .. 1
    <3>1. Tail(event_q) \in Seq(Events) /\ "RUN" \in Events
      BY <1>2, <2>1 DEF Events
    <3> QED BY <1>1, <1>3, <1>5, <3>1, AddType DEF StartIdle
  <2>3. StreamTypes' /\ TaskHolds'
    BY <2>1, <2>2 DEF StreamTypes, TaskHolds, control
  <2>4. CASE Pipelining /\ graph_state \in {"VERIFIED", "COMPLETED", "ABANDONED"}
    <3>1. Schedule(1)
      BY <1>5, <2>4 DEF StartIdle
    <3> QED BY <2>1, <2>3, <3>1, ScheduledBase
  <2>5. CASE ~(Pipelining /\ graph_state \in {"VERIFIED", "COMPLETED", "ABANDONED"})
    <3>1. UNCHANGED <<graph, untriggered>>
      BY <1>5, <2>5 DEF StartIdle
    <3>2. Pipelining => ~Quiet
      BY <2>5 DEF GraphTypes, GraphHolds, S!States, Quiet
    <3>3. MayMiss' => MayMiss \/ ~Quiet
      BY <1>4, <2>1, <3>2 DEF MayMiss
    <3> QED BY <2>1, <2>3, <3>1, <3>3, GraphRests DEF graph
  <2> QED BY <2>4, <2>5
<1>6. CASE RunRunning \/ TriggerRunning
  <2>1. /\ event_q # <<>> /\ event_q' = Tail(event_q) /\ Schedule(1)
        /\ stream_state' = stream_state /\ UNCHANGED <<host, setup, notify, control, timeouts>>
        /\ executions' \in 0 .. 1
        /\ task' = "get" \/ (task' = "wait_run" /\ ~Pipelining)
    BY <1>1, <1>3, <1>6 DEF RunRunning, TriggerRunning, Obtains
  <2>2. StreamTypes' /\ TaskHolds'
    BY <1>2, <1>4, <2>1 DEF StreamTypes, TaskHolds, control
  <2> QED BY <2>1, <2>2, ScheduledBase
<1>7. ASSUME NEW status, RunWaited(status) PROVE Base'
  <2>1. /\ task' = "get" /\ event_q' = Add(event_q, "RUN") /\ executions' \in 0 .. 1 /\ ~Pipelining
        /\ UNCHANGED <<host, setup, untriggered, notify, stream_state, control, taken>>
        /\ timeouts' \in Nat
        /\ UNCHANGED <<free_q, submitted_count, schedule_pending_count, graph_state, desc_state,
                       complete_leaf_nodes, running>>
        /\ all_graph_completed_event' = all_graph_completed_event
             \/ all_graph_completed_event' = FALSE
    <3>1. WaitGraphEnds(status) /\ task = "wait_run"
      BY <1>7 DEF RunWaited
    <3>2. /\ timeouts' \in Nat
          /\ UNCHANGED <<free_q, submitted_count, schedule_pending_count, graph_state, desc_state,
                         complete_leaf_nodes, running>>
          /\ all_graph_completed_event' = all_graph_completed_event
               \/ all_graph_completed_event' = FALSE
      BY <1>1, <3>1, GraphWaited
    <3> QED BY <1>3, <1>7, <3>1, <3>2 DEF RunWaited, RunAgain, TaskHolds
  <2>2. StreamTypes' /\ TaskHolds'
    BY <1>1, <2>1, AddType DEF StreamTypes, TaskHolds, control, Events
  <2>3. ~MayMiss'
    BY <1>4, <2>1 DEF MayMiss
  <2> QED BY <2>1, <2>2, <2>3, GraphRests
<1>8. CASE Stop \/ Delete
  <2>1. /\ event_q # <<>> /\ event_q' = Tail(event_q)
        /\ UNCHANGED <<graph, host, setup, untriggered, notify, executions, is_streaming, app,
                       taken, timeouts>>
        /\ stop_done' \in BOOLEAN /\ delete_done' \in BOOLEAN
        /\ \/ task' = "wait_stop" /\ stream_state' = "IDLE" /\ Pipelining /\ stream_state = "RUNNING"
           \/ task' \in {"get", "ended"} /\ stream_state' = "IDLE"
           \/ task' = "wait_delete" /\ stream_state' = stream_state
    BY <1>8 DEF Stop, Delete, Obtains, WaitsForGraph, StreamTypes
  <2>2. StreamTypes' /\ TaskHolds'
    BY <1>2, <2>1 DEF StreamTypes, TaskHolds
  <2>3. MayMiss' => MayMiss
    BY <1>4, <2>1 DEF MayMiss
  <2> QED BY <2>1, <2>2, <2>3, GraphRests DEF graph
<1>9. ASSUME NEW status, Waited(status) PROVE Base'
  <2>1. /\ UNCHANGED <<host, setup, untriggered, notify, event_q, executions, is_streaming, app, taken>>
        /\ timeouts' \in Nat
        /\ UNCHANGED <<free_q, submitted_count, schedule_pending_count, graph_state, desc_state,
                       complete_leaf_nodes, running>>
        /\ all_graph_completed_event' = all_graph_completed_event
             \/ all_graph_completed_event' = FALSE
        /\ stop_done' \in BOOLEAN /\ delete_done' \in BOOLEAN
        /\ task' \in {"get", "ended"} /\ stream_state' = "IDLE"
    <3>1. WaitGraphEnds(status)
      BY <1>9 DEF Waited
    <3>2. /\ timeouts' \in Nat
          /\ UNCHANGED <<free_q, submitted_count, schedule_pending_count, graph_state, desc_state,
                         complete_leaf_nodes, running>>
          /\ all_graph_completed_event' = all_graph_completed_event
               \/ all_graph_completed_event' = FALSE
      BY <1>1, <3>1, GraphWaited
    <3> QED BY <1>9, <3>2 DEF Waited, SaysStopped, TaskHolds, StreamTypes
  <2>2. StreamTypes' /\ TaskHolds'
    BY <2>1 DEF StreamTypes, TaskHolds
  <2>3. ~MayMiss'
    BY <2>1 DEF MayMiss
  <2> QED BY <2>1, <2>2, <2>3, GraphRests
<1>10. CASE Ignore
  <2>1. /\ event_q # <<>> /\ event_q' = Tail(event_q)
        /\ UNCHANGED <<graph, host, setup, untriggered, notify, stream, control, taken, timeouts>>
    BY <1>10 DEF Ignore, Obtains
  <2>2. StreamTypes' /\ TaskHolds'
    BY <1>2, <1>4, <2>1 DEF StreamTypes, TaskHolds, stream, control
  <2>3. MayMiss' = MayMiss
    BY <1>4, <2>1 DEF MayMiss, stream
  <2> QED BY <2>1, <2>2, <2>3, GraphRests DEF graph
<1> QED BY <1>5, <1>6, <1>7, <1>8, <1>9, <1>10 DEF StreamingTask

(* The HOST task. *)
LEMMA HostTaskBase == Base /\ HostTask => Base'
<1> SUFFICES ASSUME Base, HostTask PROVE Base'
  OBVIOUS
<1> USE DEF Base
<1>1. event_q \in Seq(Events) /\ "STREAMING_EVENT" \in Events
  BY DEF StreamTypes, Events
<1>2. CASE Notify \/ \E p \in Pipe : TriggerCompletes(p)
  <2>1. /\ event_q' = Add(event_q, "STREAMING_EVENT") /\ notify' = FALSE
        /\ untriggered' \subseteq untriggered
        /\ UNCHANGED <<graph, host, setup, stream, control, taken, timeouts>>
    BY <1>2 DEF Notify, TriggerCompletes, HostTypes
  <2>2. StreamTypes' /\ TaskHolds' /\ Pipelining' = Pipelining /\ Quiet' = Quiet
    BY <1>1, <2>1, AddType
    DEF StreamTypes, TaskHolds, stream, control, setup, Pipelining, graph, Quiet
  <2>3. S!Busy' = S!Busy /\ LeavesCounted' = LeavesCounted
    BY <2>1 DEF graph, S!Busy, S!Pipe, LeavesCounted, Unfinished
  <2>4. GraphTypes'
    BY <2>1, <2>3 DEF GraphTypes, graph, setup
  <2>5. HostTypes'
    BY <2>1 DEF HostTypes, graph, setup
  <2>6. GraphHolds'
    BY <2>1, <2>2 DEF GraphHolds, graph
  <2>7. NotMissed'
    BY <2>1, <2>2 DEF NotMissed, graph, stream
  <2> QED BY <2>2, <2>4, <2>5, <2>6, <2>7
<1>3. ASSUME NEW l \in Leaf, NEW p \in Pipe, LeafCompletes(l, p) PROVE Base'
  <2>1. GraphTypes' /\ HostTypes' /\ GraphHolds' /\ (Quiet' <=> all_graph_completed_event')
    BY <1>3, LeafHolds
  <2>2. UNCHANGED <<setup, event_q, stream, control, timeouts>>
    BY <1>3 DEF LeafCompletes
  <2>3. StreamTypes' /\ TaskHolds'
    BY <2>2 DEF StreamTypes, TaskHolds, stream, control, setup, Pipelining
  <2>4. NotMissed'
    BY <2>1 DEF NotMissed
  <2> QED BY <2>1, <2>3, <2>4
<1>4. CASE Reschedule
  <2>1. UNCHANGED <<setup, notify, event_q, stream, control, taken, timeouts>> /\ host' = S!HostIdle
    BY <1>4 DEF Reschedule
  <2>2. StreamTypes' /\ TaskHolds'
    BY <2>1 DEF StreamTypes, TaskHolds, stream, control, setup, Pipelining
  <2> DEFINE n == host.count
  <2>3. n \in Nat \ {0} /\ Schedule(n)
    BY <1>4 DEF Reschedule, HostTypes
  <2> HIDE DEF n
  <2> QED BY <2>1, <2>2, <2>3, ScheduledBase
<1> QED BY <1>2, <1>3, <1>4 DEF HostTask

(* The threads. *)
LEMMA ThreadsBase ==
  ASSUME Base, Application \/ \E w \in Waiter : WaitGraph(w) \/ WaitReturns(w)
  PROVE  Base'
<1> USE DEF Base
<1>1. /\ UNCHANGED <<free_q, submitted_count, schedule_pending_count, graph_state, desc_state,
                     complete_leaf_nodes, running, host, setup, untriggered, notify, stream>>
      /\ UNCHANGED all_graph_completed_event \/ (all_graph_completed_event' = FALSE /\ taken')
      /\ taken => taken'
  BY DEF Application, StartGraphStreaming, StopGraphStreaming, StopReturns, FreeStreaming,
         Released, WaitGraph, WaitReturns, TakeEvent, graph
<1>2. /\ event_q' \in Seq(Events)
  <2>1. event_q \in Seq(Events) /\ {"START", "STOP", "DELETE"} \subseteq Events
    BY DEF StreamTypes, Events
  <2> QED BY <2>1, AddType
      DEF Application, StartGraphStreaming, StopGraphStreaming, StopReturns, FreeStreaming,
          Released, WaitGraph, WaitReturns
<1>3. /\ app' \in {"idle", "stopping", "releasing", "released"} /\ timeouts' \in Nat
      /\ is_streaming' \in BOOLEAN /\ stop_done' \in BOOLEAN /\ delete_done' \in BOOLEAN
  <2>1. /\ app \in {"idle", "stopping", "releasing", "released"} /\ timeouts \in Nat
        /\ is_streaming \in BOOLEAN /\ stop_done \in BOOLEAN /\ delete_done \in BOOLEAN
    BY DEF StreamTypes
  <2>2. CASE StartGraphStreaming \/ StopGraphStreaming \/ StopReturns \/ FreeStreaming
    BY <2>1, <2>2 DEF StartGraphStreaming, StopGraphStreaming, StopReturns, FreeStreaming
  <2>3. CASE Released
    <3>1. app' = "released" /\ delete_done' = FALSE /\ is_streaming' = is_streaming
          /\ stop_done' = stop_done
      BY <2>3 DEF Released
    <3>2. timeouts' \in Nat
      BY <2>1, <2>3 DEF Released, TimesOut
    <3> QED BY <2>1, <3>1, <3>2
  <2>4. CASE \E w \in Waiter : WaitGraph(w) \/ WaitReturns(w)
    BY <2>1, <2>4 DEF WaitGraph, WaitReturns, control
  <2> QED BY <2>2, <2>3, <2>4 DEF Application
<1>4. StreamTypes' /\ TaskHolds'
  BY <1>1, <1>2, <1>3 DEF StreamTypes, TaskHolds, stream, setup, Pipelining
<1>5. MayMiss' = MayMiss
  BY <1>1 DEF MayMiss, stream, setup, Pipelining
<1> QED BY <1>1, <1>4, <1>5, GraphRests

-----------------------------------------------------------------------------
(* The invariant                                                           *)

(* While every wait ends in time, all of it holds. *)
IInv == Base /\ (InTime => Inv)

(* Every step keeps the first part. *)
LEMMA NextBase == Base /\ [Next]_vars => Base'
<1> SUFFICES ASSUME Base, [Next]_vars PROVE Base'
  OBVIOUS
<1>1. CASE StreamingTask
  BY <1>1, StreamingTaskBase
<1>2. CASE HostTask
  BY <1>2, HostTaskBase
<1>3. CASE Application \/ \E w \in Waiter : WaitGraph(w) \/ WaitReturns(w)
  BY <1>3, ThreadsBase
<1>4. CASE UNCHANGED vars
  <2>1. UNCHANGED <<graph, host, setup, untriggered, notify, event_q, stream, control, taken,
                    timeouts>>
    BY <1>4 DEF vars
  <2>2. StreamTypes' /\ TaskHolds'
    BY <2>1 DEF Base, StreamTypes, TaskHolds, stream, control, setup, Pipelining
  <2>3. MayMiss' = MayMiss
    BY <2>1 DEF MayMiss, stream, setup, Pipelining
  <2> QED BY <2>1, <2>2, <2>3, GraphRests DEF graph
<1> QED BY <1>1, <1>2, <1>3, <1>4 DEF Next

(* In time every step keeps the rest. *)
LEMMA NextKeeps == Inv /\ InTime' /\ [Next]_vars => Inv'
<1> SUFFICES ASSUME Inv, InTime', [Next]_vars PROVE Inv'
  OBVIOUS
<1>1. CASE StreamingTask
  BY <1>1, StartIdleKeeps, NextExecutionKeeps, RunWaitedKeeps, EndTakenKeeps, WaitedKeeps,
     IgnoreKeeps DEF StreamingTask
<1>2. CASE HostTask
  BY <1>2, SentKeeps, LeafCompletesKeeps, RescheduleKeeps DEF HostTask
<1>3. CASE Application
  BY <1>3, StartGraphStreamingKeeps, EndKeeps, ReturnKeeps DEF Application
<1>4. CASE \E w \in Waiter : WaitGraph(w) \/ WaitReturns(w)
  BY <1>4, ReturnKeeps
<1>5. CASE UNCHANGED vars
  BY <1>5, StutterKeeps
<1> QED BY <1>1, <1>2, <1>3, <1>4, <1>5 DEF Next

(* A wait that has timed out stays on record. *)
LEMMA LateForEver == StreamTypes /\ [Next]_vars /\ InTime' => InTime
<1> SUFFICES ASSUME StreamTypes, [Next]_vars, InTime' PROVE timeouts = 0
  BY DEF InTime
<1>1. ~TimesOut
  BY Late
<1>2. timeouts' = timeouts
  BY <1>1 DEF Next, StreamingTask, StartIdle, RunRunning, TriggerRunning, Stop, Delete, Ignore,
       RunWaited, Waited, WaitGraphEnds, HostTask, TriggerCompletes, LeafCompletes, Reschedule,
       Notify, Application, StartGraphStreaming, StopGraphStreaming, StopReturns, FreeStreaming,
       Released, WaitGraph, WaitReturns, vars
<1> QED BY <1>2 DEF InTime

(* So it holds for ever. *)
LEMMA SpecInv == Spec => []IInv
<1>1. Init => IInv
  <2> SUFFICES ASSUME Init PROVE Base /\ Inv
    BY DEF IInv
  <2>1. Inv /\ task = "get"
    BY InitInv DEF Init
  <2> QED BY <2>1 DEF Base, Inv, GraphRuns, TaskHolds
<1>2. IInv /\ [Next]_vars => IInv'
  <2> SUFFICES ASSUME Base, InTime => Inv, [Next]_vars PROVE Base' /\ (InTime' => Inv')
    BY DEF IInv
  <2>1. Base'
    BY NextBase
  <2>2. InTime' => InTime
    BY LateForEver DEF Base
  <2> QED BY <2>1, <2>2, NextKeeps
<1> QED BY <1>1, <1>2, PTL DEF Spec

-----------------------------------------------------------------------------
(* What it means                                                           *)

(* The types are part of it. *)
LEMMA BaseMeansTypes == Base => TypeOK
<1> SUFFICES ASSUME Base PROVE TypeOK
  OBVIOUS
<1>1. GraphTypes /\ HostTypes /\ StreamTypes
  BY DEF Base
<1>2. host.count \in Nat /\ untriggered \subseteq S!Busy
  BY <1>1, UntriggeredRuns DEF HostTypes
<1> QED BY <1>1, <1>2 DEF GraphTypes, StreamTypes, TypeOK

(* In time a graph that does not stream is quiet, and its task idle. *)
LEMMA InvMeansStopped == Inv => StopBlocks
<1> SUFFICES ASSUME Inv, ~is_streaming PROVE stream_state = "IDLE" /\ Outstanding = 0
  BY DEF StopBlocks
<1>1. PICK start \in Nat, end \in Nat : StreamHolds(start, end)
  BY DEF Inv, StreamInv
<1>2. StreamTypes /\ CallsHold(start, end)
  BY <1>1 DEF Inv, StreamHolds
<1>3. Quiet /\ stream_state = "IDLE"
  BY <1>2 DEF CallsHold, StreamTypes
<1> QED BY <1>3 DEF Quiet, Outstanding

(* All that is in the queue but the end of a call are ticks. *)
LEMMA TicksCounted ==
  ASSUME StreamTypes, NEW end \in Nat, QueueIs(0, end)
  PROVE  Occurrences(Tick) = Ticks(0, end)
<1> DEFINE n == Len(event_q)
<1>1. n \in Nat /\ DOMAIN event_q = 1 .. n /\ end \in 0 .. n
  BY DEF StreamTypes, QueueIs
<1>2. {i \in DOMAIN event_q : event_q[i] = Tick} = (1 .. n) \ {end}
  <2>1. ASSUME NEW i \in 1 .. n
        PROVE  event_q[i] = Tick <=> i # end
    BY EventsAre DEF QueueIs
  <2> QED BY <1>1, <2>1
<1> HIDE DEF n
<1>3. IsFiniteSet(1 .. n) /\ Cardinality(1 .. n) = n
  <2>1. 1 \in Int /\ n \in Int
    BY <1>1
  <2>2. IsFiniteSet(1 .. n) /\ Cardinality(1 .. n) = IF 1 > n THEN 0 ELSE n - 1 + 1
    BY <2>1, FS_Interval
  <2> QED BY <1>1, <2>2
<1>4. Cardinality((1 .. n) \ {end}) = n - One(end)
  <2>1. CASE end = 0
    <3>1. (1 .. n) \ {end} = 1 .. n
      BY <2>1
    <3>2. One(end) = 0
      BY <2>1 DEF One
    <3>3. Cardinality((1 .. n) \ {end}) = n
      BY <1>3, <3>1
    <3> QED BY <1>1, <3>2, <3>3
  <2>2. CASE end > 0
    <3>1. end \in 1 .. n
      BY <1>1, <2>2
    <3>2. Cardinality((1 .. n) \ {end}) = Cardinality(1 .. n) - 1
      BY <1>3, <3>1, FS_RemoveElement
    <3> QED BY <1>1, <1>3, <2>2, <3>2 DEF One
  <2>3. end = 0 \/ end > 0
    BY <1>1
  <2> QED BY <2>1, <2>2, <2>3
<1>5. Ticks(0, end) = n - One(end)
  BY <1>1 DEF Ticks, One, n
<1> QED BY <1>2, <1>4, <1>5 DEF Occurrences

(* The ticks and what is under way are the rounds. *)
LEMMA InvMeansOneRound == Inv => OneRound
<1> SUFFICES ASSUME Inv, stream_state = "RUNNING"
             PROVE  Rounds = 1 \/ (Pipelining /\ trigger_is_leaf /\ Rounds = 2)
  BY DEF OneRound
<1>1. PICK start \in Nat, end \in Nat : StreamHolds(start, end)
  BY DEF Inv, StreamInv
<1>2. /\ GraphTypes /\ HostTypes /\ StreamTypes
      /\ QueueIs(start, end) /\ RoundsHold(start, end) /\ CallsHold(start, end)
  BY <1>1 DEF Inv, StreamHolds
<1>3. start = 0
  BY <1>2 DEF CallsHold
<1>4. Occurrences(Tick) = Ticks(0, end) /\ Ticks(0, end) \in Nat /\ UnderWay \in Nat
  BY <1>2, <1>3, TicksCounted, QueueSize, UnderWayType
<1>5. Rounds = Ticks(0, end) + UnderWay
  <2>1. CASE Pipelining
    <3>1. /\ Cardinality(untriggered) \in Nat /\ schedule_pending_count \in Nat
          /\ host.count \in Nat
      BY <1>2, UnderWayType DEF GraphTypes, HostTypes
    <3>2. Rounds = Occurrences(Tick) + Cardinality(untriggered) + schedule_pending_count
                     + host.count + IF notify THEN 1 ELSE 0
      BY <2>1 DEF Rounds, Tick
    <3>3. UnderWay = Cardinality(untriggered) + schedule_pending_count + host.count
                       + IF notify THEN 1 ELSE 0
      BY <2>1 DEF UnderWay
    <3> QED BY <1>4, <3>1, <3>2, <3>3
  <2>2. CASE ~Pipelining
    BY <1>4, <2>2 DEF Rounds, UnderWay, Tick
  <2> QED BY <2>1, <2>2
<1> QED BY <1>2, <1>3, <1>5 DEF RoundsHold, Fine

(* The wait of a task with nothing to come. *)
LEMMA BaseMeansNotMissed == Base => StarvedOnlyIfTaken
<1> SUFFICES ASSUME Base, Starved, task # "wait_delete" PROVE taken
  BY DEF StarvedOnlyIfTaken
<1>1. /\ submitted_count \in Nat /\ schedule_pending_count \in Nat /\ host.count \in Nat
  BY DEF Base, GraphTypes, HostTypes
<1>2. Quiet /\ ~all_graph_completed_event /\ task \in {"wait_run", "wait_stop"}
  BY <1>1 DEF Starved, Outstanding, Quiet
<1> QED BY <1>2 DEF Base, NotMissed

(***************************************************************************)
(* Whoever adds an event finds a free element: the calls of the            *)
(* application, the task after an execution, the HOST task and the nodes.  *)
(* (START makes room for the RUN that follows it.)  After a timeout there  *)
(* may be rounds left from before, which this does not count.              *)
(***************************************************************************)
RoomForEvents ==
  InTime /\ (app = "idle" \/ task = "wait_run" \/ notify \/ untriggered # {})
  => Len(event_q) < EventQueueSize

(* A call adds when no other is under way, a round when it was under way: *)
(* each time at most three events are in the queue.                       *)
LEMMA InvMeansRoom == Inv => RoomForEvents
<1> SUFFICES ASSUME Inv, app = "idle" \/ task = "wait_run" \/ notify \/ untriggered # {}
             PROVE  Len(event_q) < EventQueueSize
  BY DEF RoomForEvents
<1>1. PICK start \in Nat, end \in Nat : StreamHolds(start, end)
  BY DEF Inv, StreamInv
<1>2. /\ GraphTypes /\ HostTypes /\ StreamTypes /\ GraphRuns
      /\ QueueIs(start, end) /\ RoundsHold(start, end) /\ CallsHold(start, end)
  BY <1>1 DEF Inv, StreamHolds
<1>3. /\ Ticks(start, end) \in Nat /\ UnderWay \in Nat /\ Ticks(start, end) + UnderWay <= 2
      /\ One(start) \in 0 .. 1 /\ One(end) \in 0 .. 1
  BY <1>2, QueueSize, UnderWayType DEF RoundsHold
<1>4. CASE app = "idle"
  <2>1. One(end) = 0
    BY <1>2, <1>4 DEF CallsHold, One
  <2>2. Ticks(start, end) + One(start) + One(end) <= 3
    BY <1>3, <2>1
  <2> QED BY <1>2, <2>2, RoomFor
<1>5. CASE task = "wait_run" \/ notify \/ untriggered # {}
  <2>1. UnderWay >= 1
    <3>1. CASE Pipelining
      <4>1. IsFiniteSet(untriggered) /\ Cardinality(untriggered) \in Nat
        BY <1>2, UnderWayType
      <4>2. untriggered # {} => Cardinality(untriggered) > 0
        BY <4>1, FS_EmptySet
      <4>3. schedule_pending_count \in Nat /\ host.count \in Nat /\ task # "wait_run"
        BY <1>2, <3>1 DEF GraphTypes, HostTypes, CallsHold
      <4> QED BY <1>5, <3>1, <4>1, <4>2, <4>3 DEF UnderWay
    <3>2. CASE ~Pipelining
      BY <1>2, <1>5, <3>2 DEF UnderWay, GraphRuns, GraphHolds
    <3> QED BY <3>1, <3>2
  <2>2. Ticks(start, end) + One(start) + One(end) <= 3
    BY <1>3, <2>1
  <2> QED BY <1>2, <2>2, RoomFor
<1> QED BY <1>4, <1>5

-----------------------------------------------------------------------------

(***************************************************************************)
(* vx_graph_stream.c: the fields of the graph and of the streaming task    *)
(* keep their types, as many executions run as were submitted, and the     *)
(* trigger node has yet to complete only for pipeline ids that run.        *)
(***************************************************************************)
THEOREM TypeCorrect == Spec => []TypeOK
<1>1. IInv => TypeOK
  BY BaseMeansTypes DEF IInv
<1> QED BY <1>1, SpecInv, PTL

(* vxStopGraphStreaming "blocks until graph execution is gracefully stopped" *)
(* (vx_khr_pipelining.h:688-689) unless the wait of the task is ended by the *)
(* timeout of the graph: until one was, once it returned nothing runs,       *)
(* nothing is pending, and the task ignores what is left in its queue.       *)
THEOREM StoppedIsStopped == Spec => []StoppedMeansStopped
<1>1. IInv => StoppedMeansStopped
  BY InvMeansStopped DEF IInv, StoppedMeansStopped
<1> QED BY <1>1, SpecInv, PTL

(* However often streaming is stopped and started again, at whatever moment, *)
(* a graph that streams has one thing that will schedule it next; two only   *)
(* with a trigger node that is a leaf; until a wait times out.               *)
THEOREM OneRoundAlways == Spec => []OneRound
<1>1. IInv => OneRound
  BY InvMeansOneRound DEF IInv, OneRound
<1> QED BY <1>1, SpecInv, PTL

(* The waits of the streaming task for its graph (vxWaitGraph) are for a     *)
(* completion that is to come or has come, unless another thread took it or  *)
(* the graph is released while it streams without pipelining.                *)
THEOREM StarvedOnlyIfTakenAlways == Spec => []StarvedOnlyIfTaken
<1>1. IInv => StarvedOnlyIfTaken
  BY BaseMeansNotMissed DEF IInv
<1> QED BY <1>1, SpecInv, PTL

(* ownEventQueueAddEvent never drops an event of streaming for want of a     *)
(* free element while its waits end in time: no START, STOP or DELETE whose  *)
(* caller would then wait for ever, and no event that keeps the graph going. *)
THEOREM NoEventDropped == Spec => []RoomForEvents
<1>1. IInv => RoomForEvents
  BY InvMeansRoom DEF IInv, RoomForEvents
<1> QED BY <1>1, SpecInv, PTL
=============================================================================

-------------------------- MODULE GraphPipelineProofs --------------------------
(***************************************************************************)
(* Proofs about GraphPipeline, for every graph, number of targets, depth,  *)
(* and number of threads and references.  The pipelined graph implements   *)
(* GraphSchedule, so what is proved of the schedule holds of it.  Then, in *)
(* this order, each with the invariants that came before:                  *)
(*   Typed         the types, and the shape of a task at each point;       *)
(*   Expected      the HOST hears of what runs and has run, once;          *)
(*   Ready         a descriptor is in one place, there once, only after    *)
(*                 its predecessors have run and before it has;            *)
(*   RefsPlaced    a reference is in one place, and its entry counts the   *)
(*                 consumers that are done with it;                        *)
(*   EntryContent  an entry holds the data of its own execution;           *)
(*   Told          the HOST hears of a leaf node after the nodes before it;*)
(*   InTurn        each node runs its executions in the order they started;*)
(*   DrawnInTurn   what the application feeds is drawn in that order.      *)
(* From Ready on the nodes that feed one node run on one target; for the   *)
(* last two the job queues have room for all descriptors as well.          *)
(***************************************************************************)
EXTENDS GraphPipeline, FiniteSetTheorems, SequenceTheorems, TLAPS

(* The theorems about the schedule, of the instance that this module runs. *)
SP == INSTANCE GraphScheduleProofs WITH
       Caller <- App, Leaf <- LeafNodes, Mode <- "QUEUE_AUTO",
       LeafAbandons <- FALSE, InnerAbandons <- FALSE, Timeouts <- FALSE

-----------------------------------------------------------------------------
(* Sequences used as queues. *)

(* Putting an element at the end adds it to the set. *)
LEMMA Appended ==
  ASSUME NEW T, NEW s \in Seq(T), NEW e \in T
  PROVE  /\ Append(s, e) \in Seq(T) /\ Len(Append(s, e)) = Len(s) + 1
         /\ Range(Append(s, e)) = Range(s) \cup {e}
         /\ IsInjective(s) /\ e \notin Range(s) => IsInjective(Append(s, e))
  <1>1. /\ Append(s, e) \in Seq(T) /\ Len(Append(s, e)) = Len(s) + 1
        /\ \A i \in 1 .. Len(s) : Append(s, e)[i] = s[i]
        /\ Append(s, e)[Len(s) + 1] = e
    OBVIOUS
  <1>2. /\ DOMAIN s = 1 .. Len(s) /\ Len(s) \in Nat
        /\ DOMAIN Append(s, e) = 1 .. (Len(s) + 1)
    BY <1>1, LenProperties
  <1>3. \A i \in 1 .. (Len(s) + 1) : i \in 1 .. Len(s) \/ i = Len(s) + 1
    BY <1>2
  <1>4. Len(s) + 1 \in 1 .. (Len(s) + 1) /\ 1 .. Len(s) \subseteq 1 .. (Len(s) + 1)
    BY <1>2
  <1>5. Range(Append(s, e)) \subseteq Range(s) \cup {e}
    BY <1>1, <1>2, <1>3 DEF Range
  <1>6. Range(s) \cup {e} \subseteq Range(Append(s, e))
    BY <1>1, <1>2, <1>4 DEF Range
  <1>7. ASSUME IsInjective(s), e \notin Range(s)  PROVE IsInjective(Append(s, e))
    BY <1>1, <1>2, <1>7 DEF Range, IsInjective
  <1>. QED  BY <1>1, <1>5, <1>6, <1>7

(* Taking the head removes it, from a queue without doubles for good. *)
LEMMA Removed ==
  ASSUME NEW T, NEW s \in Seq(T), s # <<>>
  PROVE  /\ Head(s) \in T /\ Tail(s) \in Seq(T) /\ Len(Tail(s)) = Len(s) - 1
         /\ Head(s) \in Range(s) /\ Range(Tail(s)) \subseteq Range(s)
         /\ Range(s) = Range(Tail(s)) \cup {Head(s)}
         /\ IsInjective(s) => IsInjective(Tail(s)) /\ Range(Tail(s)) = Range(s) \ {Head(s)}
  <1>1. /\ Head(s) \in T /\ Tail(s) \in Seq(T) /\ Len(s) > 0 /\ Head(s) = s[1]
        /\ Len(Tail(s)) = Len(s) - 1
        /\ \A i \in 1 .. (Len(s) - 1) : Tail(s)[i] = s[i + 1]
    BY EmptySeq, HeadTailProperties
  <1>2. /\ DOMAIN s = 1 .. Len(s) /\ Len(s) \in Nat
        /\ DOMAIN Tail(s) = 1 .. (Len(s) - 1)
    BY <1>1, LenProperties
  <1>3. /\ \A i \in DOMAIN Tail(s) : i + 1 \in DOMAIN s /\ i + 1 # 1
        /\ \A i \in DOMAIN s \ {1} : i - 1 \in DOMAIN Tail(s) /\ i - 1 + 1 = i
        /\ 1 \in DOMAIN s
    BY <1>1, <1>2
  <1>4. \A i \in DOMAIN Tail(s) : Tail(s)[i] = s[i + 1]
    BY <1>1, <1>2
  <1>. HIDE <1>1, <1>2
  <1>5. Head(s) \in Range(s)
    BY <1>1, <1>3 DEF Range
  <1>6. Range(Tail(s)) \subseteq Range(s)
    BY <1>3, <1>4 DEF Range
  <1>7. Range(s) \subseteq Range(Tail(s)) \cup {Head(s)}
    BY <1>3, <1>4, <1>1 DEF Range
  <1>8. ASSUME IsInjective(s)
        PROVE  IsInjective(Tail(s)) /\ Head(s) \notin Range(Tail(s))
    BY <1>3, <1>4, <1>8, <1>2, <1>1 DEF IsInjective, Range
  <1>. QED  BY <1>1, <1>5, <1>6, <1>7, <1>8

(* An empty queue holds nothing, and nothing twice. *)
LEMMA EmptyHasNone == Range(<<>>) = {} /\ IsInjective(<<>>)
  BY DEF Range, IsInjective

(* A queue without doubles is as long as it has elements. *)
LEMMA LenIsCardinality ==
  ASSUME NEW T, NEW s \in Seq(T), IsInjective(s)
  PROVE  IsFiniteSet(Range(s)) /\ Cardinality(Range(s)) = Len(s) /\ Range(s) \subseteq T
  <1>1. DOMAIN s = 1 .. Len(s) /\ Len(s) \in Nat
    BY LenProperties
  <1>2. IsFiniteSet(1 .. Len(s)) /\ Cardinality(1 .. Len(s)) = Len(s)
    BY SMTT(30), <1>1, FS_Interval
  <1>3. s \in Bijection(1 .. Len(s), Range(s))
    BY <1>1 DEF Range, Bijection, Injection, Surjection, IsInjective
  <1>4. ExistsBijection(1 .. Len(s), Range(s))
    BY <1>3 DEF ExistsBijection
  <1>5. Range(s) \subseteq T
    BY <1>1 DEF Range
  <1>. QED  BY <1>2, <1>4, <1>5, FS_Bijection

(* The elements of a finite set in some order. *)
LEMMA SetAsSeq ==
  ASSUME NEW T, IsFiniteSet(T)
  PROVE  SetToSeq(T) \in Seq(T) /\ IsInjective(SetToSeq(T)) /\ Range(SetToSeq(T)) = T
  <1>. DEFINE n == Cardinality(T)
  <1>1. n \in Nat
    BY FS_CardinalityType
  <1>2. ExistsBijection(1 .. n, T)
    BY FS_NatBijection, FS_CountingElements
  <1>3. PICK f \in Bijection(1 .. n, T) : TRUE
    BY <1>2 DEF ExistsBijection
  <1>4. f \in [1 .. n -> T] /\ IsInjective(f)
    BY <1>3 DEF Bijection, Injection, IsInjective
  <1>5. SetToSeq(T) \in [1 .. n -> T] /\ IsInjective(SetToSeq(T))
    BY <1>4 DEF SetToSeq
  <1>6. SetToSeq(T) \in Seq(T)
    BY <1>1, <1>5
  <1>7. Range(SetToSeq(T)) \subseteq T /\ Cardinality(Range(SetToSeq(T))) = Cardinality(T)
    BY <1>1, <1>5, <1>6, LenIsCardinality
  <1>. QED  BY <1>5, <1>6, <1>7, FS_Subset

(* The graph has a leaf node: it has no cycle. *)
LEMMA LeafFacts == IsFiniteSet(LeafNodes) /\ LeafNodes # {} /\ LeafNodes \subseteq Node
  BY GraphAssumption, FS_Subset DEF LeafNodes, OutNodes

(* The assumptions of GraphSchedule hold of the instance. *)
LEMMA ScheduleAssumptions ==
  /\ SP!DepthAssumption /\ SP!LeafAssumption /\ SP!ModeAssumption
  /\ SP!BoundAssumption /\ SP!SwitchAssumption
  <1>1. SP!DepthAssumption
    BY SizeAssumption DEF SP!DepthAssumption
  <1>2. SP!LeafAssumption
    BY LeafFacts DEF SP!LeafAssumption, SP!IsFiniteSet, IsFiniteSet
  <1>3. SP!ModeAssumption
    BY DEF SP!ModeAssumption
  <1>4. SP!BoundAssumption
    BY SizeAssumption DEF SP!BoundAssumption
  <1>5. SP!SwitchAssumption
    BY DEF SP!SwitchAssumption
  <1>. QED  BY <1>1, <1>2, <1>3, <1>4, <1>5

(* One count of leaf nodes, under two names.                                 *)
LEMMA SameCount == S!NumLeafNodes = SP!NumLeafNodes
  BY DEF S!Cardinality, SP!Cardinality, S!IsFiniteSet, SP!IsFiniteSet, S!NumLeafNodes,
     SP!NumLeafNodes

(* The definitions of the two instances agree. *)
LEMMA SameSchedule ==
  /\ S!Init <=> SP!Init
  /\ S!vars = SP!vars
  /\ \A c : S!ScheduleCall(c) <=> SP!ScheduleCall(c)
  /\ \A c : S!Schedule(c) <=> SP!Schedule(c)
  /\ S!Reschedule <=> SP!Reschedule
  /\ \A l, p : S!LeafCompletes(l, p, "CONTINUE") <=> SP!LeafCompletes(l, p, "CONTINUE")
  /\ \A l, p : S!GraphCompletes(l, p, "CONTINUE") <=> SP!GraphCompletes(l, p, "CONTINUE")
  <1>1. S!Init <=> SP!Init
    BY DEF S!Init, SP!Init, S!Pipe, SP!Pipe, S!HostIdle, SP!HostIdle
  <1>2. S!vars = SP!vars
    BY DEF S!vars, SP!vars, S!graph, SP!graph, S!callers, SP!callers, S!history, SP!history
  <1>3. \A n : S!ScheduleGraph(n) <=> SP!ScheduleGraph(n)
    BY DEF S!ScheduleGraph, SP!ScheduleGraph, S!Started, SP!Started, S!Smaller, SP!Smaller,
           S!StillPending, SP!StillPending, S!EventAfterStart, SP!EventAfterStart, S!Pipe, SP!Pipe
  <1>4. \A c : S!ScheduleCall(c) <=> SP!ScheduleCall(c)
    BY DEF S!ScheduleCall, SP!ScheduleCall, S!Batch, SP!Batch, S!Returns, SP!Returns,
       S!graph, SP!graph, S!history, SP!history
  <1>5. \A c : S!Schedule(c) <=> SP!Schedule(c)
    BY <1>3 DEF S!Schedule, SP!Schedule, S!Promised, SP!Promised, S!Returns, SP!Returns,
       S!Started, SP!Started, S!Smaller, SP!Smaller
  <1>6. S!Reschedule <=> SP!Reschedule
    BY <1>3 DEF S!Reschedule, SP!Reschedule, S!callers, SP!callers
  <1>7. \A l, p : S!LeafCompletes(l, p, "CONTINUE") <=> SP!LeafCompletes(l, p, "CONTINUE")
    BY SameCount DEF S!LeafCompletes, SP!LeafCompletes, S!CountLeaf, SP!CountLeaf, S!ToAbandon, SP!ToAbandon,
           S!callers, SP!callers
  <1>8. \A l, p : S!GraphCompletes(l, p, "CONTINUE") <=> SP!GraphCompletes(l, p, "CONTINUE")
    BY SameCount DEF S!GraphCompletes, SP!GraphCompletes, S!CompleteGraph, SP!CompleteGraph,
           S!ToAbandon, SP!ToAbandon, S!callers, SP!callers,
           S!StateAfterRun, SP!StateAfterRun, S!TakenOver, SP!TakenOver,
           S!LeftPending, SP!LeftPending, S!AllCompleted, SP!AllCompleted,
           S!LeafCountAfterRun, SP!LeafCountAfterRun, S!FreePipe, SP!FreePipe
  <1>. QED BY <1>1, <1>2, <1>4, <1>5, <1>6, <1>7, <1>8

(* The instance and its theorems speak of the same state.                    *)
LEMMA SameInvariants ==
  /\ S!TypeOK <=> SP!TypeOK
  /\ S!PipesPartitioned <=> SP!PipesPartitioned
  /\ S!Busy = SP!Busy
  <1>1. S!TypeOK <=> SP!TypeOK
    BY SameCount DEF S!TypeOK, SP!TypeOK, S!States, SP!States, S!Statuses, SP!Statuses,
                     S!Pipe, SP!Pipe
  <1>2. S!Busy = SP!Busy
    BY DEF S!Busy, SP!Busy, S!Pipe, SP!Pipe
  <1>3. S!PipesPartitioned <=> SP!PipesPartitioned
    BY <1>2 DEF S!PipesPartitioned, SP!PipesPartitioned, S!Pipe, SP!Pipe
  <1>. QED  BY <1>1, <1>2, <1>3

(* Every step of the pipelined graph is a step of its schedule, or none of it. *)
LEMMA ScheduleStep ==
  ASSUME SP!TypeOK, [Next]_vars
  PROVE  [S!Next]_S!vars /\ [SP!Next]_SP!vars
  <1>. USE SameSchedule
  <1>1. ASSUME UNCHANGED schedule PROVE UNCHANGED S!vars /\ UNCHANGED SP!vars
    BY Zenon, <1>1 DEF schedule, graph, history, SP!vars, SP!graph, SP!callers, SP!history,
                S!vars, S!graph, S!callers, S!history
  <1>2. ASSUME NEW t \in Target, TargetTask(t) PROVE UNCHANGED schedule
    BY Zenon, <1>2 DEF TargetTask, Take, Acquire, Complete, TaskTrigger, Release, SendComplete, TriggerNext
  <1>3. CASE HostCompletes
    <2>. DEFINE d == Head(job_q["HOST"])
    <2>1. /\ SP!LeafCompletes(d[1], d[2], "CONTINUE") \/ SP!GraphCompletes(d[1], d[2], "CONTINUE")
          /\ S!LeafCompletes(d[1], d[2], "CONTINUE") \/ S!GraphCompletes(d[1], d[2], "CONTINUE")
      BY <1>3 DEF HostCompletes
    <2>. HIDE DEF d
    <2>2. <<d[1], d[2]>> \in running
      BY <2>1 DEF SP!LeafCompletes, SP!CountLeaf, SP!GraphCompletes, SP!CompleteGraph
    <2>3. d[1] \in LeafNodes /\ d[2] \in SP!Pipe /\ d[2] \in S!Pipe
      BY <2>2 DEF SP!TypeOK, SP!Pipe, S!Pipe
    <2>4. "CONTINUE" \in S!LeafActions /\ "CONTINUE" \in SP!LeafActions
      BY DEF S!LeafActions, SP!LeafActions
    <2>5. S!HostTask /\ SP!HostTask
      BY <2>1, <2>3, <2>4 DEF S!HostTask, SP!HostTask
    <2>. QED  BY <2>5 DEF S!Next, SP!Next
  <1>4. CASE HostReschedules
    BY <1>4 DEF HostReschedules, S!Next, S!HostTask, SP!Next, SP!HostTask
  <1>5. ASSUME NEW a \in App, NEW q \in GraphParam, NEW r \in Ref, EnqueueReadyRef(a, q, r)
        PROVE  [S!Next]_S!vars /\ [SP!Next]_SP!vars
    <2>1. CASE q = Param0
      <3>1. 1 \in SP!Batch \ {0}
        BY DEF SP!Batch
      <3>2. SP!ScheduleCall(a)
        BY <1>5, <2>1, <3>1 DEF EnqueueReadyRef, SP!ScheduleCall, graph, history, SP!graph, SP!history
      <3>. QED  BY <3>2 DEF S!Next, S!CallerStep, SP!Next, SP!CallerStep
    <2>2. CASE q # Param0
      BY <1>1, <1>5, <2>2 DEF EnqueueReadyRef, schedule
    <2>. QED  BY <2>1, <2>2
  <1>6. ASSUME NEW a \in App, AppTrigger(a) \/ ScheduleAfterEnqueue(a)
        PROVE  [S!Next]_S!vars /\ [SP!Next]_SP!vars
    BY <1>1, <1>6 DEF AppTrigger, ScheduleAfterEnqueue, S!Next, S!CallerStep, SP!Next, SP!CallerStep
  <1>7. CASE Dequeue \/ HostNotifies \/ KernelSchedule
    BY <1>1, <1>7 DEF Dequeue, DequeueDoneRef, HostNotifies, KernelSchedule
  <1>8. CASE UNCHANGED vars
    BY <1>1, <1>8 DEF vars
  <1>. QED
    BY <1>1, <1>2, <1>3, <1>4, <1>5, <1>6, <1>7, <1>8 DEF Next, Host, AppStep

(* What the proofs below take from the schedule. *)
LEMMA ScheduleInv == Spec => []SP!Inv
  <1>1. Init => SP!Init
    BY SameSchedule DEF Init
  <1>2. SP!Init => SP!Inv
    BY SP!InitInv, ScheduleAssumptions
  <1>3. SP!Inv /\ [SP!Next]_SP!vars => SP!Inv'
    BY SP!NextInv, ScheduleAssumptions
  <1>4. SP!Inv => SP!TypeOK
    BY DEF SP!Inv
  <1>5. SP!Inv /\ [Next]_vars => SP!Inv'
    BY <1>3, <1>4, ScheduleStep
  <1>. QED  BY <1>1, <1>2, <1>5, PTL DEF Spec

(* The schedule of a pipelined graph is that of GraphSchedule. *)
THEOREM SchedulesAsSpecified == Spec => S!Spec
  <1>1. Init => S!Init
    BY DEF Init
  <1>2. SP!Inv /\ [Next]_vars => [S!Next]_S!vars
    BY ScheduleStep DEF SP!Inv
  <1>. QED  BY <1>1, <1>2, ScheduleInv, PTL DEF Spec, S!Spec

-----------------------------------------------------------------------------
(* The graph. *)

(* The parameters of a node: at least one, each of a data reference. *)
LEMMA Parameters ==
  ASSUME NEW n \in Node
  PROVE  /\ Param[n] \in Seq(DataRefQ \X BOOLEAN)
         /\ Len(Param[n]) \in Nat \ {0} /\ DOMAIN Param[n] = 1 .. Len(Param[n])
         /\ \A i \in 1 .. Len(Param[n]) : Param[n][i][1] \in DataRefQ /\ Param[n][i][2] \in BOOLEAN
                                          /\ Param[n][i] = <<Param[n][i][1], Param[n][i][2]>>
         /\ \A i, j \in 1 .. Len(Param[n]) : Param[n][i][1] = Param[n][j][1] => i = j
  BY GraphAssumption, EmptySeq, LenProperties

(* No node runs on the HOST.                                                 *)
LEMMA Targets ==
  /\ \A n \in Node : TargetOf[n] \in Target /\ TargetOf[n] # "HOST"
  /\ "HOST" \notin Target
  BY TargetAssumption

(* The pipeline ids are as many as the depth.                                *)
LEMMA Pipes ==
  /\ Pipe = S!Pipe /\ Pipe = SP!Pipe /\ Pipe \subseteq Nat
  /\ IsFiniteSet(Pipe) /\ Cardinality(Pipe) = Depth
  BY SizeAssumption, FS_Interval DEF Pipe, S!Pipe, SP!Pipe

(* prev_pipe_node_id is a descriptor of the same node. *)
LEMMA PrevPipeIs ==
  ASSUME NEW d \in Desc
  PROVE  PrevPipe(d) \in Desc /\ PrevPipe(d)[1] = d[1] /\ PrevPipe(d)[2] = (d[2] + Depth - 1) % Depth
  BY SizeAssumption, Pipes DEF Desc, PrevPipe, Pipe

-----------------------------------------------------------------------------
(* Starting executions. *)

(* Division with remainder. *)
LEMMA DivMod ==
  ASSUME NEW m \in Nat \ {0}, NEW j \in Nat
  PROVE  j \div m \in Nat /\ j % m \in 0 .. m - 1 /\ j = m * (j \div m) + (j % m)
  OBVIOUS

(* The quotient orders the numbers before the remainder does. *)
LEMMA QuotientFirst ==
  ASSUME NEW m \in Nat \ {0}, NEW a \in Nat, NEW b \in Nat, NEW x \in 1 .. m, NEW y \in 1 .. m, a < b
  PROVE  m * a + x < m * b + y
  OBVIOUS

(* A number has one quotient and one remainder. *)
LEMMA QuotientSame ==
  ASSUME NEW m \in Nat \ {0}, NEW a \in Nat, NEW b \in Nat, NEW x \in 1 .. m, NEW y \in 1 .. m,
         m * a + x = m * b + y
  PROVE  a = b /\ x = y
  BY QuotientFirst

(* The head nodes, each once. *)
LEMMA HeadsIs == Heads \in Seq(HeadNodes) /\ IsInjective(Heads) /\ Range(Heads) = HeadNodes
  BY FS_Subset, GraphAssumption, SetAsSeq DEF HeadNodes, Heads

(* The ids that are about to start. *)
Taken(k) == {free_q[i] : i \in 1 .. k}

(* What is scheduled: each head node for each id, once, and the ids in the    *)
(* order in which they start.                                                 *)
LEMMA ScheduledIs ==
  ASSUME S!TypeOK, S!PipesPartitioned,
         NEW k \in 0 .. Len(free_q)
  PROVE  LET ds == Scheduled(k)
         IN  /\ ds \in Seq(Desc) /\ IsInjective(ds)
             /\ Range(ds) = HeadNodes \X Taken(k)
             /\ \A i, j \in DOMAIN ds : i < j =>
                  \E a, b \in 1 .. k : a <= b /\ ds[i][2] = free_q[a] /\ ds[j][2] = free_q[b]
  <1>. DEFINE heads == Heads
              m == Len(heads)
              ds == Scheduled(k)
              H == HeadNodes
              hd(j) == ((j - 1) % m) + 1
              ip(j) == ((j - 1) \div m) + 1
  <1>1. /\ heads \in Seq(H) /\ IsInjective(heads) /\ Range(heads) = H /\ m \in Nat
        /\ DOMAIN heads = 1 .. m
    BY HeadsIs, LenProperties
  <1>2. /\ free_q \in Seq(Pipe) /\ Len(free_q) \in Nat /\ k \in Nat
        /\ \A i \in 1 .. k : free_q[i] \in Pipe
        /\ \A i, j \in 1 .. k : free_q[i] = free_q[j] => i = j
    <2>1. free_q \in Seq(Pipe)
      BY Pipes DEF S!TypeOK
    <2>2. Len(free_q) \in Nat /\ k \in Nat /\ 1 .. k \subseteq 1 .. Len(free_q)
      BY <2>1
    <2>. QED  BY <2>1, <2>2 DEF S!PipesPartitioned
  <1>3. ds = [j \in 1 .. k * m |-> <<heads[hd(j)], free_q[ip(j)]>>]
    BY DEF Scheduled
  <1>. HIDE DEF ds, heads, m, H
  <1>4. k * m \in Nat
    BY <1>1, <1>2
  <1>5. \A j \in 1 .. k * m : /\ hd(j) \in 1 .. m /\ ip(j) \in 1 .. k
                              /\ j = m * (ip(j) - 1) + hd(j)
    <2>. SUFFICES ASSUME NEW j \in 1 .. k * m
                  PROVE  hd(j) \in 1 .. m /\ ip(j) \in 1 .. k /\ j = m * (ip(j) - 1) + hd(j)
      OBVIOUS
    <2>1. m \in Nat \ {0}
      BY <1>1, <1>2
    <2>2. j - 1 \in Nat /\ j - 1 < k * m
      BY <1>4
    <2>3. /\ (j - 1) \div m \in Nat /\ (j - 1) % m \in 0 .. m - 1
          /\ j - 1 = m * ((j - 1) \div m) + ((j - 1) % m)
      BY <2>1, <2>2, DivMod
    <2>4. (j - 1) \div m < k
      BY <2>1, <2>2, <2>3, <1>2
    <2>. QED  BY <2>1, <2>2, <2>3, <2>4, <1>2
  <1>6. \A j \in 1 .. k * m : heads[hd(j)] \in H /\ free_q[ip(j)] \in Pipe
    BY SMTT(30), <1>1, <1>2, <1>5
  <1>7. ds \in Seq(Desc)
    <2>1. H \subseteq Node
      BY DEF H, HeadNodes
    <2>2. \A j \in 1 .. k * m : <<heads[hd(j)], free_q[ip(j)]>> \in Desc
      BY <1>6, <2>1 DEF Desc
    <2>. HIDE DEF hd, ip
    <2>3. ds \in [1 .. k * m -> Desc]
      BY <1>3, <2>2
    <2>. QED  BY <1>4, <2>3
  <1>8. DOMAIN ds = 1 .. k * m /\ \A j \in 1 .. k * m : ds[j] = <<heads[hd(j)], free_q[ip(j)]>>
    BY <1>3
  <1>9. IsInjective(ds)
    <2>. SUFFICES ASSUME NEW i \in 1 .. k * m, NEW j \in 1 .. k * m, ds[i] = ds[j]
                  PROVE  i = j
      BY <1>8 DEF IsInjective
    <2>1. heads[hd(i)] = heads[hd(j)] /\ free_q[ip(i)] = free_q[ip(j)]
      BY <1>8
    <2>2. hd(i) = hd(j) /\ ip(i) = ip(j)
      BY ZenonT(30), <2>1, <1>1, <1>2, <1>5 DEF IsInjective
    <2>. QED  BY <2>2, <1>5
  <1>10. Range(ds) \subseteq H \X Taken(k)
    <2>. SUFFICES ASSUME NEW j \in 1 .. k * m
                  PROVE  ds[j] \in H \X Taken(k)
      BY <1>8 DEF Range
    <2>0. ip(j) \in 1 .. k
      BY <1>5
    <2>1. heads[hd(j)] \in H /\ free_q[ip(j)] \in Taken(k)
      BY <2>0, <1>6 DEF Taken
    <2>2. ds[j] = <<heads[hd(j)], free_q[ip(j)]>>
      BY <1>8
    <2>. HIDE DEF hd, ip
    <2>. QED  BY <2>1, <2>2
  <1>11. ASSUME NEW n \in H, NEW p \in Taken(k)  PROVE <<n, p>> \in Range(ds)
    <2>1. PICK a \in 1 .. m : heads[a] = n
      BY <1>1 DEF Range
    <2>2. PICK b \in 1 .. k : free_q[b] = p
      BY DEF Taken
    <2>. DEFINE j == m * (b - 1) + a
    <2>3. m \in Nat \ {0} /\ a - 1 \in 0 .. m - 1 /\ b - 1 \in Nat
      BY <1>1, <1>2
    <2>4. j \in 1 .. k * m
      BY <1>2, <2>3, <1>1, <1>4
    <2>5. j - 1 = m * (b - 1) + (a - 1)
      BY <1>1, <1>2, <2>3
    <2>. HIDE DEF j
    <2>6. hd(j) = a /\ ip(j) = b
      <3>1. hd(j) \in 1 .. m /\ ip(j) \in 1 .. k /\ j = m * (ip(j) - 1) + hd(j)
        BY <1>5, <2>4
      <3>. HIDE DEF hd, ip
      <3>2. PICK g \in Nat, h \in 1 .. m : ip(j) = g + 1 /\ hd(j) = h
        <4>1. ip(j) - 1 \in Nat /\ ip(j) = (ip(j) - 1) + 1
          BY <3>1, <1>2
        <4>. QED  BY <3>1, <4>1
      <3>3. m * g + h = m * (b - 1) + a
        BY <3>1, <3>2 DEF j
      <3>4. g = b - 1 /\ h = a
        BY <3>3, <2>3, QuotientSame
      <3>. QED  BY <3>2, <3>4, <1>2
    <2>7. ds[j] = <<n, p>>
      BY <1>8, <2>1, <2>2, <2>4, <2>6
    <2>. QED  BY <1>8, <2>4, <2>7 DEF Range
  <1>12. ASSUME NEW i \in 1 .. k * m, NEW j \in 1 .. k * m, i < j
         PROVE  \E a, b \in 1 .. k : a <= b /\ ds[i][2] = free_q[a] /\ ds[j][2] = free_q[b]
    <2>1. /\ ip(i) \in 1 .. k /\ ip(j) \in 1 .. k /\ hd(i) \in 1 .. m /\ hd(j) \in 1 .. m
          /\ i = m * (ip(i) - 1) + hd(i) /\ j = m * (ip(j) - 1) + hd(j)
      BY <1>5
    <2>2. ds[i][2] = free_q[ip(i)] /\ ds[j][2] = free_q[ip(j)]
      BY <1>8
    <2>. HIDE DEF ip, hd
    <2>3. ip(i) <= ip(j)
      <3>1. m \in Nat \ {0}
        BY <1>1, <1>2
      <3>0. /\ ip(i) - 1 \in Nat /\ ip(j) - 1 \in Nat
            /\ ip(j) < ip(i) => ip(j) - 1 < ip(i) - 1
        BY <2>1, <1>2
      <3>2. ip(j) < ip(i) => m * (ip(j) - 1) + hd(j) < m * (ip(i) - 1) + hd(i)
        BY <2>1, <3>0, <3>1, QuotientFirst
      <3>. QED  BY SMTT(30), <3>1, <3>2, <2>1, <1>2, <1>12
    <2>. QED  BY <2>1, <2>2, <2>3
  <1>13. Range(ds) = H \X Taken(k)
    BY <1>10, <1>11
  <1>. QED  BY <1>7, <1>8, <1>9, <1>12, <1>13 DEF ds, H

-----------------------------------------------------------------------------
(* The job queues. *)

Jobs == Target \cup {"HOST"}

(* The types of the job queues. *)
JobsOK(jobs) ==
  /\ jobs \in [Jobs -> Seq(Desc)]
  /\ \A t \in Jobs : Len(jobs[t]) <= JobQueueSize

(* A queue that is not full takes the descriptor, at its end. *)
LEMMA PutIs ==
  ASSUME NEW jobs, JobsOK(jobs), NEW t \in Jobs, NEW d \in Desc
  PROVE  /\ JobsOK(Put(jobs, t, d))
         /\ \A u \in Jobs \ {t} : Put(jobs, t, d)[u] = jobs[u]
         /\ Put(jobs, t, d)[t] = IF Len(jobs[t]) < JobQueueSize THEN Append(jobs[t], d) ELSE jobs[t]
         /\ Range(Put(jobs, t, d)[t]) \subseteq Range(jobs[t]) \cup {d}
         /\ IsInjective(jobs[t]) /\ d \notin Range(jobs[t]) => IsInjective(Put(jobs, t, d)[t])
  <1>. DEFINE s == jobs[t]
  <1>1. s \in Seq(Desc) /\ Len(s) \in Nat /\ JobQueueSize \in Nat
    BY LenProperties, SizeAssumption DEF JobsOK
  <1>2. /\ Append(s, d) \in Seq(Desc) /\ Len(Append(s, d)) = Len(s) + 1
        /\ Range(Append(s, d)) = Range(s) \cup {d}
        /\ IsInjective(s) /\ d \notin Range(s) => IsInjective(Append(s, d))
    BY <1>1, Appended
  <1>. HIDE DEF s
  <1>3. CASE Len(s) < JobQueueSize
    BY <1>3, <1>1, <1>2 DEF Put, s, JobsOK
  <1>4. CASE ~(Len(s) < JobQueueSize)
    BY <1>4 DEF Put, s
  <1>. QED  BY <1>3, <1>4

(* A trigger puts the descriptor into the queue of the target of its node. *)
LEMMA TriggerIs ==
  ASSUME NEW jobs, JobsOK(jobs), NEW d \in Desc
  PROVE  /\ JobsOK(Trigger(jobs, d)) /\ TargetOf[d[1]] \in Target
         /\ \A u \in Jobs \ {TargetOf[d[1]]} : Trigger(jobs, d)[u] = jobs[u]
         /\ Trigger(jobs, d)["HOST"] = jobs["HOST"]
         /\ Trigger(jobs, d)[TargetOf[d[1]]] =
              IF Len(jobs[TargetOf[d[1]]]) < JobQueueSize
              THEN Append(jobs[TargetOf[d[1]]], d) ELSE jobs[TargetOf[d[1]]]
         /\ Range(Trigger(jobs, d)[TargetOf[d[1]]]) \subseteq Range(jobs[TargetOf[d[1]]]) \cup {d}
         /\ IsInjective(jobs[TargetOf[d[1]]]) /\ d \notin Range(jobs[TargetOf[d[1]]])
              => IsInjective(Trigger(jobs, d)[TargetOf[d[1]]])
  <1>1. d[1] \in Node
    BY DEF Desc
  <1>2. PICK t \in Target : t = TargetOf[d[1]] /\ t # "HOST"
    BY <1>1, Targets
  <1>3. t \in Jobs /\ "HOST" \in Jobs \ {t} /\ Trigger(jobs, d) = Put(jobs, t, d)
    BY <1>2 DEF Jobs, Trigger
  <1>4. /\ JobsOK(Put(jobs, t, d))
        /\ \A u \in Jobs \ {t} : Put(jobs, t, d)[u] = jobs[u]
        /\ Put(jobs, t, d)[t] = IF Len(jobs[t]) < JobQueueSize THEN Append(jobs[t], d) ELSE jobs[t]
        /\ Range(Put(jobs, t, d)[t]) \subseteq Range(jobs[t]) \cup {d}
        /\ IsInjective(jobs[t]) /\ d \notin Range(jobs[t]) => IsInjective(Put(jobs, t, d)[t])
    BY <1>3, PutIs
  <1>. QED  BY <1>2, <1>3, <1>4

(* A step that triggers d. *)
LEMMA Triggered ==
  ASSUME JobsOK(job_q), NEW d \in Desc, job_q' = Trigger(job_q, d)
  PROVE  LET t == TargetOf[d[1]]
         IN  /\ JobsOK(job_q') /\ t \in Target
             /\ \A u \in Target \ {t} : job_q'[u] = job_q[u]
             /\ job_q'["HOST"] = job_q["HOST"]
             /\ job_q'[t] = IF Len(job_q[t]) < JobQueueSize THEN Append(job_q[t], d) ELSE job_q[t]
             /\ Range(job_q'[t]) \subseteq Range(job_q[t]) \cup {d}
             /\ IsInjective(job_q[t]) /\ d \notin Range(job_q[t]) => IsInjective(job_q'[t])
  <1>. DEFINE t == TargetOf[d[1]]
  <1>1. Target \ {t} \subseteq Jobs \ {t}
    BY DEF Jobs
  <1>2. /\ JobsOK(job_q') /\ t \in Target
        /\ \A u \in Jobs \ {t} : job_q'[u] = job_q[u]
        /\ job_q'["HOST"] = job_q["HOST"]
        /\ job_q'[t] = IF Len(job_q[t]) < JobQueueSize THEN Append(job_q[t], d) ELSE job_q[t]
        /\ Range(job_q'[t]) \subseteq Range(job_q[t]) \cup {d}
        /\ IsInjective(job_q[t]) /\ d \notin Range(job_q[t]) => IsInjective(job_q'[t])
    BY TriggerIs
  <1>. HIDE DEF t
  <1>3. \A u \in Target \ {t} : job_q'[u] = job_q[u]
    BY <1>1, <1>2
  <1>. QED  BY <1>2, <1>3 DEF t

-----------------------------------------------------------------------------
(* Executions start: under the graph lock, on the first k free pipeline ids. *)

Starts(k) ==
  /\ k \in 0 .. Len(free_q)
  /\ free_q' = SubSeq(free_q, k + 1, Len(free_q))
  /\ submitted_count' = submitted_count + k
  /\ running' = running \cup LeafNodes \X Taken(k)
  /\ executed' = {d \in executed : d[2] \notin Taken(k)}
  /\ starting = <<>> /\ starting' = Scheduled(k)
  /\ frame' = [p \in Pipe |->
                 IF p \in Taken(k)
                 THEN completed + submitted_count + CHOOSE i \in 1 .. k : free_q[i] = p
                 ELSE frame[p]]
  /\ UNCHANGED <<completed, state, blocked_node_id, refs, job_q, task, app, owned, data>>

(* Both actions that start executions do this. *)
LEMMA StartsIs ==
  ASSUME SP!Inv, HostReschedules \/ \E a \in App : ScheduleAfterEnqueue(a)
  PROVE  \E k \in Nat : Starts(k)
  <1>1. S!TypeOK
    BY SameInvariants DEF SP!Inv
  <1>2. PICK n \in Nat : S!ScheduleGraph(n) /\ \E x : StartNodes(x, n)
    BY <1>1 DEF S!TypeOK, HostReschedules, S!Reschedule, ScheduleAfterEnqueue, S!Schedule
  <1>3. PICK k \in 0 .. Len(free_q) : k = S!Started(n)
    <2>1. Len(free_q) \in Nat /\ schedule_pending_count \in Nat
      BY <1>1 DEF S!TypeOK
    <2>. QED  BY <2>1 DEF S!Started, S!Smaller
  <1>4. starting = <<>> /\ UNCHANGED <<completed, state, blocked_node_id, refs, job_q, task, app, owned, data>>
    BY DEF Unlocked, HostReschedules, S!Reschedule, ScheduleAfterEnqueue, S!Schedule
  <1>5. /\ free_q' = SubSeq(free_q, k + 1, Len(free_q))
        /\ submitted_count' = submitted_count + k
        /\ running' = running \cup LeafNodes \X Taken(k)
    BY <1>2, <1>3 DEF S!ScheduleGraph, Taken
  <1>6. /\ executed' = {d \in executed : d[2] \notin Taken(k)}
        /\ starting' = Scheduled(k)
        /\ frame' = [p \in Pipe |->
                       IF p \in Taken(k)
                       THEN completed + submitted_count + CHOOSE i \in 1 .. k : free_q[i] = p
                       ELSE frame[p]]
    BY <1>2, <1>3 DEF StartNodes, Taken
  <1>7. k \in Nat
    BY <1>1, <1>3 DEF S!TypeOK
  <1>. QED  BY <1>3, <1>4, <1>5, <1>6, <1>7 DEF Starts

(* The ids that start did not run. *)
LEMMA TakenIs ==
  ASSUME SP!Inv, NEW k \in 0 .. Len(free_q)
  PROVE  /\ Taken(k) \subseteq Pipe
         /\ \A p \in Taken(k), l \in LeafNodes : <<l, p>> \notin running
         /\ \A p \in Taken(k) : \E i \in 1 .. k :
              p = free_q[i] /\ i = CHOOSE j \in 1 .. k : free_q[j] = p
         /\ \A i, j \in 1 .. k : free_q[i] = free_q[j] => i = j
         /\ k \in Nat
  <1>1. S!TypeOK /\ S!PipesPartitioned
    BY SameInvariants DEF SP!Inv
  <1>2. free_q \in Seq(Pipe) /\ Len(free_q) \in Nat /\ k \in Nat /\ 1 .. k \subseteq 1 .. Len(free_q)
    BY <1>1, Pipes DEF S!TypeOK
  <1>3. {free_q[i] : i \in 1 .. Len(free_q)} = Pipe \ S!Busy
    BY <1>1, Pipes DEF S!PipesPartitioned
  <1>4. Taken(k) \subseteq Pipe \ S!Busy
    BY <1>2, <1>3 DEF Taken
  <1>5. \A p \in Taken(k), l \in LeafNodes : <<l, p>> \notin running
    BY <1>4, Pipes DEF S!Busy
  <1>6. \A i, j \in 1 .. k : free_q[i] = free_q[j] => i = j
    BY <1>1, <1>2 DEF S!PipesPartitioned
  <1>. QED  BY <1>2, <1>4, <1>5, <1>6 DEF Taken

(* What is to be triggered afterwards. *)
LEMMA StartHeads ==
  ASSUME SP!Inv, NEW k \in Nat, Starts(k)
  PROVE  /\ starting' \in Seq(Desc) /\ IsInjective(starting')
         /\ Range(starting') = HeadNodes \X Taken(k)
  BY ScheduledIs, SameInvariants DEF SP!Inv, Starts

(* A head node is triggered. *)
LEMMA FirstHead ==
  ASSUME starting \in Seq(Desc), KernelSchedule
  PROVE  /\ Head(starting) \in Desc /\ Head(starting) \in Range(starting) /\ starting' \in Seq(Desc)
         /\ job_q' = Trigger(job_q, Head(starting))
         /\ Range(starting') \subseteq Range(starting) /\ Range(starting) = Range(starting') \cup {Head(starting)}
         /\ IsInjective(starting) => IsInjective(starting') /\ Head(starting) \notin Range(starting')
  BY Removed DEF KernelSchedule

-----------------------------------------------------------------------------
(* The target tasks. *)

(* What a task has, depending on where it is. *)
Shaped(t, k) ==
  /\ k.at = "idle" => k = TaskIdle
  /\ k.at # "idle" => k.desc \in Desc /\ TargetOf[k.desc[1]] = t
  /\ k.at = "acquire" => k.i \in 1 .. Len(Param[k.desc[1]]) /\ Len(k.prm) = k.i - 1
  /\ k.at \in {"execute", "release"} => Len(k.prm) = Len(Param[k.desc[1]])
  /\ k.at = "release" => k.i \in 1 .. Len(Param[k.desc[1]])
  /\ k.at = "trigger_next" => k.i >= 1
  /\ k.send # <<>> => k.at \in {"release", "send_complete"}
  /\ k.retrigger # None => k.at \in {"release", "send_complete", "trigger_next"}

TasksShaped == \A t \in Target : Shaped(t, task[t])

(* A queue holds descriptors of nodes of its target. *)
JobsOnTarget == \A t \in Target : \A d \in Range(job_q[t]) : TargetOf[d[1]] = t

(* No descriptor is None. *)
LEMMA NoneIs == None \notin Desc /\ \A d \in Desc : d[1] \in Node /\ d[2] \in Pipe /\ d = <<d[1], d[2]>>
  BY DEF Desc, None

(* The one task that a step changes. *)
Rec(at, d, i, prm, send, retrigger) ==
  [at |-> at, desc |-> d, i |-> i, prm |-> prm, send |-> send, retrigger |-> retrigger]

TaskTo(t, at, d, i, prm, send, retrigger) ==
  task' = [task EXCEPT ![t] = Rec(at, d, i, prm, send, retrigger)]

(* What the fields of a task are after its step, and that other tasks have   *)
(* none.                                                                     *)
LEMMA TaskToIs ==
  ASSUME task \in [Target -> Task], TasksShaped, NEW t \in Target, NEW at, NEW d, NEW i, NEW prm, NEW send, NEW retrigger,
         TaskTo(t, at, d, i, prm, send, retrigger)
  PROVE  /\ task'[t] = Rec(at, d, i, prm, send, retrigger)
         /\ task'[t].at = at /\ task'[t].desc = d /\ task'[t].i = i /\ task'[t].prm = prm
         /\ task'[t].send = send /\ task'[t].retrigger = retrigger
         /\ \A u \in Target \ {t} : task'[u] = task[u]
         /\ task'[t] \in Task => task' \in [Target -> Task]
         /\ Shaped(t, task'[t]) => TasksShaped'
  BY DEF TaskTo, Rec, TasksShaped, Shaped

(* The fields of a task. *)
LEMMA TaskFields ==
  ASSUME task \in [Target -> Task], NEW t \in Target
  PROVE  /\ task[t] = Rec(task[t].at, task[t].desc, task[t].i, task[t].prm, task[t].send, task[t].retrigger)
         /\ task[t].at \in {"idle", "acquire", "execute", "release", "send_complete", "trigger_next"}
         /\ task[t].desc \in Desc \cup {None} /\ task[t].i \in Nat /\ task[t].prm \in Seq(Ref)
         /\ task[t].send \in Seq(Desc) /\ task[t].retrigger \in Desc \cup {None}
  BY Zenon DEF Task, Rec

(* The task after it tried for a parameter: further on with it, or idle.     *)
LEMMA AcquireTask ==
  ASSUME task \in [Target -> Task], TasksShaped, NEW t \in Target, Acquire(t)
  PROVE  LET k == task[t] q == Param[k.desc[1]][k.i][1] e == data_ref_q[q][k.desc[2]]
             r == IF e.acquired THEN e.ref ELSE Head(acquire_q[q])
         IN IF e.acquired \/ acquire_q[q] # <<>>
            THEN TaskTo(t, IF k.i = Len(Param[k.desc[1]]) THEN "execute" ELSE "acquire",
                        k.desc, k.i + 1, Append(k.prm, r), <<>>, None)
            ELSE TaskTo(t, "idle", None, 0, <<>>, <<>>, None)
  <1>. DEFINE k == task[t] q == Param[k.desc[1]][k.i][1] e == data_ref_q[q][k.desc[2]]
              last == k.i = Len(Param[k.desc[1]])
  <1>0. k.at = "acquire" /\ k.send = <<>> /\ k.retrigger = None
    BY Zenon DEF Acquire, At, TasksShaped, Shaped
  <1>1. k = Rec("acquire", k.desc, k.i, k.prm, <<>>, None)
    BY <1>0, TaskFields
  <1>2. ASSUME NEW r, task' = [task EXCEPT ![t].at = IF last THEN "execute" ELSE "acquire", ![t].i = @ + 1, ![t].prm = Append(@, r)]
        PROVE  TaskTo(t, IF last THEN "execute" ELSE "acquire", k.desc, k.i + 1, Append(k.prm, r), <<>>, None)
    BY SMTT(30), <1>1, <1>2 DEF TaskTo, Rec
  <1>. QED  BY Zenon, <1>2 DEF Acquire, TaskIdle, TaskTo, Rec

(* The task after it took a descriptor.                                      *)
LEMMA TakeTask ==
  ASSUME task \in [Target -> Task], TasksShaped, NEW t \in Target, Take(t)
  PROVE  LET d == Head(job_q[t])
         IN  /\ task[t].at = "idle"
             /\ d \notin executed /\ ~WaitsForPrev(d) => TaskTo(t, "acquire", d, 1, <<>>, <<>>, None)
             /\ d \in executed \/ WaitsForPrev(d) => UNCHANGED task
  BY DEF Take, At, TaskTo, TaskIdle, Rec

(* The task after its kernel.                                                *)
LEMMA CompleteTask ==
  ASSUME task \in [Target -> Task], TasksShaped, NEW t \in Target, Complete(t)
  PROVE  LET k == task[t]
         IN  /\ k.at = "execute" /\ k.send = <<>>
             /\ TaskTo(t, "release", k.desc, 1, k.prm, <<>>, blocked_node_id[k.desc])
  <1>1. task[t].at = "execute" /\ task[t].send = <<>>
    BY DEF Complete, At, TasksShaped, Shaped
  <1>2. task[t] = Rec("execute", task[t].desc, task[t].i, task[t].prm, <<>>, task[t].retrigger)
    BY <1>1, TaskFields
  <1>3. task' = [task EXCEPT ![t].at = "release", ![t].i = 1, ![t].retrigger = blocked_node_id[task[t].desc]]
    BY DEF Complete, Retrigger
  <1>4. TaskTo(t, "release", task[t].desc, 1, task[t].prm, <<>>, blocked_node_id[task[t].desc])
    <2>1. /\ task'[t] = [task[t] EXCEPT !.at = "release", !.i = 1, !.retrigger = blocked_node_id[task[t].desc]]
          /\ task' = [task EXCEPT ![t] = task'[t]]
      BY <1>3
    <2>2. task'[t] = Rec("release", task[t].desc, 1, task[t].prm, <<>>, blocked_node_id[task[t].desc])
      BY <1>1, <2>1, task[t] \in Task DEF Rec, Task
    <2>. QED  BY <2>1, <2>2 DEF TaskTo
  <1>. QED  BY <1>1, <1>4

(* The task after it triggered a node that was blocked.                      *)
LEMMA TaskTriggerTask ==
  ASSUME task \in [Target -> Task], TasksShaped, NEW t \in Target, TaskTrigger(t)
  PROVE  LET k == task[t]
         IN  /\ k.at \in {"release", "send_complete"} /\ k.send # <<>>
             /\ TaskTo(t, k.at, k.desc, k.i, k.prm, Tail(k.send), k.retrigger)
  <1>1. task[t].at \in {"release", "send_complete"} /\ task[t].send # <<>>
    BY DEF TaskTrigger, TasksShaped, Shaped
  <1>2. task[t] = Rec(task[t].at, task[t].desc, task[t].i, task[t].prm, task[t].send, task[t].retrigger)
    BY TaskFields
  <1>3. task' = [task EXCEPT ![t].send = Tail(@)]
    BY DEF TaskTrigger
  <1>4. TaskTo(t, task[t].at, task[t].desc, task[t].i, task[t].prm, Tail(task[t].send), task[t].retrigger)
    <2>1. task'[t] = [task[t] EXCEPT !.send = Tail(@)] /\ task' = [task EXCEPT ![t] = task'[t]]
      BY <1>3
    <2>2. task'[t] = Rec(task[t].at, task[t].desc, task[t].i, task[t].prm, Tail(task[t].send), task[t].retrigger)
      BY Zenon, <1>2, <2>1 DEF Rec, Task
    <2>. QED  BY <2>1, <2>2 DEF TaskTo
  <1>. QED  BY <1>1, <1>4

(* What the release of a parameter does, by the counts it finds. *)
LEMMA ReleaseTask ==
  ASSUME task \in [Target -> Task], TasksShaped, NEW t \in Target, Release(t)
  PROVE  LET k == task[t] q == Param[k.desc[1]][k.i][1] r == k.prm[k.i]
             users == Cardinality(Consumers(q))
             to_queue == IF Param[k.desc[1]][k.i][2] THEN LastUser(ref_done[r] + 1, users) ELSE users = 0
         IN  /\ k.at = "release" /\ k.send = <<>>
             /\ TaskTo(t, IF k.i = Len(Param[k.desc[1]]) THEN "send_complete" ELSE "release",
                       k.desc, k.i + 1, k.prm,
                       IF to_queue /\ q \notin GraphParam THEN blocked_on[q] ELSE <<>>, k.retrigger)
  <1>1. task[t].at = "release" /\ task[t].send = <<>>
    BY Zenon DEF Release, At
  <1>2. task[t] = Rec("release", task[t].desc, task[t].i, task[t].prm, <<>>, task[t].retrigger)
    BY <1>1, TaskFields
  <1>3. ASSUME NEW at, NEW send, task' = [task EXCEPT ![t].at = at, ![t].i = @ + 1, ![t].send = send]
        PROVE  TaskTo(t, at, task[t].desc, task[t].i + 1, task[t].prm, send, task[t].retrigger)
    <2>1. task'[t] = [task[t] EXCEPT !.at = at, !.i = @ + 1, !.send = send] /\ task' = [task EXCEPT ![t] = task'[t]]
      BY <1>3
    <2>2. task'[t] = Rec(at, task[t].desc, task[t].i + 1, task[t].prm, send, task[t].retrigger)
      BY <1>2, <2>1 DEF Rec, Task
    <2>. QED  BY <2>1, <2>2 DEF TaskTo
  <1>. QED  BY Zenon, <1>1, <1>3 DEF Release

(* The task after it told the HOST.                                          *)
LEMMA SendCompleteTask ==
  ASSUME task \in [Target -> Task], TasksShaped, NEW t \in Target, SendComplete(t)
  PROVE  LET k == task[t]
         IN  /\ k.at = "send_complete" /\ k.send = <<>>
             /\ TaskTo(t, "trigger_next", k.desc, 1, k.prm, <<>>, k.retrigger)
  <1>1. task[t].at = "send_complete" /\ task[t].send = <<>>
    BY DEF SendComplete, At
  <1>2. task[t] = Rec("send_complete", task[t].desc, task[t].i, task[t].prm, <<>>, task[t].retrigger)
    BY <1>1, TaskFields
  <1>3. task' = [task EXCEPT ![t].at = "trigger_next", ![t].i = 1]
    BY DEF SendComplete
  <1>4. TaskTo(t, "trigger_next", task[t].desc, 1, task[t].prm, <<>>, task[t].retrigger)
    <2>1. task'[t] = [task[t] EXCEPT !.at = "trigger_next", !.i = 1] /\ task' = [task EXCEPT ![t] = task'[t]]
      BY <1>3
    <2>2. task'[t] = Rec("trigger_next", task[t].desc, 1, task[t].prm, <<>>, task[t].retrigger)
      BY <1>1, <2>1, task[t] \in Task DEF Rec, Task
    <2>. QED  BY <2>1, <2>2 DEF TaskTo
  <1>. QED  BY <1>1, <1>4

(* The successors of a node, each once. *)
LEMMA SuccessorsIs ==
  ASSUME NEW n \in Node
  PROVE  /\ Successors(n) \in Seq(OutNodes(n)) /\ Successors(n) \in Seq(Node)
         /\ IsInjective(Successors(n)) /\ Range(Successors(n)) = OutNodes(n)
         /\ Len(Successors(n)) \in Nat /\ DOMAIN Successors(n) = 1 .. Len(Successors(n))
  <1>1. OutNodes(n) \subseteq Node
    BY DEF OutNodes
  <1>2. IsFiniteSet(OutNodes(n))
    BY <1>1, FS_Subset, GraphAssumption
  <1>3. Successors(n) \in Seq(OutNodes(n)) /\ IsInjective(Successors(n)) /\ Range(Successors(n)) = OutNodes(n)
    BY <1>2, SetAsSeq DEF Successors, NextNodes
  <1>4. Successors(n) \in Seq(Node)
    BY <1>1, <1>3
  <1>. QED  BY <1>3, <1>4, LenProperties

(* The task after one successor, or after the last.                          *)
LEMMA TriggerNextTask ==
  ASSUME task \in [Target -> Task], TasksShaped, NEW t \in Target, TriggerNext(t)
  PROVE  LET k == task[t]
         IN  /\ k.at = "trigger_next" /\ k.send = <<>>
             /\ k.i <= Len(Successors(k.desc[1]))
                  => TaskTo(t, "trigger_next", k.desc, k.i + 1, k.prm, <<>>, k.retrigger)
             /\ k.i > Len(Successors(k.desc[1])) => TaskTo(t, "idle", None, 0, <<>>, <<>>, None)
             /\ k.i <= Len(Successors(k.desc[1])) \/ k.i > Len(Successors(k.desc[1]))
  <1>1. task[t].at = "trigger_next" /\ task[t].send = <<>>
    BY DEF TriggerNext, At, TasksShaped, Shaped
  <1>2. task[t] = Rec("trigger_next", task[t].desc, task[t].i, task[t].prm, <<>>, task[t].retrigger)
    BY <1>1, TaskFields
  <1>3. ASSUME task' = [task EXCEPT ![t].i = @ + 1]
        PROVE  TaskTo(t, "trigger_next", task[t].desc, task[t].i + 1, task[t].prm, <<>>, task[t].retrigger)
    <2>1. task'[t] = [task[t] EXCEPT !.i = @ + 1] /\ task' = [task EXCEPT ![t] = task'[t]]
      BY <1>3
    <2>2. task'[t] = Rec("trigger_next", task[t].desc, task[t].i + 1, task[t].prm, <<>>, task[t].retrigger)
      BY <1>1, <2>1, task[t] \in Task DEF Rec, Task
    <2>. QED  BY <2>1, <2>2 DEF TaskTo
  <1>4. ASSUME task' = [task EXCEPT ![t] = TaskIdle]
        PROVE  TaskTo(t, "idle", None, 0, <<>>, <<>>, None)
    BY <1>4 DEF TaskTo, TaskIdle, Rec
  <1>5. Len(Successors(task[t].desc[1])) \in Nat /\ task[t].i \in Nat
    BY SuccessorsIs, TaskFields, <1>1, NoneIs DEF TasksShaped, Shaped
  <1>6. /\ task[t].i <= Len(Successors(task[t].desc[1])) => task' = [task EXCEPT ![t].i = @ + 1]
        /\ task[t].i > Len(Successors(task[t].desc[1])) => task' = [task EXCEPT ![t] = TaskIdle]
    BY <1>5 DEF TriggerNext
  <1>. QED  BY <1>1, <1>3, <1>4, <1>5, <1>6

-----------------------------------------------------------------------------
(* Types. *)

(* An entry that is acquired names its reference. *)
EntriesNamed == \A q \in DataRefQ, p \in Pipe : data_ref_q[q][p].acquired => data_ref_q[q][p].ref \in Ref

Typed == SP!Inv /\ TypeOK /\ TasksShaped /\ JobsOnTarget /\ EntriesNamed

(* TypeOK, without the variables of the schedule. *)
DataTypeOK ==
  /\ executed \subseteq Desc
  /\ state \in [Desc -> {"IDLE", "BLOCKED"}]
  /\ blocked_node_id \in [Desc -> Desc \cup {None}]
  /\ data_ref_q \in [DataRefQ -> [Pipe -> Entry]]
  /\ ref_done \in [Ref -> Nat]
  /\ acquire_q \in [DataRefQ -> Seq(Ref)] /\ release_q \in [GraphParam -> Seq(Ref)]
  /\ blocked_on \in [DataRefQ -> Seq(Desc)]
  /\ JobsOK(job_q)
  /\ task \in [Target -> Task]
  /\ app \in [App -> Seq(Desc)] /\ starting \in Seq(Desc)
  /\ owned \subseteq Ref
  /\ frame \in [Pipe -> Nat] /\ content \in [Ref -> Nat]
  /\ fed \in [GraphParam -> Nat] /\ last_frame \in [Node -> Nat]

(* Some of the types, for leaves that need no others. *)
LEMMA SomeTypes ==
  ASSUME DataTypeOK
  PROVE  /\ task \in [Target -> Task] /\ ref_done \in [Ref -> Nat]
         /\ blocked_on \in [DataRefQ -> Seq(Desc)]
  BY DEF DataTypeOK

(* The conjuncts from which a step is shown to keep the types.               *)
LEMMA TypedIs == Typed <=> SP!Inv /\ DataTypeOK /\ TasksShaped /\ JobsOnTarget /\ EntriesNamed
  BY SameInvariants DEF SP!Inv, Typed, TypeOK, DataTypeOK, JobsOK, Jobs

StaysTyped == DataTypeOK' /\ TasksShaped' /\ JobsOnTarget' /\ EntriesNamed'

(* Each step keeps the types.                                                *)
LEMMA EnqueueTyped ==
  ASSUME Typed, NEW a \in App, NEW q \in GraphParam, NEW r \in Ref, EnqueueReadyRef(a, q, r)
  PROVE  StaysTyped
  <1>1. DataTypeOK /\ TasksShaped /\ JobsOnTarget /\ EntriesNamed
    BY TypedIs
  <1>2. q \in DataRefQ
    BY RefAssumption
  <1>3. /\ owned' = owned \ {r} /\ acquire_q' = [acquire_q EXCEPT ![q] = Append(@, r)]
        /\ app' = [app EXCEPT ![a] = blocked_on[q]] /\ blocked_on' = [blocked_on EXCEPT ![q] = <<>>]
        /\ fed' = [fed EXCEPT ![q] = @ + 1] /\ content' = [content EXCEPT ![r] = fed[q] + 1]
        /\ UNCHANGED <<nodes, data_ref_q, ref_done, release_q, job_q, task, launch, frame, last_frame>>
    BY DEF EnqueueReadyRef, Extract
  <1>4. /\ owned' \subseteq Ref /\ acquire_q' \in [DataRefQ -> Seq(Ref)] /\ app' \in [App -> Seq(Desc)]
        /\ blocked_on' \in [DataRefQ -> Seq(Desc)] /\ fed' \in [GraphParam -> Nat]
        /\ content' \in [Ref -> Nat]
    BY SMTT(30), <1>1, <1>2, <1>3 DEF DataTypeOK
  <1>5. JobsOK(job_q)' /\ TasksShaped' /\ JobsOnTarget'
    BY <1>1, <1>3 DEF DataTypeOK, JobsOK, TasksShaped, Shaped, JobsOnTarget
  <1>. QED  BY <1>1, <1>3, <1>4, <1>5 DEF StaysTyped, EntriesNamed, DataTypeOK, nodes, launch

(* What a trigger preserves of the job queues. *)
LEMMA TriggerKeeps ==
  ASSUME JobsOK(job_q), JobsOnTarget, NEW d \in Desc, job_q' = Trigger(job_q, d)
  PROVE  JobsOK(job_q') /\ JobsOnTarget'
  <1>1. PICK t \in Target : t = TargetOf[d[1]]
    BY TriggerIs
  <1>2. /\ JobsOK(job_q') /\ \A u \in Jobs \ {t} : job_q'[u] = job_q[u]
        /\ Range(job_q'[t]) \subseteq Range(job_q[t]) \cup {d}
    BY SMTT(30), <1>1, TriggerIs
  <1>3. JobsOnTarget'
    BY <1>1, <1>2 DEF JobsOnTarget, Jobs
  <1>. QED  BY <1>2, <1>3

LEMMA AppTriggerTyped ==
  ASSUME Typed, NEW a \in App, AppTrigger(a)
  PROVE  StaysTyped
  <1>1. DataTypeOK /\ TasksShaped /\ JobsOnTarget /\ EntriesNamed
    BY TypedIs
  <1>2. app[a] \in Seq(Desc) /\ app[a] # <<>> /\ JobsOK(job_q)
    BY <1>1 DEF AppTrigger, DataTypeOK
  <1>3. Head(app[a]) \in Desc /\ Tail(app[a]) \in Seq(Desc)
    BY <1>2, Removed
  <1>4. job_q' = Trigger(job_q, Head(app[a])) /\ app' = [app EXCEPT ![a] = Tail(app[a])]
    BY DEF AppTrigger
  <1>5. JobsOK(job_q') /\ JobsOnTarget'
    BY <1>1, <1>2, <1>3, <1>4, TriggerKeeps
  <1>6. app' \in [App -> Seq(Desc)]
    BY <1>1, <1>3, <1>4 DEF DataTypeOK
  <1>. QED  BY <1>1, <1>5, <1>6 DEF StaysTyped, launch, EntriesNamed, DataTypeOK, JobsOK, AppTrigger, nodes, refs, data, TasksShaped, Shaped

LEMMA StartsTyped ==
  ASSUME Typed, NEW k \in Nat, Starts(k)
  PROVE  StaysTyped
  <1>1. DataTypeOK /\ TasksShaped /\ JobsOnTarget /\ EntriesNamed /\ SP!Inv
    BY TypedIs
  <1>2. JobsOK(job_q')
    BY <1>1 DEF DataTypeOK, JobsOK, Starts
  <1>3. JobsOnTarget' /\ starting' \in Seq(Desc)
    BY <1>1, StartHeads DEF JobsOnTarget, DataTypeOK, Starts
  <1>4. executed' \subseteq Desc
    BY <1>1 DEF Starts, DataTypeOK
  <1>5. frame' \in [Pipe -> Nat]
    <2>1. completed \in Nat /\ submitted_count \in Nat
      BY <1>1 DEF SP!Inv, SP!TypeOK
    <2>2. k \in 0 .. Len(free_q)
      BY DEF Starts
    <2>3. ASSUME NEW p \in Taken(k)  PROVE (CHOOSE i \in 1 .. k : free_q[i] = p) \in Nat
      BY <1>1, <2>2, TakenIs
    <2>4. ASSUME NEW p \in Pipe
          PROVE  (IF p \in Taken(k)
                  THEN completed + submitted_count + CHOOSE i \in 1 .. k : free_q[i] = p
                  ELSE frame[p]) \in Nat
      <3>1. CASE p \in Taken(k)
        BY <2>3, <3>1, <2>1
      <3>2. CASE p \notin Taken(k)
        BY <1>1, <3>2 DEF DataTypeOK
      <3>. QED  BY <3>1, <3>2
    <2>. QED  BY <2>4 DEF Starts
  <1>. QED  BY <1>1, <1>2, <1>3, <1>4, <1>5 DEF StaysTyped, EntriesNamed, DataTypeOK, JobsOK, Starts, refs, data, TasksShaped, Shaped

LEMMA DequeueTyped ==
  ASSUME Typed, Dequeue
  PROVE  StaysTyped
  <1>1. DataTypeOK /\ TasksShaped /\ JobsOnTarget /\ EntriesNamed
    BY TypedIs
  <1>2. PICK q \in GraphParam : DequeueDoneRef(q)
    BY DEF Dequeue
  <1>3. release_q[q] \in Seq(Ref) /\ release_q[q] # <<>>
    BY <1>1, <1>2 DEF DequeueDoneRef, DataTypeOK
  <1>4. Head(release_q[q]) \in Ref /\ Tail(release_q[q]) \in Seq(Ref)
    BY <1>3, Removed
  <1>5. owned' \subseteq Ref /\ release_q' \in [GraphParam -> Seq(Ref)]
    BY SMTT(30), <1>1, <1>2, <1>4 DEF DequeueDoneRef, DataTypeOK
  <1>. QED  BY <1>1, <1>2, <1>5 DEF StaysTyped, launch, EntriesNamed, DataTypeOK, JobsOK, DequeueDoneRef, nodes, data, TasksShaped, Shaped, JobsOnTarget

LEMMA HostTyped ==
  ASSUME Typed, HostCompletes \/ HostNotifies
  PROVE  StaysTyped
  <1>1. DataTypeOK /\ TasksShaped /\ JobsOnTarget /\ EntriesNamed
    BY TypedIs
  <1>2. "HOST" \in Jobs /\ "HOST" \notin Target
    BY Targets DEF Jobs
  <1>3. job_q["HOST"] \in Seq(Desc) /\ job_q["HOST"] # <<>> /\ Len(job_q["HOST"]) <= JobQueueSize
    BY <1>1, <1>2 DEF HostCompletes, HostNotifies, DataTypeOK, JobsOK
  <1>4. job_q' = [job_q EXCEPT !["HOST"] = Tail(job_q["HOST"])]
    BY DEF HostCompletes, HostNotifies
  <1>5. Tail(job_q["HOST"]) \in Seq(Desc) /\ Len(Tail(job_q["HOST"])) <= JobQueueSize
    BY <1>3, Removed, SizeAssumption
  <1>6. JobsOK(job_q')
    BY <1>1, <1>2, <1>4, <1>5 DEF DataTypeOK, JobsOK
  <1>7. JobsOnTarget'
    BY <1>1, <1>2, <1>4 DEF JobsOnTarget, DataTypeOK, JobsOK, Jobs
  <1>. QED  BY <1>1, <1>6, <1>7 DEF StaysTyped, EntriesNamed, launch, DataTypeOK, HostCompletes, HostNotifies, nodes, refs, data, TasksShaped, Shaped

LEMMA KernelTyped ==
  ASSUME Typed, KernelSchedule
  PROVE  StaysTyped
  <1>1. DataTypeOK /\ TasksShaped /\ JobsOnTarget /\ EntriesNamed
    BY TypedIs
  <1>2. JobsOK(job_q') /\ JobsOnTarget' /\ starting' \in Seq(Desc)
    BY <1>1, FirstHead, TriggerKeeps DEF DataTypeOK
  <1>. QED  BY <1>1, <1>2 DEF StaysTyped, EntriesNamed, DataTypeOK, JobsOK, KernelSchedule, nodes, refs, data, TasksShaped, Shaped

(* The head of a job queue: a descriptor of a node of the target. *)
LEMMA HeadJob ==
  ASSUME Typed, NEW t \in Target, job_q[t] # <<>>
  PROVE  /\ Head(job_q[t]) \in Desc /\ TargetOf[Head(job_q[t])[1]] = t
         /\ Head(job_q[t]) \in Range(job_q[t])
         /\ Tail(job_q[t]) \in Seq(Desc) /\ Len(Tail(job_q[t])) <= JobQueueSize
         /\ Range(Tail(job_q[t])) \subseteq Range(job_q[t])
  <1>1. DataTypeOK /\ JobsOnTarget
    BY TypedIs
  <1>2. job_q[t] \in Seq(Desc) /\ Len(job_q[t]) <= JobQueueSize
    BY <1>1 DEF DataTypeOK, JobsOK, Jobs
  <1>. QED  BY <1>1, <1>2, Removed, SizeAssumption DEF JobsOnTarget

LEMMA TakeTyped ==
  ASSUME Typed, NEW t \in Target, Take(t)
  PROVE  StaysTyped
  <1>1. DataTypeOK /\ TasksShaped /\ JobsOnTarget /\ EntriesNamed
    BY TypedIs
  <1>. DEFINE d == Head(job_q[t])
  <1>2. job_q[t] # <<>> /\ job_q' = [job_q EXCEPT ![t] = Tail(job_q[t])]
    BY DEF Take
  <1>3. /\ d \in Desc /\ TargetOf[d[1]] = t
        /\ Tail(job_q[t]) \in Seq(Desc) /\ Len(Tail(job_q[t])) <= JobQueueSize
        /\ Range(Tail(job_q[t])) \subseteq Range(job_q[t])
    BY <1>2, HeadJob
  <1>4. JobsOK(job_q') /\ JobsOnTarget'
    BY <1>1, <1>2, <1>3 DEF DataTypeOK, JobsOK, Jobs, JobsOnTarget
  <1>5. task' \in [Target -> Task] /\ TasksShaped'
    <2>1. CASE d \notin executed /\ ~WaitsForPrev(d)
      <3>1. TaskTo(t, "acquire", d, 1, <<>>, <<>>, None)
        BY <1>1, <2>1, TakeTask DEF DataTypeOK
      <3>. HIDE DEF d
      <3>2. Rec("acquire", d, 1, <<>>, <<>>, None) \in Task
        BY <1>3 DEF Rec, Task
      <3>3. Shaped(t, Rec("acquire", d, 1, <<>>, <<>>, None))
        BY <1>3, NoneIs, Parameters DEF Shaped, Rec
      <3>. QED  BY <1>1, <3>1, <3>2, <3>3, TaskToIs DEF DataTypeOK
    <2>2. CASE d \in executed \/ WaitsForPrev(d)
      BY <1>1, <2>2, TakeTask DEF DataTypeOK, TasksShaped, Shaped
    <2>. QED  BY <2>1, <2>2
  <1>6. /\ state' \in [Desc -> {"IDLE", "BLOCKED"}]
        /\ blocked_node_id' \in [Desc -> Desc \cup {None}]
    <2>1. PrevPipe(d) \in Desc
      BY <1>3, PrevPipeIs
    <2>2. /\ \/ state' = state \/ \E x \in {"IDLE", "BLOCKED"} : state' = [state EXCEPT ![d] = x]
          /\ blocked_node_id' = blocked_node_id \/ blocked_node_id' = [blocked_node_id EXCEPT ![PrevPipe(d)] = d]
      BY DEF Take
    <2>. HIDE DEF d
    <2>3. state \in [Desc -> {"IDLE", "BLOCKED"}] /\ blocked_node_id \in [Desc -> Desc \cup {None}]
      BY <1>1 DEF DataTypeOK
    <2>4. state' \in [Desc -> {"IDLE", "BLOCKED"}]
      BY <1>3, <2>2, <2>3
    <2>. QED  BY <1>3, <2>1, <2>2, <2>3, <2>4
  <1>. QED  BY <1>1, <1>4, <1>5, <1>6 DEF StaysTyped, launch, EntriesNamed, DataTypeOK, Take, refs, data

(* What the parameter that a task acquires or releases refers to. *)
LEMMA Current ==
  ASSUME Typed, NEW t \in Target, task[t].at \in {"acquire", "release"}
  PROVE  LET d == task[t].desc q == Param[d[1]][task[t].i][1]
         IN  /\ d \in Desc /\ d[1] \in Node /\ d[2] \in Pipe /\ TargetOf[d[1]] = t
             /\ q \in DataRefQ /\ Param[d[1]][task[t].i][2] \in BOOLEAN
             /\ Param[d[1]][task[t].i] = <<q, Param[d[1]][task[t].i][2]>>
             /\ task[t].i \in 1 .. Len(Param[d[1]])
             /\ Len(Param[d[1]]) \in Nat \ {0}
             /\ task[t].prm \in Seq(Ref)
             /\ task[t].at = "release" => task[t].prm[task[t].i] \in Ref
             /\ data_ref_q[q][d[2]] \in Entry
  <1>1. DataTypeOK /\ TasksShaped
    BY TypedIs
  <1>2. /\ task[t].desc \in Desc /\ TargetOf[task[t].desc[1]] = t
        /\ task[t].i \in 1 .. Len(Param[task[t].desc[1]])
        /\ task[t].at = "release" => Len(task[t].prm) = Len(Param[task[t].desc[1]])
    BY <1>1 DEF TasksShaped, Shaped
  <1>3. task[t].desc[1] \in Node /\ task[t].desc[2] \in Pipe
    BY <1>2, NoneIs
  <1>4. /\ Len(Param[task[t].desc[1]]) \in Nat \ {0}
        /\ \A i \in 1 .. Len(Param[task[t].desc[1]]) :
             /\ Param[task[t].desc[1]][i][1] \in DataRefQ /\ Param[task[t].desc[1]][i][2] \in BOOLEAN
             /\ Param[task[t].desc[1]][i] = <<Param[task[t].desc[1]][i][1], Param[task[t].desc[1]][i][2]>>
    BY <1>3, Parameters
  <1>5. task[t].prm \in Seq(Ref)
    BY <1>1, TaskFields DEF DataTypeOK
  <1>6. task[t].at = "release" => task[t].prm[task[t].i] \in Ref
    BY <1>2, <1>5
  <1>. QED  BY ZenonT(30), <1>1, <1>2, <1>3, <1>4, <1>5, <1>6 DEF DataTypeOK

LEMMA AcquireTyped ==
  ASSUME Typed, NEW t \in Target, Acquire(t)
  PROVE  StaysTyped
  <1>1. DataTypeOK /\ TasksShaped /\ JobsOnTarget /\ EntriesNamed
    BY TypedIs
  <1>. DEFINE k == task[t] d == k.desc q == Param[d[1]][k.i][1] e == data_ref_q[q][d[2]] len == Len(Param[d[1]])
  <1>2. k.at = "acquire"
    BY ZenonT(30) DEF Acquire, At
  <1>3. /\ d \in Desc /\ d[2] \in Pipe /\ TargetOf[d[1]] = t /\ q \in DataRefQ /\ k.i \in 1 .. len
        /\ len \in Nat \ {0} /\ k.prm \in Seq(Ref) /\ e \in Entry
    BY <1>2, Current
  <1>4. Len(k.prm) = k.i - 1
    BY Zenon, <1>1, <1>2 DEF TasksShaped, Shaped
  <1>5. acquire_q[q] \in Seq(Ref) /\ blocked_on[q] \in Seq(Desc)
    BY Zenon, <1>1, <1>3 DEF DataTypeOK
  <1>6. acquire_q[q] # <<>> => Head(acquire_q[q]) \in Ref /\ Tail(acquire_q[q]) \in Seq(Ref)
    BY Zenon, <1>5, Removed
  <1>7. task' \in [Target -> Task] /\ TasksShaped'
    <2>1. CASE e.acquired \/ acquire_q[q] # <<>>
      <3>. DEFINE r == IF e.acquired THEN e.ref ELSE Head(acquire_q[q])
                  at == IF k.i = len THEN "execute" ELSE "acquire"
                  new == Rec(at, d, k.i + 1, Append(k.prm, r), <<>>, None)
      <3>1. TaskTo(t, at, d, k.i + 1, Append(k.prm, r), <<>>, None)
        BY Zenon, <1>1, <2>1, AcquireTask DEF DataTypeOK
      <3>2. r \in Ref
        BY Zenon, <1>1, <1>3, <1>6, <2>1 DEF EntriesNamed
      <3>. HIDE DEF r, k, d, len
      <3>3. Append(k.prm, r) \in Seq(Ref) /\ Len(Append(k.prm, r)) = k.i
        BY <1>3, <1>4, <3>2
      <3>4. new \in Task
        BY <1>3, <3>3 DEF Rec, Task
      <3>5. Shaped(t, new)
        <4>1. k.i + 1 \in Nat /\ (k.i # len => k.i + 1 \in 1 .. len) /\ Len(Append(k.prm, r)) = k.i + 1 - 1
          BY <1>3, <3>3
        <4>2. /\ new.at = at /\ new.desc = d /\ new.i = k.i + 1 /\ new.prm = Append(k.prm, r)
              /\ new.send = <<>> /\ new.retrigger = None
          BY DEF Rec
        <4>. HIDE DEF new
        <4>3. CASE k.i = len
          BY <1>3, <3>3, <4>2, <4>3 DEF Shaped, len
        <4>4. CASE k.i # len
          BY <1>3, <4>1, <4>2, <4>4 DEF Shaped, len
        <4>. QED  BY <4>3, <4>4
      <3>. QED  BY <1>1, <3>1, <3>4, <3>5, TaskToIs, SomeTypes
    <2>2. CASE ~(e.acquired \/ acquire_q[q] # <<>>)
      <3>1. TaskTo(t, "idle", None, 0, <<>>, <<>>, None)
        BY Zenon, <1>1, <2>2, AcquireTask DEF DataTypeOK
      <3>2. Rec("idle", None, 0, <<>>, <<>>, None) \in Task /\ Shaped(t, Rec("idle", None, 0, <<>>, <<>>, None))
        BY DEF Rec, Task, Shaped, TaskIdle
      <3>. QED  BY <1>1, <3>1, <3>2, TaskToIs, SomeTypes
    <2>. QED  BY Zenon, <2>1, <2>2
  <1>8. /\ data_ref_q' = data_ref_q \/ \E r \in Ref : data_ref_q' = [data_ref_q EXCEPT ![q][d[2]] = [acquired |-> TRUE, ref |-> r, done |-> 0]]
        /\ ref_done' = ref_done \/ \E r \in Ref : ref_done' = [ref_done EXCEPT ![r] = 0]
        /\ acquire_q' = acquire_q \/ (acquire_q[q] # <<>> /\ acquire_q' = [acquire_q EXCEPT ![q] = Tail(acquire_q[q])])
        /\ state' = state \/ state' = [state EXCEPT ![d] = "BLOCKED"]
        /\ \/ blocked_on' = blocked_on
           \/ blocked_on' = [blocked_on EXCEPT ![q] = IF Len(@) < MaxBlocked THEN Append(@, d) ELSE @]
    BY Zenon, <1>6 DEF Acquire
  <1>. HIDE DEF q, d, e, k
  <1>9. data_ref_q' \in [DataRefQ -> [Pipe -> Entry]] /\ EntriesNamed'
    <2>1. \A r \in Ref : [acquired |-> TRUE, ref |-> r, done |-> 0] \in Entry
      BY DEF Entry
    <2>2. CASE data_ref_q' = data_ref_q
      BY <1>1, <2>2 DEF DataTypeOK, EntriesNamed
    <2>3. ASSUME NEW r \in Ref, data_ref_q' = [data_ref_q EXCEPT ![q][d[2]] = [acquired |-> TRUE, ref |-> r, done |-> 0]]
          PROVE  data_ref_q' \in [DataRefQ -> [Pipe -> Entry]] /\ EntriesNamed'
      BY SMTT(30), <1>1, <1>3, <2>1, <2>3 DEF DataTypeOK, EntriesNamed
    <2>. QED  BY <1>8, <2>2, <2>3
  <1>10. ref_done' \in [Ref -> Nat]
    <2>1. \A r \in Ref : [ref_done EXCEPT ![r] = 0] \in [Ref -> Nat]
      BY <1>1 DEF DataTypeOK
    <2>. QED  BY <1>1, <1>8, <2>1, SomeTypes
  <1>12. acquire_q' \in [DataRefQ -> Seq(Ref)]
    BY <1>1, <1>3, <1>6, <1>8 DEF DataTypeOK
  <1>13. state' \in [Desc -> {"IDLE", "BLOCKED"}]
    BY <1>1, <1>3, <1>8 DEF DataTypeOK
  <1>11. blocked_on' \in [DataRefQ -> Seq(Desc)]
    <2>1. Append(blocked_on[q], d) \in Seq(Desc)
      BY <1>3, <1>5
    <2>. QED  BY <1>1, <1>3, <1>8, <2>1, SomeTypes
  <1>. QED  BY Zenon, <1>1, <1>7, <1>9, <1>10, <1>11, <1>12, <1>13 DEF StaysTyped, DataTypeOK, JobsOK, Acquire, JobsOnTarget, data, launch

LEMMA CompleteTyped ==
  ASSUME Typed, NEW t \in Target, Complete(t)
  PROVE  StaysTyped
  <1>1. DataTypeOK /\ TasksShaped /\ JobsOnTarget /\ EntriesNamed
    BY TypedIs
  <1>. DEFINE d == task[t].desc
              outputs == {task[t].prm[i] : i \in {j \in DOMAIN Param[d[1]] : ~Param[d[1]][j][2]}}
  <1>2. task[t].at = "execute" /\ TaskTo(t, "release", d, 1, task[t].prm, <<>>, blocked_node_id[d])
    BY <1>1, CompleteTask DEF DataTypeOK
  <1>3. d \in Desc /\ TargetOf[d[1]] = t /\ Len(task[t].prm) = Len(Param[d[1]])
    BY <1>1, <1>2 DEF TasksShaped, Shaped
  <1>4. /\ d[1] \in Node /\ d[2] \in Pipe /\ Len(Param[d[1]]) \in Nat \ {0}
        /\ task[t].prm \in Seq(Ref) /\ blocked_node_id[d] \in Desc \cup {None}
    BY <1>1, <1>3, NoneIs, Parameters, TaskFields DEF DataTypeOK
  <1>5. task' \in [Target -> Task] /\ TasksShaped'
    <2>. DEFINE new == Rec("release", d, 1, task[t].prm, <<>>, blocked_node_id[d])
    <2>1. new \in Task
      BY <1>3, <1>4 DEF Rec, Task
    <2>2. Shaped(t, new)
      BY <1>3, <1>4 DEF Rec, Shaped
    <2>. QED  BY <1>1, <1>2, <2>1, <2>2, TaskToIs DEF DataTypeOK
  <1>6. /\ content' = [r \in Ref |-> IF r \in outputs THEN frame[d[2]] ELSE content[r]]
        /\ last_frame' = [last_frame EXCEPT ![d[1]] = frame[d[2]]]
        /\ executed' = executed \cup {d}
        /\ state' = [state EXCEPT ![d] = "IDLE"]
        /\ blocked_node_id' = [blocked_node_id EXCEPT ![d] = None]
    BY DEF Complete
  <1>. HIDE DEF d, outputs
  <1>7. content' \in [Ref -> Nat] /\ last_frame' \in [Node -> Nat]
    BY <1>1, <1>4, <1>6 DEF DataTypeOK
  <1>8. /\ executed' \subseteq Desc /\ state' \in [Desc -> {"IDLE", "BLOCKED"}]
        /\ blocked_node_id' \in [Desc -> Desc \cup {None}]
    BY <1>1, <1>3, <1>6 DEF DataTypeOK
  <1>. QED  BY <1>1, <1>5, <1>7, <1>8 DEF StaysTyped, launch, EntriesNamed, DataTypeOK, JobsOK, Complete, refs, JobsOnTarget

LEMMA TaskTriggerTyped ==
  ASSUME Typed, NEW t \in Target, TaskTrigger(t)
  PROVE  StaysTyped
  <1>1. DataTypeOK /\ TasksShaped /\ JobsOnTarget /\ EntriesNamed
    BY TypedIs
  <1>. DEFINE k == task[t]
  <1>2. /\ k.at \in {"release", "send_complete"} /\ k.send # <<>>
        /\ TaskTo(t, k.at, k.desc, k.i, k.prm, Tail(k.send), k.retrigger)
    BY <1>1, TaskTriggerTask DEF DataTypeOK
  <1>3. /\ k.desc \in Desc \cup {None} /\ k.i \in Nat /\ k.prm \in Seq(Ref) /\ k.send \in Seq(Desc)
        /\ k.retrigger \in Desc \cup {None}
    BY <1>1, TaskFields DEF DataTypeOK
  <1>4. Head(k.send) \in Desc /\ Tail(k.send) \in Seq(Desc)
    BY <1>2, <1>3, Removed
  <1>5. Shaped(t, k)
    BY <1>1 DEF TasksShaped
  <1>6. task' \in [Target -> Task] /\ TasksShaped'
    <2>. DEFINE new == Rec(k.at, k.desc, k.i, k.prm, Tail(k.send), k.retrigger)
    <2>. HIDE DEF k
    <2>1. new \in Task
      BY <1>2, <1>3, <1>4 DEF Rec, Task
    <2>2. Shaped(t, new)
      BY <1>2, <1>5 DEF Rec, Shaped
    <2>3. task'[t] = new /\ task \in [Target -> Task]
      BY <1>1, <1>2, TaskToIs DEF DataTypeOK
    <2>. HIDE DEF new
    <2>. QED  BY <1>1, <1>2, <2>1, <2>2, <2>3, TaskToIs
  <1>7. JobsOK(job_q') /\ JobsOnTarget'
    BY Zenon, <1>1, <1>4, TriggerKeeps DEF TaskTrigger, DataTypeOK
  <1>. QED  BY <1>1, <1>6, <1>7 DEF StaysTyped, launch, EntriesNamed, DataTypeOK, JobsOK, TaskTrigger, nodes, refs, data

(* What the release of a parameter does. *)
Released1(t, q, p, r, input, users, e, to_queue) ==
  /\ data_ref_q' = [data_ref_q EXCEPT ![q][p] =
                      [acquired |-> e.acquired /\ ~(IF input THEN e.done + 1 = users ELSE users = 0),
                       ref |-> IF input \/ users = 0 THEN e.ref ELSE r,
                       done |-> IF input THEN e.done + 1 ELSE e.done]]
  /\ ref_done' = [ref_done EXCEPT ![r] = IF to_queue THEN 0 ELSE IF input THEN @ + 1 ELSE @]
  /\ IF to_queue /\ q \notin GraphParam
     THEN /\ acquire_q' = [acquire_q EXCEPT ![q] = Append(@, r)]
          /\ blocked_on' = [blocked_on EXCEPT ![q] = <<>>]
     ELSE UNCHANGED <<acquire_q, blocked_on>>
  /\ release_q' = IF to_queue /\ q \in GraphParam
                  THEN [release_q EXCEPT ![q] = Append(@, r)] ELSE release_q
  /\ UNCHANGED <<schedule, nodes, job_q, app, launch, owned, frame, data>>

(* What a release does, with the terms of the action spelled out once.       *)
LEMMA ReleaseIs ==
  ASSUME Typed, NEW t \in Target, Release(t)
  PROVE  LET k == task[t] d == k.desc q == Param[d[1]][k.i][1] input == Param[d[1]][k.i][2] r == k.prm[k.i]
             users == Cardinality(Consumers(q)) e == data_ref_q[q][d[2]]
             to_queue == IF input THEN ref_done[r] + 1 = users ELSE users = 0
         IN  /\ k.at = "release" /\ k.send = <<>> /\ d \in Desc /\ d[1] \in Node /\ d[2] \in Pipe
             /\ TargetOf[d[1]] = t /\ q \in DataRefQ
             /\ input \in BOOLEAN /\ Param[d[1]][k.i] = <<q, input>> /\ r \in Ref /\ e \in Entry
             /\ k.i \in 1 .. Len(Param[d[1]]) /\ Len(Param[d[1]]) \in Nat \ {0}
             /\ to_queue \in BOOLEAN
             /\ Released1(t, q, d[2], r, input, users, e, to_queue)
             /\ TaskTo(t, IF k.i = Len(Param[d[1]]) THEN "send_complete" ELSE "release", d, k.i + 1, k.prm,
                       IF to_queue /\ q \notin GraphParam THEN blocked_on[q] ELSE <<>>, k.retrigger)
  <1>1. DataTypeOK /\ TasksShaped
    BY Zenon, TypedIs
  <1>2. task[t].at = "release"
    BY Zenon DEF Release, At
  <1>. QED  BY Zenon, <1>1, <1>2, Current, ReleaseTask DEF DataTypeOK, Released1, Release, LastUser, StaysAcquired, Extract

LEMMA ReleaseTyped ==
  ASSUME Typed, NEW t \in Target, Release(t)
  PROVE  StaysTyped
  <1>1. DataTypeOK /\ TasksShaped /\ JobsOnTarget /\ EntriesNamed
    BY TypedIs
  <1>2. PICK k, d, q, input, r, users, e, to_queue :
             /\ k = task[t] /\ d = k.desc /\ q = Param[d[1]][k.i][1] /\ input = Param[d[1]][k.i][2]
             /\ r = k.prm[k.i] /\ users = Cardinality(Consumers(q)) /\ e = data_ref_q[q][d[2]]
             /\ to_queue = IF input THEN ref_done[r] + 1 = users ELSE users = 0
    OBVIOUS
  <1>3. /\ k.at = "release" /\ k.send = <<>> /\ d \in Desc /\ d[1] \in Node /\ d[2] \in Pipe
        /\ TargetOf[d[1]] = t /\ q \in DataRefQ
        /\ input \in BOOLEAN /\ r \in Ref /\ e \in Entry
        /\ k.i \in 1 .. Len(Param[d[1]]) /\ Len(Param[d[1]]) \in Nat \ {0}
        /\ to_queue \in BOOLEAN
        /\ Released1(t, q, d[2], r, input, users, e, to_queue)
        /\ TaskTo(t, IF k.i = Len(Param[d[1]]) THEN "send_complete" ELSE "release", d, k.i + 1, k.prm,
                  IF to_queue /\ q \notin GraphParam THEN blocked_on[q] ELSE <<>>, k.retrigger)
    BY ZenonT(30), <1>2, ReleaseIs
  <1>4. /\ k \in Task /\ Shaped(t, k) /\ blocked_on[q] \in Seq(Desc) /\ acquire_q[q] \in Seq(Ref)
        /\ q \in GraphParam => release_q[q] \in Seq(Ref)
    BY Zenon, <1>1, <1>2, <1>3 DEF TasksShaped, DataTypeOK
  <1>5. task' \in [Target -> Task] /\ TasksShaped'
    <2>. DEFINE at == IF k.i = Len(Param[d[1]]) THEN "send_complete" ELSE "release"
                send == IF to_queue /\ q \notin GraphParam THEN blocked_on[q] ELSE <<>>
                new == Rec(at, d, k.i + 1, k.prm, send, k.retrigger)
    <2>1. send \in Seq(Desc) /\ at \in {"send_complete", "release"}
      BY <1>4
    <2>2. TaskTo(t, at, d, k.i + 1, k.prm, send, k.retrigger)
      BY <1>3
    <2>3. /\ k.prm \in Seq(Ref) /\ k.retrigger \in Desc \cup {None} /\ k.i + 1 \in Nat
          /\ k.i # Len(Param[d[1]]) => k.i + 1 \in 1 .. Len(Param[d[1]])
          /\ Len(k.prm) = Len(Param[d[1]])
      <3>1. k.prm \in Seq(Ref) /\ k.retrigger \in Desc \cup {None}
        BY Zenon, <1>4 DEF Task
      <3>2. Len(k.prm) = Len(Param[d[1]])
        BY Zenon, <1>2, <1>3, <1>4 DEF Shaped
      <3>3. k.i + 1 \in Nat /\ (k.i # Len(Param[d[1]]) => k.i + 1 \in 1 .. Len(Param[d[1]]))
        BY <1>3
      <3>. QED  BY <3>1, <3>2, <3>3
    <2>4. at = "release" => k.i # Len(Param[d[1]])
      OBVIOUS
    <2>. HIDE DEF at, send
    <2>5. new \in Task
      BY <1>3, <2>1, <2>3 DEF Rec, Task
    <2>6. Shaped(t, new)
      BY <1>3, <2>1, <2>3, <2>4 DEF Rec, Shaped
    <2>. QED  BY <1>1, <2>2, <2>5, <2>6, TaskToIs DEF DataTypeOK
  <1>6. data_ref_q' \in [DataRefQ -> [Pipe -> Entry]] /\ EntriesNamed'
    <2>1. PICK new : /\ data_ref_q' = [data_ref_q EXCEPT ![q][d[2]] = new]
                     /\ new = [acquired |-> e.acquired /\ ~(IF input THEN e.done + 1 = users ELSE users = 0),
                               ref |-> IF input \/ users = 0 THEN e.ref ELSE r,
                               done |-> IF input THEN e.done + 1 ELSE e.done]
      BY <1>3 DEF Released1
    <2>2. e.done \in Nat /\ e.acquired \in BOOLEAN /\ e.ref \in Ref \cup {"none"} /\ (e.acquired => e.ref \in Ref)
      BY Zenon, <1>1, <1>2, <1>3 DEF Entry, EntriesNamed
    <2>3. new \in Entry /\ (new.acquired => new.ref \in Ref)
      BY <1>3, <2>1, <2>2 DEF Entry
    <2>. QED  BY SMTT(30), <1>1, <1>3, <2>1, <2>3 DEF DataTypeOK, EntriesNamed
  <1>7. ref_done' \in [Ref -> Nat]
    BY <1>1, <1>3 DEF DataTypeOK, Released1
  <1>8. /\ acquire_q' \in [DataRefQ -> Seq(Ref)] /\ release_q' \in [GraphParam -> Seq(Ref)]
        /\ blocked_on' \in [DataRefQ -> Seq(Desc)]
    <2>1. Append(acquire_q[q], r) \in Seq(Ref) /\ (q \in GraphParam => Append(release_q[q], r) \in Seq(Ref))
      BY <1>3, <1>4
    <2>2. \/ UNCHANGED <<acquire_q, blocked_on>>
          \/ /\ acquire_q' = [acquire_q EXCEPT ![q] = Append(acquire_q[q], r)]
             /\ blocked_on' = [blocked_on EXCEPT ![q] = <<>>]
      BY <1>3 DEF Released1
    <2>3. release_q' = release_q \/ (q \in GraphParam /\ release_q' = [release_q EXCEPT ![q] = Append(release_q[q], r)])
      BY <1>3 DEF Released1
    <2>4. acquire_q' \in [DataRefQ -> Seq(Ref)] /\ blocked_on' \in [DataRefQ -> Seq(Desc)]
      <3>1. CASE UNCHANGED <<acquire_q, blocked_on>>
        BY <1>1, <3>1 DEF DataTypeOK
      <3>2. CASE /\ acquire_q' = [acquire_q EXCEPT ![q] = Append(acquire_q[q], r)]
                 /\ blocked_on' = [blocked_on EXCEPT ![q] = <<>>]
        <4>1. [acquire_q EXCEPT ![q] = Append(acquire_q[q], r)] \in [DataRefQ -> Seq(Ref)]
          BY <1>1, <1>3, <2>1 DEF DataTypeOK
        <4>2. [blocked_on EXCEPT ![q] = <<>>] \in [DataRefQ -> Seq(Desc)]
          <5>1. blocked_on \in [DataRefQ -> Seq(Desc)] /\ <<>> \in Seq(Desc)
            BY <1>1 DEF DataTypeOK
          <5>. QED  BY <5>1
        <4>. QED  BY <3>2, <4>1, <4>2
      <3>. QED  BY <2>2, <3>1, <3>2
    <2>5. release_q' \in [GraphParam -> Seq(Ref)]
      BY <1>1, <2>1, <2>3 DEF DataTypeOK
    <2>. QED  BY <2>4, <2>5
  <1>. QED  BY Zenon, <1>1, <1>3, <1>5, <1>6, <1>7, <1>8 DEF StaysTyped, DataTypeOK, JobsOK, Released1, nodes, data, launch, JobsOnTarget

LEMMA SendCompleteTyped ==
  ASSUME Typed, NEW t \in Target, SendComplete(t)
  PROVE  StaysTyped
  <1>1. DataTypeOK /\ TasksShaped /\ JobsOnTarget /\ EntriesNamed
    BY TypedIs
  <1>. DEFINE k == task[t]
  <1>2. k.at = "send_complete" /\ TaskTo(t, "trigger_next", k.desc, 1, k.prm, <<>>, k.retrigger)
    BY <1>1, SendCompleteTask DEF DataTypeOK
  <1>3. k.desc \in Desc /\ TargetOf[k.desc[1]] = t /\ k.prm \in Seq(Ref) /\ k.retrigger \in Desc \cup {None}
    BY <1>1, <1>2, TaskFields DEF DataTypeOK, TasksShaped, Shaped
  <1>4. task' \in [Target -> Task] /\ TasksShaped'
    <2>. DEFINE new == Rec("trigger_next", k.desc, 1, k.prm, <<>>, k.retrigger)
    <2>1. new \in Task
      BY <1>3 DEF Rec, Task
    <2>2. Shaped(t, new)
      BY <1>3 DEF Rec, Shaped
    <2>3. task'[t] = new /\ task \in [Target -> Task]
      BY <1>1, <1>2, TaskToIs DEF DataTypeOK
    <2>. HIDE DEF new
    <2>. QED  BY <1>1, <1>2, <2>1, <2>2, <2>3, TaskToIs
  <1>5. JobsOK(job_q') /\ JobsOnTarget'
    <2>1. "HOST" \in Jobs /\ "HOST" \notin Target
      BY Targets DEF Jobs
    <2>2. job_q' = Put(job_q, "HOST", k.desc) \/ job_q' = job_q
      BY DEF SendComplete
    <2>3. CASE job_q' = job_q
      BY <1>1, <2>3 DEF DataTypeOK, JobsOK, JobsOnTarget
    <2>4. CASE job_q' = Put(job_q, "HOST", k.desc)
      <3>. HIDE DEF k
      <3>1. JobsOK(job_q') /\ \A u \in Jobs \ {"HOST"} : job_q'[u] = job_q[u]
        BY <1>1, <1>3, <2>1, <2>4, PutIs DEF DataTypeOK
      <3>. QED  BY <1>1, <2>1, <3>1 DEF JobsOnTarget, Jobs
    <2>. QED  BY <2>2, <2>3, <2>4
  <1>. QED  BY <1>1, <1>4, <1>5 DEF StaysTyped, launch, EntriesNamed, DataTypeOK, JobsOK, SendComplete, nodes, refs, data

(* What a task that triggers the next nodes puts into a job queue. *)
LEMMA NextTrigger ==
  ASSUME Typed, NEW t \in Target, TriggerNext(t)
  PROVE  LET k == task[t] p == k.desc[2] next == Successors(k.desc[1])
         IN  /\ k.desc \in Desc /\ TargetOf[k.desc[1]] = t /\ k.desc[1] \in Node /\ p \in Pipe
             /\ k.i \in Nat \ {0} /\ Len(next) \in Nat
             /\ k.i <= Len(next) =>
                  /\ next[k.i] \in OutNodes(k.desc[1]) /\ <<next[k.i], p>> \in Desc
                  /\ job_q' = IF CanNodeExecute(next[k.i], p) THEN Trigger(job_q, <<next[k.i], p>>) ELSE job_q
             /\ k.i > Len(next) =>
                  /\ k.retrigger \in Desc \cup {None}
                  /\ job_q' = IF k.retrigger # None THEN Trigger(job_q, k.retrigger) ELSE job_q
  <1>1. DataTypeOK /\ TasksShaped
    BY TypedIs
  <1>2. task[t].at = "trigger_next"
    BY DEF TriggerNext, At
  <1>3. /\ task[t].desc \in Desc /\ TargetOf[task[t].desc[1]] = t /\ task[t].i \in Nat \ {0}
        /\ task[t].retrigger \in Desc \cup {None}
    BY <1>1, <1>2, TaskFields DEF DataTypeOK, TasksShaped, Shaped
  <1>4. task[t].desc[1] \in Node /\ task[t].desc[2] \in Pipe
    BY <1>3, NoneIs
  <1>5. PICK next : /\ next = Successors(task[t].desc[1]) /\ Len(next) \in Nat
                    /\ next \in Seq(OutNodes(task[t].desc[1])) /\ next \in Seq(Node)
    BY <1>4, SuccessorsIs
  <1>6. task[t].i <= Len(next) => next[task[t].i] \in OutNodes(task[t].desc[1]) /\ next[task[t].i] \in Node
    BY <1>3, <1>5
  <1>7. task[t].i <= Len(next) => <<next[task[t].i], task[t].desc[2]>> \in Desc
    BY <1>4, <1>6 DEF Desc
  <1>8. /\ task[t].i <= Len(next) /\ ~(task[t].i > Len(next)) =>
             job_q' = IF CanNodeExecute(next[task[t].i], task[t].desc[2])
                      THEN Trigger(job_q, <<next[task[t].i], task[t].desc[2]>>) ELSE job_q
        /\ task[t].i > Len(next) /\ ~(task[t].i <= Len(next)) =>
             job_q' = IF task[t].retrigger # None THEN Trigger(job_q, task[t].retrigger) ELSE job_q
    BY <1>5 DEF TriggerNext
  <1>9. ~(task[t].i <= Len(next) /\ task[t].i > Len(next))
    BY <1>3, <1>5
  <1>. QED  BY <1>3, <1>4, <1>5, <1>6, <1>7, <1>8, <1>9

LEMMA TriggerNextTyped ==
  ASSUME Typed, NEW t \in Target, TriggerNext(t)
  PROVE  StaysTyped
  <1>1. DataTypeOK /\ TasksShaped /\ JobsOnTarget /\ EntriesNamed
    BY TypedIs
  <1>. DEFINE k == task[t] next == Successors(k.desc[1])
  <1>2. /\ k.i <= Len(next) => TaskTo(t, "trigger_next", k.desc, k.i + 1, k.prm, <<>>, k.retrigger)
        /\ k.i > Len(next) => TaskTo(t, "idle", None, 0, <<>>, <<>>, None)
        /\ k.i <= Len(next) \/ k.i > Len(next)
    BY <1>1, TriggerNextTask DEF DataTypeOK
  <1>3. k.desc \in Desc /\ TargetOf[k.desc[1]] = t /\ k.i \in Nat \ {0} /\ k.prm \in Seq(Ref) /\ k.retrigger \in Desc \cup {None}
    BY <1>1, NextTrigger, TaskFields DEF DataTypeOK
  <1>4. task' \in [Target -> Task] /\ TasksShaped'
    <2>. HIDE DEF next
    <2>1. CASE k.i <= Len(next)
      <3>. DEFINE new == Rec("trigger_next", k.desc, k.i + 1, k.prm, <<>>, k.retrigger)
      <3>1. new \in Task
        BY <1>3 DEF Rec, Task
      <3>2. Shaped(t, new)
        BY <1>3 DEF Rec, Shaped
      <3>. QED  BY <1>1, <1>2, <2>1, <3>1, <3>2, TaskToIs DEF DataTypeOK
    <2>2. CASE k.i > Len(next)
      <3>1. Rec("idle", None, 0, <<>>, <<>>, None) \in Task /\ Shaped(t, Rec("idle", None, 0, <<>>, <<>>, None))
        BY DEF Rec, Task, Shaped, TaskIdle
      <3>. QED  BY <1>1, <1>2, <2>2, <3>1, TaskToIs, SomeTypes
    <2>. QED  BY <1>2, <2>1, <2>2
  <1>5. JobsOK(job_q') /\ JobsOnTarget'
    BY ZenonT(30), <1>2, NextTrigger, <1>1, TriggerKeeps DEF DataTypeOK, JobsOK, JobsOnTarget
  <1>. QED  BY <1>1, <1>4, <1>5 DEF StaysTyped, launch, EntriesNamed, DataTypeOK, JobsOK, TriggerNext, nodes, refs, data

(* The steps. *)
LEMMA Steps ==
  ASSUME SP!Inv, [Next]_vars
  PROVE  \/ \E a \in App, q \in GraphParam, r \in Ref : EnqueueReadyRef(a, q, r)
         \/ \E a \in App : AppTrigger(a)
         \/ \E k \in Nat : Starts(k)
         \/ Dequeue
         \/ KernelSchedule
         \/ HostCompletes \/ HostNotifies
         \/ \E t \in Target : Take(t)
         \/ \E t \in Target : Acquire(t)
         \/ \E t \in Target : Complete(t)
         \/ \E t \in Target : TaskTrigger(t)
         \/ \E t \in Target : Release(t)
         \/ \E t \in Target : SendComplete(t)
         \/ \E t \in Target : TriggerNext(t)
         \/ UNCHANGED vars
  BY StartsIs DEF Next, TargetTask, Host, AppStep

(* The types hold at the start.                                              *)
LEMMA InitTyped == Init => DataTypeOK /\ TasksShaped /\ JobsOnTarget /\ EntriesNamed
  <1>. SUFFICES ASSUME Init PROVE DataTypeOK /\ TasksShaped /\ JobsOnTarget /\ EntriesNamed
    OBVIOUS
  <1>1. /\ executed \subseteq Desc /\ state \in [Desc -> {"IDLE", "BLOCKED"}]
        /\ blocked_node_id \in [Desc -> Desc \cup {None}]
        /\ ref_done \in [Ref -> Nat]
        /\ frame \in [Pipe -> Nat] /\ content \in [Ref -> Nat]
        /\ fed \in [GraphParam -> Nat] /\ last_frame \in [Node -> Nat]
    BY DEF Init
  <1>2. data_ref_q \in [DataRefQ -> [Pipe -> Entry]] /\ EntriesNamed
    BY DEF Empty, Entry, Init, EntriesNamed
  <1>3. \A q \in DataRefQ : Buffers[q] \in Seq(Ref) /\ Range(Buffers[q]) \subseteq Ref
    BY RefAssumption, LenIsCardinality
  <1>4. acquire_q \in [DataRefQ -> Seq(Ref)] /\ release_q \in [GraphParam -> Seq(Ref)]
    BY <1>3 DEF Init
  <1>5. owned \subseteq Ref
    BY <1>3, RefAssumption DEF Init
  <1>6. blocked_on \in [DataRefQ -> Seq(Desc)] /\ starting \in Seq(Desc) /\ app \in [App -> Seq(Desc)]
    BY DEF Init
  <1>7. JobsOK(job_q) /\ JobsOnTarget
    BY SizeAssumption, EmptyHasNone DEF Init, JobsOK, Jobs, JobsOnTarget
  <1>8. task \in [Target -> Task] /\ TasksShaped
    BY DEF TaskIdle, Task, Shaped, Init, TasksShaped
  <1>. QED  BY <1>1, <1>2, <1>4, <1>5, <1>6, <1>7, <1>8 DEF DataTypeOK

(* Every step keeps the types.                                               *)
LEMMA NextTyped ==
  ASSUME Typed, [Next]_vars
  PROVE  StaysTyped
  <1>1. SP!Inv
    BY TypedIs
  <1>2. CASE UNCHANGED vars
    BY <1>2, TypedIs DEF vars, nodes, refs, data, StaysTyped, launch, EntriesNamed, DataTypeOK, JobsOK, JobsOnTarget, TasksShaped, Shaped
  <1>. QED  BY <1>1, <1>2, Steps, EnqueueTyped, AppTriggerTyped, StartsTyped, DequeueTyped, HostTyped, KernelTyped,
               TakeTyped, AcquireTyped, CompleteTyped, TaskTriggerTyped, ReleaseTyped, SendCompleteTyped, TriggerNextTyped

(* The types, the shape of each task, and the names of what it holds.        *)
LEMMA TypedInv == Spec => []Typed
  <1>1. Init /\ SP!Inv => Typed
    BY InitTyped, TypedIs
  <1>2. Typed /\ [Next]_vars /\ SP!Inv' => Typed'
    <2>1. Typed /\ [Next]_vars => DataTypeOK' /\ TasksShaped' /\ JobsOnTarget' /\ EntriesNamed'
      BY NextTyped DEF StaysTyped
    <2>. QED  BY <2>1, TypedIs, PTL
  <1>. QED  BY <1>1, <1>2, ScheduleInv, PTL DEF Spec

(* The node descriptors, queues and tasks keep their types. *)
THEOREM TypeCorrect == Spec => []TypeOK
  <1>1. Typed => TypeOK
    BY DEF Typed
  <1>. QED  BY <1>1, TypedInv, PTL

-----------------------------------------------------------------------------
(* The places of a descriptor. *)

IsPlaced(d) == \E k \in Kinds : \E x \in Of(k) : d \in Holds(k, x)

Disjoint ==
  \A k, l \in Kinds : \A x \in Of(k), y \in Of(l) :
    Holds(k, x) \cap Holds(l, y) # {} => k = l /\ x = y

(* What one place gains in a step is X, and no other place gains anything. *)
Gains(X, l, y) ==
  \A m \in Kinds : \A z \in Of(m) :
    Holds(m, z)' \subseteq Holds(m, z) \cup (IF m = l /\ z = y THEN X ELSE {})

(* Descriptors move from one place to another one. *)
Moves(X, k, x, l, y) ==
  /\ k \in Kinds /\ l \in Kinds /\ k # l /\ x \in Of(k) /\ y \in Of(l)
  /\ X \subseteq Holds(k, x)
  /\ Gains(X, l, y)
  /\ TriggeredOnce => X \cap Holds(k, x)' = {}

(* What the places of a descriptor gain, one kind of place at a time.        *)
LEMMA GainsIs ==
  ASSUME NEW X, NEW l, NEW y,
         \A t \in Target :
           /\ Range(job_q'[t]) \subseteq Range(job_q[t]) \cup (IF "job" = l /\ t = y THEN X ELSE {})
           /\ Working(t)' => \/ Working(t) /\ task'[t].desc = task[t].desc
                             \/ "task" = l /\ t = y /\ task'[t].desc \in X
           /\ Range(task'[t].send) \subseteq Range(task[t].send) \cup (IF "send" = l /\ t = y THEN X ELSE {})
           /\ \/ task'[t].retrigger \in {None, task[t].retrigger}
              \/ "retrigger" = l /\ t = y /\ task'[t].retrigger \in X,
         \A q \in DataRefQ :
           Range(blocked_on'[q]) \subseteq Range(blocked_on[q]) \cup (IF "blocked" = l /\ q = y THEN X ELSE {}),
         \A d \in Desc :
           \/ blocked_node_id'[d] \in {None, blocked_node_id[d]}
           \/ "behind" = l /\ d = y /\ blocked_node_id'[d] \in X,
         \A a \in App :
           Range(app'[a]) \subseteq Range(app[a]) \cup (IF "app" = l /\ a = y THEN X ELSE {}),
         Range(starting') \subseteq Range(starting)
  PROVE  Gains(X, l, y)
  BY DEF Gains, Of, Holds, Kinds

(* A descriptor that moves had a place before.                               *)
LEMMA MovesPlaced ==
  ASSUME NEW X, NEW k, NEW x, NEW l, NEW y, Moves(X, k, x, l, y), NEW d, IsPlaced(d)'
  PROVE  IsPlaced(d)
  BY DEF IsPlaced, Kinds, Of, Moves, Gains

(* Descriptors that move from one place to another stay in one place.        *)
LEMMA MovesDisjoint ==
  ASSUME TriggeredOnce, NEW X, NEW k, NEW x, NEW l, NEW y, Moves(X, k, x, l, y)
  PROVE  Disjoint'
  BY DEF TriggeredOnce, Disjoint, Moves, Gains, Kinds, Of

(* A step in which no place gains a descriptor. *)
GainsNone == Gains({}, "none", "none")

(* An enqueue takes what is blocked on the queue into the hands of the       *)
(* thread.                                                                   *)
LEMMA EnqueueMoves ==
  ASSUME Typed, NEW a \in App, NEW q \in GraphParam, NEW r \in Ref, EnqueueReadyRef(a, q, r)
  PROVE  Moves(Range(blocked_on[q]), "blocked", q, "app", a)
  <1>1. DataTypeOK /\ q \in DataRefQ
    BY TypedIs, RefAssumption
  <1>2. /\ app' = [app EXCEPT ![a] = blocked_on[q]] /\ blocked_on' = [blocked_on EXCEPT ![q] = <<>>]
        /\ job_q' = job_q /\ starting' = starting /\ task' = task /\ blocked_node_id' = blocked_node_id
    BY DEF EnqueueReadyRef, Extract, nodes, launch
  <1>3. /\ app'[a] = blocked_on[q] /\ blocked_on'[q] = <<>>
        /\ \A b \in App \ {a} : app'[b] = app[b]
        /\ \A s \in DataRefQ \ {q} : blocked_on'[s] = blocked_on[s]
    BY <1>1, <1>2 DEF DataTypeOK
  <1>4. Gains(Range(blocked_on[q]), "app", a)
    BY <1>2, <1>3, EmptyHasNone, GainsIs DEF Working
  <1>5. Holds("blocked", q) = Range(blocked_on[q]) /\ Holds("blocked", q)' = {}
    BY <1>3, EmptyHasNone DEF Holds
  <1>. QED  BY <1>1, <1>4, <1>5 DEF Moves, Kinds, Of

(* The head of the descriptors a thread has yet to trigger goes to a job queue. *)
LEMMA HeadMoves ==
  ASSUME Typed, NEW k \in {"app", "send", "start"}, NEW x \in Of(k), NEW s \in Seq(Desc), s # <<>>,
         Holds(k, x) = Range(s), Holds(k, x)' = Range(Tail(s)),
         Gains({Head(s)}, "job", TargetOf[Head(s)[1]]),
         TriggeredOnce => IsInjective(s)
  PROVE  Moves({Head(s)}, k, x, "job", TargetOf[Head(s)[1]])
  <1>1. /\ Head(s) \in Desc /\ Head(s) \in Range(s)
        /\ IsInjective(s) => Range(Tail(s)) = Range(s) \ {Head(s)}
    BY Removed
  <1>2. TargetOf[Head(s)[1]] \in Target
    BY <1>1, TypedIs, TriggerIs DEF DataTypeOK
  <1>. QED  BY <1>1, <1>2 DEF Moves, Kinds, Of

(* A trigger takes a descriptor from the hands of the thread to a job queue. *)
LEMMA AppTriggerMoves ==
  ASSUME Typed, NEW a \in App, AppTrigger(a)
  PROVE  Moves({Head(app[a])}, "app", a, "job", TargetOf[Head(app[a])[1]])
  <1>1. DataTypeOK
    BY TypedIs
  <1>2. /\ app[a] \in Seq(Desc) /\ app[a] # <<>> /\ JobsOK(job_q)
        /\ job_q' = Trigger(job_q, Head(app[a])) /\ app' = [app EXCEPT ![a] = Tail(app[a])]
        /\ starting' = starting /\ task' = task /\ blocked_node_id' = blocked_node_id /\ blocked_on' = blocked_on
    BY <1>1 DEF AppTrigger, DataTypeOK, nodes, refs, launch
  <1>3. Head(app[a]) \in Desc /\ Range(Tail(app[a])) \subseteq Range(app[a])
    BY <1>2, Removed
  <1>4. PICK t \in Target : t = TargetOf[Head(app[a])[1]]
    BY <1>2, <1>3, TriggerIs
  <1>5. /\ \A u \in Target \ {t} : job_q'[u] = job_q[u]
        /\ Range(job_q'[t]) \subseteq Range(job_q[t]) \cup {Head(app[a])}
    BY <1>2, <1>3, <1>4, Triggered
  <1>6. app'[a] = Tail(app[a]) /\ \A b \in App \ {a} : app'[b] = app[b]
    BY <1>1, <1>2 DEF DataTypeOK
  <1>7. \A b \in App : Range(app'[b]) \subseteq Range(app[b])
    BY <1>3, <1>6
  <1>8. Gains({Head(app[a])}, "job", t)
    BY <1>2, <1>5, <1>7, GainsIs DEF Working
  <1>9. Holds("app", a) = Range(app[a]) /\ Holds("app", a)' = Range(Tail(app[a]))
    BY <1>6 DEF Holds
  <1>10. TriggeredOnce => IsInjective(app[a])
    BY DEF TriggeredOnce
  <1>. QED  BY <1>2, <1>4, <1>8, <1>9, <1>10, HeadMoves DEF Of

(* And from those of a task.                                                 *)
LEMMA TaskTriggerMoves ==
  ASSUME Typed, NEW t \in Target, TaskTrigger(t)
  PROVE  Moves({Head(task[t].send)}, "send", t, "job", TargetOf[Head(task[t].send)[1]])
  <1>1. DataTypeOK /\ TasksShaped
    BY TypedIs
  <1>. DEFINE s == task[t].send
  <1>2. /\ s \in Seq(Desc) /\ s # <<>> /\ JobsOK(job_q)
        /\ job_q' = Trigger(job_q, Head(s)) /\ app' = app
        /\ starting' = starting /\ blocked_node_id' = blocked_node_id /\ blocked_on' = blocked_on
    BY <1>1, TaskFields DEF TaskTrigger, DataTypeOK, nodes, refs, launch
  <1>3. Head(s) \in Desc /\ Range(Tail(s)) \subseteq Range(s)
    BY <1>2, Removed
  <1>4. PICK u \in Target : u = TargetOf[Head(s)[1]]
    BY <1>2, <1>3, TriggerIs
  <1>5. /\ \A v \in Target \ {u} : job_q'[v] = job_q[v]
        /\ Range(job_q'[u]) \subseteq Range(job_q[u]) \cup {Head(s)}
    BY <1>2, <1>3, <1>4, Triggered
  <1>6. /\ task[t].at \in {"release", "send_complete"}
        /\ task'[t].at = task[t].at /\ task'[t].desc = task[t].desc /\ task'[t].send = Tail(s)
        /\ task'[t].retrigger = task[t].retrigger
        /\ \A v \in Target \ {t} : task'[v] = task[v]
    BY <1>1, TaskTriggerTask, TaskToIs DEF DataTypeOK
  <1>. HIDE DEF s
  <1>7. /\ \A v \in Target : Range(job_q'[v]) \subseteq Range(job_q[v]) \cup (IF "job" = "job" /\ v = u THEN {Head(s)} ELSE {})
        /\ \A v \in Target : Working(v)' => Working(v) /\ task'[v].desc = task[v].desc
        /\ \A v \in Target : Range(task'[v].send) \subseteq Range(task[v].send)
        /\ \A v \in Target : task'[v].retrigger = task[v].retrigger
    BY <1>3, <1>5, <1>6 DEF Working, s
  <1>8. Gains({Head(s)}, "job", u)
    BY <1>2, <1>7, GainsIs
  <1>9. Holds("send", t) = Range(s) /\ Holds("send", t)' = Range(Tail(s))
    BY <1>6 DEF Holds, s
  <1>10. TriggeredOnce => IsInjective(s)
    BY DEF TriggeredOnce, s
  <1>. QED  BY <1>2, <1>4, <1>8, <1>9, <1>10, HeadMoves DEF Of, s

(* And from those of the thread that starts executions. *)
LEMMA KernelMoves ==
  ASSUME Typed, KernelSchedule
  PROVE  Moves({Head(starting)}, "start", "graph", "job", TargetOf[Head(starting)[1]])
  <1>1. JobsOK(job_q) /\ starting \in Seq(Desc) /\ starting # <<>>
    BY TypedIs DEF DataTypeOK, KernelSchedule
  <1>2. /\ Head(starting) \in Desc /\ job_q' = Trigger(job_q, Head(starting))
        /\ Range(starting') \subseteq Range(starting)
    BY <1>1, FirstHead
  <1>3. /\ starting' = Tail(starting) /\ app' = app /\ task' = task
        /\ blocked_node_id' = blocked_node_id /\ blocked_on' = blocked_on
    BY DEF KernelSchedule, nodes, refs
  <1>4. Gains({Head(starting)}, "job", TargetOf[Head(starting)[1]])
    BY SMTT(30), <1>1, <1>2, <1>3, Triggered, GainsIs DEF Working
  <1>5. Holds("start", "graph") = Range(starting) /\ Holds("start", "graph")' = Range(Tail(starting))
    BY <1>3 DEF Holds
  <1>6. "graph" \in Of("start") /\ (TriggeredOnce => IsInjective(starting))
    BY DEF Of, TriggeredOnce
  <1>. QED  BY <1>1, <1>4, <1>5, <1>6, HeadMoves

(* The HOST and a dequeue place no descriptor.                               *)
LEMMA QuietGains ==
  ASSUME Typed, Dequeue \/ HostCompletes \/ HostNotifies
  PROVE  GainsNone
  <1>1. /\ starting' = starting /\ task' = task /\ app' = app /\ blocked_node_id' = blocked_node_id /\ blocked_on' = blocked_on
        /\ \A t \in Target : job_q'[t] = job_q[t]
    BY Targets, TypedIs DEF Dequeue, DequeueDoneRef, HostCompletes, HostNotifies, launch, nodes, refs, DataTypeOK, JobsOK, Jobs
  <1>. QED  BY <1>1, GainsIs DEF GainsNone, Working

(* Starting places the head nodes of the pipeline ids taken.                 *)
LEMMA StartsGains ==
  ASSUME Typed, NEW k \in Nat, Starts(k)
  PROVE  Gains(HeadNodes \X Taken(k), "start", "graph")
  <1>1. SP!Inv
    BY TypedIs
  <1>2. /\ job_q' = job_q /\ task' = task /\ app' = app /\ blocked_node_id' = blocked_node_id
        /\ blocked_on' = blocked_on
    BY DEF Starts, refs
  <1>3. Range(starting') = HeadNodes \X Taken(k)
    BY <1>1, StartHeads
  <1>4. \A z \in Of("start") : z = "graph"
    BY DEF Of
  <1>. SUFFICES ASSUME NEW m \in Kinds, NEW z \in Of(m)
                PROVE  Holds(m, z)' \subseteq Holds(m, z) \cup
                         (IF m = "start" /\ z = "graph" THEN HeadNodes \X Taken(k) ELSE {})
    BY DEF Gains
  <1>5. CASE m = "start"
    BY <1>3, <1>4, <1>5 DEF Holds
  <1>6. CASE m # "start"
    BY <1>2, <1>6 DEF Holds, Working, Kinds
  <1>. QED  BY <1>5, <1>6

(* Telling the HOST places no descriptor of a target.                        *)
LEMMA SendCompleteGains ==
  ASSUME Typed, NEW t \in Target, SendComplete(t)
  PROVE  GainsNone
  <1>1. DataTypeOK /\ TasksShaped
    BY TypedIs
  <1>2. /\ starting' = starting /\ app' = app /\ blocked_node_id' = blocked_node_id /\ blocked_on' = blocked_on
        /\ \A u \in Target : job_q'[u] = job_q[u]
    <2>1. "HOST" \in Jobs /\ "HOST" \notin Target
      BY Targets DEF Jobs
    <2>2. task[t].desc \in Desc
      BY <1>1 DEF SendComplete, At, TasksShaped, Shaped
    <2>3. \A u \in Target : Put(job_q, "HOST", task[t].desc)[u] = job_q[u]
      BY <1>1, <2>1, <2>2, PutIs DEF DataTypeOK, Jobs
    <2>. QED  BY <2>3 DEF SendComplete, nodes, refs, launch
  <1>3. /\ task[t].at = "send_complete" /\ task[t].send = <<>>
        /\ task'[t].at = "trigger_next" /\ task'[t].send = <<>>
        /\ task'[t].retrigger = task[t].retrigger
        /\ \A v \in Target \ {t} : task'[v] = task[v]
    BY <1>1, SendCompleteTask, TaskToIs DEF DataTypeOK
  <1>4. \A v \in Target : /\ Working(v)' => Working(v) /\ task'[v].desc = task[v].desc
                          /\ task'[v].send = task[v].send
                          /\ task'[v].retrigger = task[v].retrigger
    BY <1>3 DEF Working
  <1>. QED  BY <1>2, <1>4, GainsIs DEF GainsNone

(* A step after which the tasks hold what they held. *)
LEMMA TakeMoves ==
  ASSUME Typed, NEW t \in Target, Take(t)
  PROVE  LET d == Head(job_q[t])
         IN  /\ d \in executed => GainsNone
             /\ d \notin executed /\ WaitsForPrev(d) => Moves({d}, "job", t, "behind", PrevPipe(d))
             /\ d \notin executed /\ ~WaitsForPrev(d) => Moves({d}, "job", t, "task", t)
  <1>1. DataTypeOK /\ TasksShaped
    BY TypedIs
  <1>2. PICK d \in Desc : d = Head(job_q[t]) /\ TargetOf[d[1]] = t
    BY HeadJob DEF Take
  <1>3. /\ job_q[t] \in Seq(Desc) /\ job_q[t] # <<>> /\ task[t].at = "idle"
        /\ job_q'[t] = Tail(job_q[t]) /\ \A u \in Target \ {t} : job_q'[u] = job_q[u]
        /\ starting' = starting /\ app' = app /\ blocked_on' = blocked_on
    BY <1>1 DEF Take, At, DataTypeOK, JobsOK, Jobs, refs, launch
  <1>4. /\ d \in Range(job_q[t]) /\ Range(Tail(job_q[t])) \subseteq Range(job_q[t])
        /\ IsInjective(job_q[t]) => Range(Tail(job_q[t])) = Range(job_q[t]) \ {d}
    BY <1>2, <1>3, Removed
  <1>5. \A u \in Target : Range(job_q'[u]) \subseteq Range(job_q[u])
    BY <1>3, <1>4
  <1>6. Holds("job", t) = Range(job_q[t]) /\ Holds("job", t)' = Range(Tail(job_q[t]))
    BY <1>3 DEF Holds
  <1>7. TriggeredOnce => {d} \cap Holds("job", t)' = {}
    BY <1>4, <1>6 DEF TriggeredOnce
  <1>8. ASSUME task' = task, blocked_node_id' = blocked_node_id
        PROVE  GainsNone
    BY <1>3, <1>5, <1>8, GainsIs DEF GainsNone, Working
  <1>9. CASE d \in executed
    BY <1>2, <1>9, <1>8 DEF Take
  <1>10. CASE d \notin executed /\ WaitsForPrev(d)
    <2>1. task' = task /\ blocked_node_id' = [blocked_node_id EXCEPT ![PrevPipe(d)] = d]
      BY <1>2, <1>10 DEF Take
    <2>2. PrevPipe(d) \in Desc
      BY PrevPipeIs
    <2>3. \A c \in Desc : blocked_node_id'[c] = blocked_node_id[c] \/ (c = PrevPipe(d) /\ blocked_node_id'[c] \in {d})
      BY <1>1, <2>1 DEF DataTypeOK
    <2>4. Gains({d}, "behind", PrevPipe(d))
      BY <1>3, <1>5, <2>1, <2>3, GainsIs DEF Working
    <2>5. Moves({d}, "job", t, "behind", PrevPipe(d))
      BY <1>4, <1>6, <1>7, <2>2, <2>4 DEF Moves, Kinds, Of
    <2>. QED  BY <1>2, <1>10, <2>5
  <1>11. CASE d \notin executed /\ ~WaitsForPrev(d)
    <2>1. blocked_node_id' = blocked_node_id
      BY <1>2, <1>11 DEF Take
    <2>2. TaskTo(t, "acquire", d, 1, <<>>, <<>>, None)
      BY <1>1, <1>2, <1>11, TakeTask DEF DataTypeOK
    <2>3. /\ task'[t].at = "acquire" /\ task'[t].desc = d /\ task'[t].send = <<>> /\ task'[t].retrigger = None
          /\ \A u \in Target \ {t} : task'[u] = task[u]
      BY <1>1, <2>2, TaskToIs DEF DataTypeOK
    <2>4. \A u \in Target :
            /\ Working(u)' => (Working(u) /\ task'[u].desc = task[u].desc) \/ (u = t /\ task'[u].desc \in {d})
            /\ Range(task'[u].send) \subseteq Range(task[u].send)
            /\ task'[u].retrigger \in {None, task[u].retrigger}
      BY <2>3, EmptyHasNone DEF Working
    <2>5. Gains({d}, "task", t)
      BY Zenon, <1>3, <1>5, <2>1, <2>4, GainsIs
    <2>6. Moves({d}, "job", t, "task", t)
      BY <1>4, <1>6, <1>7, <2>5 DEF Moves, Kinds, Of
    <2>. QED  BY <1>2, <1>11, <2>6
  <1>. QED  BY <1>2, <1>9, <1>10, <1>11

(* A task that acquires a parameter keeps its descriptor, or leaves it with the queue. *)
LEMMA AcquireMoves ==
  ASSUME Typed, NEW t \in Target, Acquire(t)
  PROVE  LET d == task[t].desc q == Param[d[1]][task[t].i][1]
         IN IF data_ref_q[q][d[2]].acquired \/ acquire_q[q] # <<>>
            THEN GainsNone ELSE Moves({d}, "task", t, "blocked", q)
  <1>1. DataTypeOK /\ TasksShaped
    BY TypedIs
  <1>2. PICK d, q, e : d = task[t].desc /\ q = Param[d[1]][task[t].i][1] /\ e = data_ref_q[q][d[2]]
    BY Zenon
  <1>3. task[t].at = "acquire" /\ task[t].send = <<>> /\ task[t].retrigger = None
    BY Zenon, <1>1 DEF Acquire, At, TasksShaped, Shaped
  <1>4. d \in Desc /\ q \in DataRefQ /\ blocked_on[q] \in Seq(Desc)
    BY Zenon, <1>1, <1>2, <1>3, Current DEF DataTypeOK
  <1>5. job_q' = job_q /\ starting' = starting /\ app' = app /\ blocked_node_id' = blocked_node_id
    BY Zenon DEF Acquire, launch
  <1>6. CASE e.acquired \/ acquire_q[q] # <<>>
    <2>1. /\ task'[t].at \in {"execute", "acquire"} /\ task'[t].desc = d /\ task'[t].send = <<>>
          /\ task'[t].retrigger = None
          /\ \A u \in Target \ {t} : task'[u] = task[u]
      <3>1. PICK at, i, prm : /\ at \in {"execute", "acquire"}
                              /\ TaskTo(t, at, d, i, prm, <<>>, None)
        <4>1. PICK r : r = IF e.acquired THEN e.ref ELSE Head(acquire_q[q])
          BY Zenon
        <4>2. TaskTo(t, IF task[t].i = Len(Param[d[1]]) THEN "execute" ELSE "acquire",
                     d, task[t].i + 1, Append(task[t].prm, r), <<>>, None)
          BY Zenon, <1>1, <1>2, <1>6, <4>1, AcquireTask DEF DataTypeOK
        <4>. QED  BY <4>2
      <3>. QED  BY <1>1, <3>1, TaskToIs DEF DataTypeOK
    <2>2. blocked_on' = blocked_on
      BY ZenonT(30), <1>2, <1>6 DEF Acquire
    <2>3. \A u \in Target :
            /\ Working(u)' => Working(u) /\ task'[u].desc = task[u].desc
            /\ Range(task'[u].send) \subseteq Range(task[u].send)
            /\ task'[u].retrigger \in {None, task[u].retrigger}
      BY <1>2, <1>3, <2>1, EmptyHasNone DEF Working
    <2>4. GainsNone
      BY Zenon, <1>5, <2>2, <2>3, GainsIs DEF GainsNone
    <2>. QED  BY Zenon, <1>2, <1>6, <2>4
  <1>7. CASE ~(e.acquired \/ acquire_q[q] # <<>>)
    <2>1. /\ task'[t].at = "idle" /\ task'[t].send = <<>> /\ task'[t].retrigger = None
          /\ \A u \in Target \ {t} : task'[u] = task[u]
      <3>1. TaskTo(t, "idle", None, 0, <<>>, <<>>, None)
        BY Zenon, <1>1, <1>2, <1>7, AcquireTask DEF DataTypeOK
      <3>. QED  BY ZenonT(30), <1>1, <3>1, TaskToIs DEF DataTypeOK
    <2>2. blocked_on' = [blocked_on EXCEPT ![q] = IF Len(blocked_on[q]) < MaxBlocked THEN Append(blocked_on[q], d) ELSE blocked_on[q]]
      BY Zenon, <1>2, <1>7 DEF Acquire
    <2>3. \A s \in DataRefQ : Range(blocked_on'[s]) \subseteq Range(blocked_on[s]) \cup (IF s = q THEN {d} ELSE {})
      BY <1>4, Appended, <1>1, <2>2 DEF DataTypeOK
    <2>4. \A u \in Target :
            /\ Working(u)' => Working(u) /\ task'[u].desc = task[u].desc
            /\ Range(task'[u].send) \subseteq Range(task[u].send)
            /\ task'[u].retrigger \in {None, task[u].retrigger}
      BY <1>3, <2>1, EmptyHasNone DEF Working
    <2>5. Gains({d}, "blocked", q)
      BY <1>5, <2>3, <2>4, GainsIs
    <2>6. Holds("task", t) = {d} /\ Holds("task", t)' = {}
      BY <1>2, <1>3, <2>1 DEF Holds, Working
    <2>7. Moves({d}, "task", t, "blocked", q)
      BY <1>4, <2>5, <2>6 DEF Moves, Kinds, Of
    <2>. QED  BY Zenon, <1>2, <1>7, <2>7
  <1>. QED  BY Zenon, <1>2, <1>6, <1>7

(* The descriptor behind one that has run goes to the task that ran it. *)
LEMMA CompleteMoves ==
  ASSUME Typed, NEW t \in Target, Complete(t)
  PROVE  /\ Moves({blocked_node_id[task[t].desc]} \ {None}, "behind", task[t].desc, "retrigger", t)
         /\ task[t].desc \in Desc /\ Holds("task", t) = {task[t].desc} /\ Holds("task", t)' = {}
  <1>1. DataTypeOK /\ TasksShaped
    BY TypedIs
  <1>2. PICK d \in Desc : d = task[t].desc
    BY <1>1 DEF Complete, At, TasksShaped, Shaped
  <1>3. /\ task[t].at = "execute" /\ task[t].send = <<>>
        /\ task'[t].at = "release" /\ task'[t].desc = d /\ task'[t].send = <<>> /\ task'[t].retrigger = blocked_node_id[d]
        /\ \A u \in Target \ {t} : task'[u] = task[u]
    BY <1>1, <1>2, CompleteTask, TaskToIs DEF DataTypeOK
  <1>4. /\ job_q' = job_q /\ starting' = starting /\ app' = app /\ blocked_on' = blocked_on
        /\ blocked_node_id' = [blocked_node_id EXCEPT ![d] = None]
    BY <1>2 DEF Complete, refs, launch
  <1>5. \A c \in Desc : blocked_node_id'[c] \in {None, blocked_node_id[c]}
    BY <1>1, <1>4 DEF DataTypeOK
  <1>6. \A u \in Target :
          /\ Working(u)' => Working(u) /\ task'[u].desc = task[u].desc
          /\ Range(task'[u].send) \subseteq Range(task[u].send)
          /\ \/ task'[u].retrigger \in {None, task[u].retrigger}
             \/ u = t /\ task'[u].retrigger \in {blocked_node_id[d]} \ {None}
    BY <1>3, EmptyHasNone DEF Working
  <1>7. Gains({blocked_node_id[d]} \ {None}, "retrigger", t)
    BY <1>4, <1>5, <1>6, GainsIs
  <1>8. Holds("behind", d) = {blocked_node_id[d]} \ {None} /\ Holds("behind", d)' = {}
    BY <1>1, <1>4 DEF Holds, DataTypeOK
  <1>9. Holds("task", t) = {d} /\ Holds("task", t)' = {}
    BY <1>2, <1>3 DEF Holds, Working
  <1>10. Moves({blocked_node_id[d]} \ {None}, "behind", d, "retrigger", t)
    BY <1>7, <1>8 DEF Moves, Kinds, Of
  <1>. QED  BY <1>2, <1>9, <1>10

(* A task that gives a reference back takes along those that wait for it. *)
LEMMA ReleaseMoves ==
  ASSUME Typed, NEW t \in Target, Release(t)
  PROVE  \/ GainsNone
         \/ \E q \in DataRefQ : /\ Moves(Range(blocked_on[q]), "blocked", q, "send", t)
                                /\ task'[t].send = blocked_on[q]
                                /\ blocked_on' = [blocked_on EXCEPT ![q] = <<>>]
  <1>1. DataTypeOK /\ TasksShaped
    BY TypedIs
  <1>2. PICK k, d, q, input, r, users, e, to_queue :
             /\ k = task[t] /\ d = k.desc /\ q = Param[d[1]][k.i][1] /\ input = Param[d[1]][k.i][2]
             /\ r = k.prm[k.i] /\ users = Cardinality(Consumers(q)) /\ e = data_ref_q[q][d[2]]
             /\ to_queue = IF input THEN ref_done[r] + 1 = users ELSE users = 0
    OBVIOUS
  <1>3. /\ k.at = "release" /\ k.send = <<>> /\ q \in DataRefQ
        /\ Released1(t, q, d[2], r, input, users, e, to_queue)
        /\ TaskTo(t, IF k.i = Len(Param[d[1]]) THEN "send_complete" ELSE "release", d, k.i + 1, k.prm,
                  IF to_queue /\ q \notin GraphParam THEN blocked_on[q] ELSE <<>>, k.retrigger)
    BY ZenonT(30), <1>2, ReleaseIs
  <1>4. /\ task'[t].at \in {"send_complete", "release"} /\ task'[t].retrigger = task[t].retrigger
        /\ task'[t].send = IF to_queue /\ q \notin GraphParam THEN blocked_on[q] ELSE <<>>
        /\ \A u \in Target \ {t} : task'[u] = task[u]
    <2>1. PICK at, i, send : /\ at \in {"send_complete", "release"}
                             /\ send = IF to_queue /\ q \notin GraphParam THEN blocked_on[q] ELSE <<>>
                             /\ TaskTo(t, at, d, i, k.prm, send, k.retrigger)
      BY <1>3
    <2>2. /\ task'[t].at = at /\ task'[t].retrigger = k.retrigger /\ task'[t].send = send
          /\ \A u \in Target \ {t} : task'[u] = task[u]
      BY <1>1, <2>1, TaskToIs DEF DataTypeOK
    <2>. QED  BY Zenon, <1>2, <2>1, <2>2
  <1>5. /\ job_q' = job_q /\ starting' = starting /\ app' = app /\ blocked_node_id' = blocked_node_id
        /\ blocked_on' = IF to_queue /\ q \notin GraphParam THEN [blocked_on EXCEPT ![q] = <<>>] ELSE blocked_on
    BY <1>3 DEF Released1, nodes, launch
  <1>6. \A u \in Target : /\ Working(u)' => Working(u) /\ task'[u].desc = task[u].desc
                          /\ task'[u].retrigger = task[u].retrigger
    BY <1>4 DEF Working
  <1>7. CASE to_queue /\ q \notin GraphParam
    BY <1>1, <1>3, <1>5, <1>7, <1>4, <1>6, EmptyHasNone, GainsIs DEF DataTypeOK, Holds, Moves,
       Kinds, Of
  <1>8. CASE ~(to_queue /\ q \notin GraphParam)
    BY SMTT(30), <1>4, <1>8, EmptyHasNone, <1>5, <1>6, GainsIs DEF GainsNone
  <1>. QED  BY Zenon, <1>7, <1>8

(* A task triggers a successor, and at the end the descriptor behind its own. *)
LEMMA TriggerNextMoves ==
  ASSUME Typed, NEW t \in Target, TriggerNext(t)
  PROVE  LET k == task[t] next == Successors(k.desc[1])
         IN  \/ GainsNone
             \/ /\ k.i <= Len(next)
                /\ CanNodeExecute(next[k.i], k.desc[2])
                /\ Gains({<<next[k.i], k.desc[2]>>}, "job", TargetOf[next[k.i]])
             \/ /\ k.i > Len(next) /\ k.retrigger \in Desc
                /\ Moves({k.retrigger}, "retrigger", t, "job", TargetOf[k.retrigger[1]])
  <1>1. DataTypeOK /\ TasksShaped /\ JobsOK(job_q)
    BY TypedIs DEF DataTypeOK
  <1>2. PICK k, d, next : k = task[t] /\ d = k.desc /\ next = Successors(d[1])
    OBVIOUS
  <1>3. starting' = starting /\ app' = app /\ blocked_node_id' = blocked_node_id /\ blocked_on' = blocked_on
    BY DEF TriggerNext, nodes, refs, launch
  <1>4. /\ k.at = "trigger_next" /\ k.send = <<>>
        /\ task'[t].at \in {"trigger_next", "idle"} /\ task'[t].send = <<>>
        /\ task'[t].retrigger \in {None, k.retrigger}
        /\ k.i > Len(next) => task'[t].retrigger = None
        /\ \A u \in Target \ {t} : task'[u] = task[u]
        /\ k.i <= Len(next) \/ k.i > Len(next)
    <2>1. /\ k.at = "trigger_next" /\ k.send = <<>>
          /\ k.i <= Len(next) => TaskTo(t, "trigger_next", d, k.i + 1, k.prm, <<>>, k.retrigger)
          /\ k.i > Len(next) => TaskTo(t, "idle", None, 0, <<>>, <<>>, None)
          /\ k.i <= Len(next) \/ k.i > Len(next)
      BY <1>1, <1>2, TriggerNextTask DEF DataTypeOK
    <2>2. CASE k.i <= Len(next) /\ ~(k.i > Len(next))
      BY <1>1, <2>1, <2>2, TaskToIs DEF DataTypeOK
    <2>3. CASE k.i > Len(next)
      BY <1>1, <2>1, <2>3, TaskToIs DEF DataTypeOK
    <2>. QED  BY <2>1, <2>2, <2>3
  <1>5. \A u \in Target : /\ Working(u)' => Working(u) /\ task'[u].desc = task[u].desc
                          /\ Range(task'[u].send) \subseteq Range(task[u].send)
                          /\ task'[u].retrigger \in {None, task[u].retrigger}
    BY <1>2, <1>4 DEF Working
  <1>6. ASSUME job_q' = job_q PROVE GainsNone
    BY <1>3, <1>5, <1>6, GainsIs DEF GainsNone
  <1>7. ASSUME NEW c \in Desc, job_q' = Trigger(job_q, c)
        PROVE  Gains({c}, "job", TargetOf[c[1]])
    BY SMTT(30), <1>1, <1>7, Triggered, <1>3, <1>5, GainsIs
  <1>8. CASE k.i <= Len(next)
    <2>1. PICK c \in Desc : c = <<next[k.i], d[2]>> /\ c[1] = next[k.i]
      BY ZenonT(30), <1>2, <1>8, NextTrigger
    <2>2. job_q' = IF CanNodeExecute(next[k.i], d[2]) THEN Trigger(job_q, c) ELSE job_q
      BY <1>2, <1>8, <2>1, NextTrigger
    <2>. QED  BY <1>2, <1>6, <1>7, <1>8, <2>1, <2>2
  <1>9. CASE k.i > Len(next)
    <2>1. /\ k.retrigger \in Desc \cup {None}
          /\ job_q' = IF k.retrigger # None THEN Trigger(job_q, k.retrigger) ELSE job_q
      BY <1>2, <1>9, NextTrigger
    <2>2. CASE k.retrigger = None
      BY <1>6, <2>1, <2>2
    <2>3. CASE k.retrigger \in Desc
      <3>1. Gains({k.retrigger}, "job", TargetOf[k.retrigger[1]])
        BY <1>7, <2>1, <2>3, NoneIs
      <3>2. Holds("retrigger", t) = {k.retrigger} /\ Holds("retrigger", t)' = {}
        BY <1>2, <1>4, <1>9, <2>3, NoneIs DEF Holds
      <3>3. TargetOf[k.retrigger[1]] \in Target
        BY <2>3, NoneIs, Targets
      <3>4. Moves({k.retrigger}, "retrigger", t, "job", TargetOf[k.retrigger[1]])
        BY <3>1, <3>2, <3>3 DEF Moves, Kinds, Of
      <3>. QED  BY <1>2, <1>9, <2>3, <3>4
    <2>. QED  BY <2>1, <2>2, <2>3
  <1>. QED  BY <1>4, <1>8, <1>9

(* A descriptor is placed by a trigger of its predecessor, by a start, or was so before. *)
LEMMA PlacedStep ==
  ASSUME Typed, [Next]_vars, NEW d \in Desc, IsPlaced(d)'
  PROVE  \/ IsPlaced(d)
         \/ \E k \in Nat : Starts(k) /\ d \in HeadNodes \X Taken(k)
         \/ \E t \in Target : LET c == task[t].desc next == Successors(c[1])
                              IN  /\ TriggerNext(t) /\ task[t].i <= Len(next)
                                  /\ d = <<next[task[t].i], c[2]>>
                                  /\ CanNodeExecute(next[task[t].i], c[2])
  <1>1. ASSUME GainsNone PROVE IsPlaced(d)
    BY <1>1 DEF IsPlaced, Kinds, Of, GainsNone, Gains
  <1>2. ASSUME NEW X, NEW k, NEW x, NEW l, NEW y, Moves(X, k, x, l, y) PROVE IsPlaced(d)
    BY <1>2, MovesPlaced
  <1>3. ASSUME NEW a \in App, NEW q \in GraphParam, NEW r \in Ref, EnqueueReadyRef(a, q, r) PROVE IsPlaced(d)
    BY <1>2, <1>3, EnqueueMoves
  <1>4. ASSUME NEW a \in App, AppTrigger(a) PROVE IsPlaced(d)
    BY <1>2, <1>4, AppTriggerMoves
  <1>16. ASSUME KernelSchedule PROVE IsPlaced(d)
    BY <1>2, <1>16, KernelMoves
  <1>5. ASSUME NEW k \in Nat, Starts(k) PROVE IsPlaced(d) \/ d \in HeadNodes \X Taken(k)
    BY <1>5, StartsGains DEF Gains, IsPlaced, Kinds, Of
  <1>6. ASSUME Dequeue \/ HostCompletes \/ HostNotifies PROVE IsPlaced(d)
    BY <1>1, <1>6, QuietGains
  <1>7. ASSUME NEW t \in Target, Take(t) PROVE IsPlaced(d)
    BY <1>1, <1>2, <1>7, TakeMoves
  <1>8. ASSUME NEW t \in Target, Acquire(t) PROVE IsPlaced(d)
    BY Zenon, <1>1, <1>2, <1>8, AcquireMoves
  <1>9. ASSUME NEW t \in Target, Complete(t) PROVE IsPlaced(d)
    BY <1>2, <1>9, CompleteMoves
  <1>10. ASSUME NEW t \in Target, TaskTrigger(t) PROVE IsPlaced(d)
    BY <1>2, <1>10, TaskTriggerMoves
  <1>11. ASSUME NEW t \in Target, Release(t) PROVE IsPlaced(d)
    BY <1>1, <1>2, <1>11, ReleaseMoves
  <1>12. ASSUME NEW t \in Target, SendComplete(t) PROVE IsPlaced(d)
    BY SMTT(30), <1>1, <1>12, SendCompleteGains
  <1>13. ASSUME NEW t \in Target, TriggerNext(t), ~IsPlaced(d)
         PROVE  LET c == task[t].desc next == Successors(c[1])
                IN  /\ task[t].i <= Len(next)
                    /\ d = <<next[task[t].i], c[2]>>
                    /\ CanNodeExecute(next[task[t].i], c[2])
    <2>1. PICK c, next : c = task[t].desc /\ next = Successors(c[1])
      OBVIOUS
    <2>2. /\ task[t].i <= Len(next) /\ CanNodeExecute(next[task[t].i], c[2])
          /\ Gains({<<next[task[t].i], c[2]>>}, "job", TargetOf[next[task[t].i]])
      BY <1>1, <1>2, <1>13, <2>1, TriggerNextMoves
    <2>3. PICK m \in Kinds : \E z \in Of(m) : d \in Holds(m, z)'
      BY DEF IsPlaced, Kinds, Of
    <2>4. PICK z \in Of(m) : d \in Holds(m, z)'
      BY <2>3
    <2>5. d \in Holds(m, z) \cup {<<next[task[t].i], c[2]>>}
      BY <2>2, <2>4 DEF Gains
    <2>6. d = <<next[task[t].i], c[2]>>
      BY <1>13, <2>5 DEF IsPlaced
    <2>. QED  BY <2>1, <2>2, <2>6
  <1>14. ASSUME UNCHANGED vars PROVE IsPlaced(d)
    BY <1>14 DEF vars, launch, nodes, refs, IsPlaced, Holds, Kinds, Of, Working
  <1>15. SP!Inv
    BY TypedIs
  <1>. QED
    <2>1. CASE \E k \in Nat : Starts(k)
      BY <1>5, <2>1
    <2>2. CASE \E t \in Target : TriggerNext(t)
      BY <1>13, <2>2
    <2>. QED  BY SMTT(30), <1>3, <1>4, <1>6, <1>7, <1>8, <1>9, <1>10, <1>11, <1>12, <1>14, <1>15, <1>16, <2>1, <2>2, Steps

-----------------------------------------------------------------------------
(* Steps that start, run and complete nothing. *)

Releasing(t) == task[t].at \in {"release", "send_complete"}

(* A task starts to work on the descriptor that is its turn. *)
Takes(t) ==
  /\ Take(t) /\ task[t].at = "idle" /\ task'[t].at = "acquire"
  /\ task'[t].desc = Head(job_q[t])
  /\ task'[t].desc \in Range(job_q[t]) \ executed /\ ~WaitsForPrev(task'[t].desc)

Calm ==
  /\ executed' = executed /\ frame' = frame /\ running' = running
  /\ job_q'["HOST"] = job_q["HOST"]
  /\ \A t \in Target :
       \/ task'[t].at = "idle" /\ ~Releasing(t)
       \/ /\ task'[t].at # "idle" /\ task[t].at # "idle" /\ task'[t].desc = task[t].desc
          /\ Working(t)' <=> Working(t)
          /\ Releasing(t)' <=> Releasing(t)
          /\ task'[t].at = "trigger_next" => task'[t].i \in {task[t].i, task[t].i + 1}
       \/ Takes(t)

(* Steps of one task that neither run a node nor tell the HOST.              *)
LEMMA OneTask ==
  ASSUME executed' = executed /\ frame' = frame /\ running' = running, job_q'["HOST"] = job_q["HOST"],
         NEW t \in Target, \A u \in Target \ {t} : task'[u] = task[u],
         \/ task'[t].at = "idle" /\ ~Releasing(t)
         \/ /\ task'[t].at # "idle" /\ task[t].at # "idle" /\ task'[t].desc = task[t].desc
            /\ Working(t)' <=> Working(t)
            /\ Releasing(t)' <=> Releasing(t)
            /\ task'[t].at = "trigger_next" => task'[t].i \in {task[t].i, task[t].i + 1}
         \/ Takes(t)
  PROVE  Calm
  BY DEF Calm, Working, Releasing

(* Steps of others that do not either.                                       *)
LEMMA SameTasks ==
  ASSUME executed' = executed /\ frame' = frame /\ running' = running, job_q'["HOST"] = job_q["HOST"], task' = task
  PROVE  Calm
  BY DEF Calm, Working, Releasing

(* The steps that are calm.                                                  *)
LEMMA CalmSteps ==
  ASSUME Typed,
         \/ \E a \in App, q \in GraphParam, r \in Ref : EnqueueReadyRef(a, q, r)
         \/ \E a \in App : AppTrigger(a)
         \/ Dequeue \/ KernelSchedule
         \/ \E t \in Target : Take(t) \/ Acquire(t) \/ TaskTrigger(t) \/ Release(t) \/ TriggerNext(t)
         \/ UNCHANGED vars
  PROVE  Calm
  <1>1. DataTypeOK /\ TasksShaped /\ JobsOK(job_q) /\ "HOST" \in Jobs /\ "HOST" \notin Target
    BY TypedIs, Targets DEF DataTypeOK, Jobs
  <1>2. CASE (\E a \in App, q \in GraphParam, r \in Ref : EnqueueReadyRef(a, q, r)) \/ Dequeue \/ UNCHANGED vars
    BY <1>2, SameTasks DEF EnqueueReadyRef, Dequeue, DequeueDoneRef, vars, nodes, schedule, graph
  <1>3. ASSUME NEW a \in App, AppTrigger(a) PROVE Calm
    BY <1>1, <1>3, Removed, Triggered, SameTasks DEF AppTrigger, DataTypeOK, nodes, schedule,
       graph
  <1>9. ASSUME KernelSchedule PROVE Calm
    BY <1>1, <1>9, FirstHead, Triggered, SameTasks DEF DataTypeOK, KernelSchedule, nodes,
       schedule, graph
  <1>4. ASSUME NEW t \in Target, Take(t) PROVE Calm
    <2>1. PICK d : d = Head(job_q[t]) /\ d \in Range(job_q[t])
      BY ZenonT(30), <1>4, HeadJob DEF Take
    <2>2. /\ executed' = executed /\ frame' = frame /\ running' = running
          /\ job_q'["HOST"] = job_q["HOST"]
      BY <1>1, <1>4 DEF Take, schedule, graph, DataTypeOK, JobsOK
    <2>3. CASE d \in executed \/ WaitsForPrev(d)
      BY <1>1, <1>4, <2>1, <2>2, <2>3, TakeTask, SameTasks DEF DataTypeOK
    <2>4. CASE d \notin executed /\ ~WaitsForPrev(d)
      <3>1. TaskTo(t, "acquire", d, 1, <<>>, <<>>, None)
        BY <1>1, <1>4, <2>1, <2>4, TakeTask DEF DataTypeOK
      <3>2. task'[t].at = "acquire" /\ task'[t].desc = d /\ \A u \in Target \ {t} : task'[u] = task[u]
        BY <1>1, <3>1, TaskToIs DEF DataTypeOK
      <3>3. Takes(t)
        BY <1>1, <1>4, <2>1, <2>4, <3>2, TakeTask DEF Takes, DataTypeOK
      <3>. QED  BY <2>2, <3>2, <3>3, OneTask
    <2>. QED  BY SMTT(30), <2>3, <2>4
  <1>5. ASSUME NEW t \in Target, Acquire(t) PROVE Calm
    <2>1. task[t].at = "acquire"
      BY Zenon, <1>5 DEF Acquire, At
    <2>2. /\ executed' = executed /\ frame' = frame /\ running' = running
          /\ job_q'["HOST"] = job_q["HOST"]
      BY Zenon, <1>5 DEF Acquire, schedule, graph
    <2>3. PICK d, q, e : d = task[t].desc /\ q = Param[d[1]][task[t].i][1] /\ e = data_ref_q[q][d[2]]
      OBVIOUS
    <2>4. CASE e.acquired \/ acquire_q[q] # <<>>
      <3>1. PICK r : r = IF e.acquired THEN e.ref ELSE Head(acquire_q[q])
        BY Zenon
      <3>2. PICK at \in {"execute", "acquire"} : TaskTo(t, at, d, task[t].i + 1, Append(task[t].prm, r), <<>>, None)
        BY Zenon, <1>1, <1>5, <2>3, <2>4, <3>1, AcquireTask DEF DataTypeOK
      <3>3. task'[t].at = at /\ task'[t].desc = d /\ \A u \in Target \ {t} : task'[u] = task[u]
        BY SMTT(30), <1>1, <3>2, TaskToIs DEF DataTypeOK
      <3>4. /\ task'[t].at # "idle" /\ task[t].at # "idle" /\ task'[t].desc = task[t].desc
            /\ Working(t)' <=> Working(t)
            /\ Releasing(t)' <=> Releasing(t)
            /\ task'[t].at # "trigger_next"
        BY <2>1, <2>3, <3>3 DEF Working, Releasing
      <3>. QED  BY <2>2, <3>3, <3>4, OneTask
    <2>5. CASE ~(e.acquired \/ acquire_q[q] # <<>>)
      <3>1. TaskTo(t, "idle", None, 0, <<>>, <<>>, None)
        BY Zenon, <1>1, <1>5, <2>3, <2>5, AcquireTask DEF DataTypeOK
      <3>2. task'[t].at = "idle" /\ \A u \in Target \ {t} : task'[u] = task[u]
        BY <1>1, <3>1, TaskToIs DEF DataTypeOK
      <3>. QED  BY Zenon, <2>1, <2>2, <3>2, OneTask DEF Releasing
    <2>. QED  BY Zenon, <2>4, <2>5
  <1>6. ASSUME NEW t \in Target, TaskTrigger(t) PROVE Calm
    <2>1. task[t].send \in Seq(Desc) /\ task[t].send # <<>> /\ job_q' = Trigger(job_q, Head(task[t].send))
      BY <1>1, <1>6, TaskFields DEF TaskTrigger, DataTypeOK
    <2>2. job_q'["HOST"] = job_q["HOST"]
      BY <1>1, <2>1, Removed, Triggered
    <2>3. /\ task[t].at \in {"release", "send_complete"}
          /\ TaskTo(t, task[t].at, task[t].desc, task[t].i, task[t].prm, Tail(task[t].send), task[t].retrigger)
      BY <1>1, <1>6, TaskTriggerTask DEF DataTypeOK
    <2>4. /\ task'[t].at = task[t].at /\ task'[t].desc = task[t].desc
          /\ \A u \in Target \ {t} : task'[u] = task[u]
      BY <1>1, <2>3, TaskToIs DEF DataTypeOK
    <2>5. /\ task'[t].at # "idle" /\ task[t].at # "idle" /\ task'[t].desc = task[t].desc
          /\ Working(t)' <=> Working(t)
          /\ Releasing(t)' <=> Releasing(t)
          /\ task'[t].at # "trigger_next"
      BY <2>3, <2>4 DEF Working, Releasing
    <2>6. executed' = executed /\ frame' = frame /\ running' = running
      BY <1>6 DEF TaskTrigger, nodes, schedule, graph
    <2>. QED  BY <2>2, <2>4, <2>5, <2>6, OneTask
  <1>7. ASSUME NEW t \in Target, Release(t) PROVE Calm
    <2>1. PICK at, i, prm, send, retrigger :
            /\ task[t].at = "release" /\ at \in {"send_complete", "release"}
            /\ TaskTo(t, at, task[t].desc, i, prm, send, retrigger)
      BY <1>1, <1>7, ReleaseTask DEF DataTypeOK
    <2>2. /\ task'[t].at = at /\ task'[t].desc = task[t].desc
          /\ \A u \in Target \ {t} : task'[u] = task[u]
      BY <1>1, <2>1, TaskToIs DEF DataTypeOK
    <2>3. /\ task'[t].at # "idle" /\ task[t].at # "idle" /\ task'[t].desc = task[t].desc
          /\ Working(t)' <=> Working(t)
          /\ Releasing(t)' <=> Releasing(t)
          /\ task'[t].at # "trigger_next"
      BY Zenon, <2>1, <2>2 DEF Working, Releasing
    <2>4. executed' = executed /\ frame' = frame /\ running' = running /\ job_q' = job_q
      BY Zenon, <1>7 DEF Release, nodes, schedule, graph
    <2>. QED  BY SMTT(30), <2>2, <2>3, <2>4, OneTask
  <1>8. ASSUME NEW t \in Target, TriggerNext(t) PROVE Calm
    <2>1. job_q'["HOST"] = job_q["HOST"]
      <3>1. PICK next : next = Successors(task[t].desc[1])
        OBVIOUS
      <3>2. job_q' = job_q \/ \E d \in Desc : job_q' = Trigger(job_q, d)
        <4>1. task[t].i <= Len(next) \/ task[t].i > Len(next)
          BY <1>1, <1>8, <3>1, TriggerNextTask DEF DataTypeOK
        <4>. QED  BY <1>8, <3>1, <4>1, NextTrigger
      <3>. QED  BY <1>1, <3>2, Triggered
    <2>2. PICK at, d, i, prm, send, retrigger :
            /\ task[t].at = "trigger_next"
            /\ (at = "idle" \/ (at = "trigger_next" /\ d = task[t].desc /\ i = task[t].i + 1))
            /\ TaskTo(t, at, d, i, prm, send, retrigger)
      BY <1>1, <1>8, TriggerNextTask DEF DataTypeOK
    <2>3. task'[t].at = at /\ task'[t].desc = d /\ task'[t].i = i /\ \A u \in Target \ {t} : task'[u] = task[u]
      BY <1>1, <2>2, TaskToIs DEF DataTypeOK
    <2>4. executed' = executed /\ frame' = frame /\ running' = running
      BY <1>8 DEF TriggerNext, nodes, schedule, graph
    <2>. QED  BY <2>1, <2>2, <2>3, <2>4, OneTask DEF Working, Releasing
  <1>. QED  BY <1>2, <1>3, <1>4, <1>5, <1>6, <1>7, <1>8, <1>9

(* The steps that are not calm. *)
LEMMA StartsEffect ==
  ASSUME Typed, NEW k \in Nat, Starts(k)
  PROVE  /\ task' = task /\ job_q'["HOST"] = job_q["HOST"]
         /\ Taken(k) \subseteq Pipe
         /\ \A d \in running : d[2] \notin Taken(k)
         /\ executed' = {d \in executed : d[2] \notin Taken(k)}
         /\ running' = running \cup LeafNodes \X Taken(k)
         /\ \A p \in Pipe : IF p \in Taken(k) THEN frame'[p] > 0 ELSE frame'[p] = frame[p]
  <1>1. DataTypeOK /\ SP!Inv /\ SP!TypeOK
    BY TypedIs DEF SP!Inv
  <1>2. k \in 0 .. Len(free_q)
    BY DEF Starts
  <1>3. /\ Taken(k) \subseteq Pipe
        /\ \A p \in Taken(k), l \in LeafNodes : <<l, p>> \notin running
        /\ \A p \in Taken(k) : \E i \in 1 .. k :
              p = free_q[i] /\ i = CHOOSE j \in 1 .. k : free_q[j] = p
    BY <1>1, <1>2, TakenIs
  <1>4. \A d \in running : d[2] \notin Taken(k)
    BY <1>1, <1>3 DEF SP!TypeOK
  <1>6. \A p \in Pipe : IF p \in Taken(k) THEN frame'[p] > 0 ELSE frame'[p] = frame[p]
    <2>1. completed \in Nat /\ submitted_count \in Nat
      BY <1>1 DEF SP!TypeOK
    <2>2. ASSUME NEW p \in Taken(k) PROVE frame'[p] > 0
      <3>1. PICK i \in 1 .. k : i = CHOOSE j \in 1 .. k : free_q[j] = p
        BY <1>3, <2>2
      <3>2. frame'[p] = completed + submitted_count + i
        BY <1>3, <2>2, <3>1 DEF Starts
      <3>. QED  BY <2>1, <3>1, <3>2
    <2>. QED  BY <2>2 DEF Starts
  <1>. QED  BY <1>3, <1>4, <1>6 DEF Starts

(* The HOST takes a completion off its queue; only that of a leaf counts.    *)
HostPops == HostCompletes \/ HostNotifies

LEMMA HostEffect ==
  ASSUME Typed, HostPops
  PROVE  LET s == job_q["HOST"] d == Head(s)
         IN  /\ task' = task /\ executed' = executed /\ frame' = frame
             /\ s \in Seq(Desc) /\ s # <<>> /\ job_q'["HOST"] = Tail(s)
             /\ running' = running \ {d}
             /\ d \in Desc
  <1>0. DataTypeOK /\ SP!TypeOK
    BY TypedIs DEF SP!Inv
  <1>1. DataTypeOK /\ "HOST" \in Jobs /\ \A d \in running : d[1] \in LeafNodes
    BY <1>0 DEF Jobs, SP!TypeOK
  <1>2. PICK d : d = Head(job_q["HOST"])
    OBVIOUS
  <1>3. job_q["HOST"] \in Seq(Desc) /\ job_q["HOST"] # <<>> /\ job_q'["HOST"] = Tail(job_q["HOST"])
    BY <1>1 DEF HostPops, HostCompletes, HostNotifies, DataTypeOK, JobsOK
  <1>4. d \in Desc /\ d = <<d[1], d[2]>>
    BY SMTT(30), <1>2, <1>3, Removed, NoneIs
  <1>5. CASE HostCompletes
    BY <1>2, <1>5, <1>3, <1>4 DEF HostCompletes, S!LeafCompletes, S!CountLeaf, S!GraphCompletes,
       S!CompleteGraph, nodes
  <1>6. CASE HostNotifies
    BY <1>1, <1>2, <1>4, <1>6, <1>3 DEF HostNotifies, schedule, graph, nodes
  <1>. QED  BY <1>5, <1>6 DEF HostPops

(* What the end of a kernel changes.                                         *)
LEMMA CompleteEffect ==
  ASSUME Typed, NEW t \in Target, Complete(t)
  PROVE  LET d == task[t].desc
         IN  /\ d \in Desc /\ TargetOf[d[1]] = t /\ Working(t) /\ task[t].at = "execute"
             /\ task'[t].at = "release" /\ task'[t].desc = d
             /\ \A u \in Target \ {t} : task'[u] = task[u]
             /\ executed' = executed \cup {d}
             /\ running' = running /\ frame' = frame /\ job_q' = job_q
  <1>1. DataTypeOK /\ TasksShaped
    BY TypedIs
  <1>2. task[t].at = "execute" /\ task[t].desc \in Desc /\ TargetOf[task[t].desc[1]] = t
    BY <1>1 DEF Complete, At, TasksShaped, Shaped
  <1>3. PICK d, r : d = task[t].desc /\ r = blocked_node_id[d]
    OBVIOUS
  <1>4. TaskTo(t, "release", d, 1, task[t].prm, <<>>, r)
    BY <1>1, <1>3, CompleteTask DEF DataTypeOK
  <1>5. task'[t].at = "release" /\ task'[t].desc = d /\ \A u \in Target \ {t} : task'[u] = task[u]
    BY <1>1, <1>4, TaskToIs DEF DataTypeOK
  <1>6. executed' = executed \cup {d} /\ running' = running /\ frame' = frame /\ job_q' = job_q
    BY <1>3 DEF Complete, schedule, graph
  <1>. QED  BY <1>2, <1>3, <1>5, <1>6 DEF Working

(* What telling the HOST changes.                                            *)
LEMMA SendEffect ==
  ASSUME Typed, NEW t \in Target, SendComplete(t)
  PROVE  LET d == task[t].desc
         IN  /\ d \in Desc /\ TargetOf[d[1]] = t /\ task[t].at = "send_complete"
             /\ task'[t].at = "trigger_next" /\ task'[t].desc = d /\ task'[t].i = 1
             /\ \A u \in Target \ {t} : task'[u] = task[u]
             /\ executed' = executed /\ running' = running /\ frame' = frame
             /\ job_q["HOST"] \in Seq(Desc)
             /\ job_q'["HOST"] = IF TellsHost(d[1]) /\ Len(job_q["HOST"]) < JobQueueSize
                                 THEN Append(job_q["HOST"], d) ELSE job_q["HOST"]
  <1>1. DataTypeOK /\ TasksShaped /\ "HOST" \in Jobs /\ JobsOK(job_q)
    BY TypedIs DEF Jobs, DataTypeOK
  <1>2. task[t].at = "send_complete" /\ task[t].desc \in Desc /\ TargetOf[task[t].desc[1]] = t
    BY <1>1 DEF SendComplete, At, TasksShaped, Shaped
  <1>3. PICK d : d = task[t].desc
    OBVIOUS
  <1>4. TaskTo(t, "trigger_next", d, 1, task[t].prm, <<>>, task[t].retrigger)
    BY <1>1, <1>3, SendCompleteTask DEF DataTypeOK
  <1>5. task'[t].at = "trigger_next" /\ task'[t].desc = d /\ task'[t].i = 1 /\ \A u \in Target \ {t} : task'[u] = task[u]
    BY <1>1, <1>4, TaskToIs DEF DataTypeOK
  <1>6. /\ executed' = executed /\ running' = running /\ frame' = frame
        /\ job_q' = IF TellsHost(d[1]) THEN Put(job_q, "HOST", d) ELSE job_q
    BY <1>3 DEF SendComplete, schedule, graph, nodes
  <1>7. job_q'["HOST"] = IF TellsHost(d[1]) /\ Len(job_q["HOST"]) < JobQueueSize
                         THEN Append(job_q["HOST"], d) ELSE job_q["HOST"]
    BY <1>1, <1>2, <1>3, <1>6, PutIs
  <1>. QED  BY <1>1, <1>2, <1>3, <1>5, <1>6, <1>7 DEF JobsOK

(* A step is calm, or one of these. *)
LEMMA CalmOrNot ==
  ASSUME Typed, [Next]_vars
  PROVE  \/ Calm
         \/ \E k \in Nat : Starts(k)
         \/ HostPops
         \/ \E t \in Target : Complete(t)
         \/ \E t \in Target : SendComplete(t)
  BY Steps, CalmSteps, TypedIs DEF HostPops

-----------------------------------------------------------------------------
(* What the HOST hears of completions. *)

(* What is placed, at a task or executed belongs to an execution that started. *)
FrameStarted ==
  /\ \A d \in Desc : IsPlaced(d) => frame[d[2]] > 0
  /\ \A t \in Target : task[t].at # "idle" => frame[task[t].desc[2]] > 0
  /\ \A d \in executed : frame[d[2]] > 0

(* Only what was started is placed, runs or has run.                         *)
LEMMA FrameStartedKept ==
  ASSUME Typed, FrameStarted, [Next]_vars
  PROVE  FrameStarted'
  <1>1. DataTypeOK /\ TasksShaped
    BY TypedIs
  <1>2. \A p \in Pipe : frame[p] > 0 => frame'[p] > 0
    BY CalmOrNot, StartsEffect, HostEffect, CompleteEffect, SendEffect DEF Calm
  <1>3. ASSUME NEW d \in Desc, IsPlaced(d)' PROVE frame'[d[2]] > 0
    <2>1. d[2] \in Pipe
      BY NoneIs
    <2>2. CASE IsPlaced(d)
      BY <1>2, <2>1, <2>2 DEF FrameStarted
    <2>3. ASSUME NEW k \in Nat, Starts(k), d \in HeadNodes \X Taken(k) PROVE frame'[d[2]] > 0
      BY <2>1, <2>3, StartsEffect
    <2>4. ASSUME NEW t \in Target, TriggerNext(t), d[2] = task[t].desc[2] PROVE frame'[d[2]] > 0
      BY <2>4, <1>2, <2>1 DEF TriggerNext, At, FrameStarted
    <2>5. \/ IsPlaced(d)
          \/ \E k \in Nat : Starts(k) /\ d \in HeadNodes \X Taken(k)
          \/ \E t \in Target : TriggerNext(t) /\ d[2] = task[t].desc[2]
      BY <1>3, PlacedStep
    <2>. QED  BY <2>2, <2>3, <2>4, <2>5
  <1>4. ASSUME NEW t \in Target, task'[t].at # "idle" PROVE frame'[task'[t].desc[2]] > 0
    <2>1. task[t].at # "idle" => task[t].desc[2] \in Pipe /\ frame'[task[t].desc[2]] > 0
      BY <1>1, <1>2, NoneIs DEF FrameStarted, TasksShaped, Shaped
    <2>2. ASSUME NEW d \in Range(job_q[t]) PROVE frame'[d[2]] > 0
      <3>1. d \in Desc
        BY <1>1, <2>2 DEF DataTypeOK, JobsOK, Jobs, Range
      <3>2. IsPlaced(d)
        BY <2>2 DEF IsPlaced, Kinds, Of, Holds
      <3>3. d[2] \in Pipe /\ frame[d[2]] > 0
        BY <3>1, <3>2, NoneIs DEF FrameStarted
      <3>. QED  BY <1>2, <3>3
    <2>3. \/ task[t].at # "idle" /\ task'[t].desc = task[t].desc
          \/ task'[t].desc \in Range(job_q[t])
      BY <1>4, StartsEffect, HostEffect, CompleteEffect, SendEffect, CalmOrNot DEF Calm, Takes
    <2>. QED  BY <2>1, <2>2, <2>3
  <1>5. ASSUME NEW d \in executed' PROVE frame'[d[2]] > 0
    <2>1. d \in executed \/ \E t \in Target : Complete(t) /\ d = task[t].desc
      BY <1>5, CalmOrNot, StartsEffect, HostEffect, CompleteEffect, SendEffect DEF Calm
    <2>2. CASE d \in executed
      BY <1>1, <2>2, NoneIs, <1>2 DEF DataTypeOK, FrameStarted
    <2>3. ASSUME NEW t \in Target, Complete(t), d = task[t].desc PROVE frame'[d[2]] > 0
      BY <2>3, CompleteEffect DEF FrameStarted
    <2>. QED  BY <2>1, <2>2, <2>3
  <1>. QED  BY <1>3, <1>4, <1>5 DEF FrameStarted

(* What a task runs has not run before in this execution. *)
Unexecuted == \A t \in Target : Working(t) => task[t].desc \notin executed

(* A leaf node of an execution that started has yet to complete, or has run. *)
LeafDone == \A l \in LeafNodes, p \in Pipe : <<l, p>> \in running \cup executed \/ frame[p] = 0

(* A leaf node is once in a queue. *)
LeafOnce(s) == \A i, j \in DOMAIN s : s[i][1] \in LeafNodes /\ s[i] = s[j] => i = j

LEMMA LeafOnceKept ==
  ASSUME NEW s \in Seq(Desc), LeafOnce(s)
  PROVE  /\ s # <<>> => LeafOnce(Tail(s)) /\ (Head(s)[1] \in LeafNodes => Head(s) \notin Range(Tail(s)))
         /\ \A d \in Desc : (d[1] \in LeafNodes => d \notin Range(s)) => LeafOnce(Append(s, d))
  <1>1. ASSUME s # <<>> PROVE LeafOnce(Tail(s)) /\ (Head(s)[1] \in LeafNodes => Head(s) \notin Range(Tail(s)))
    BY <1>1, EmptySeq, HeadTailProperties, LenProperties DEF LeafOnce, Range
  <1>2. ASSUME NEW d \in Desc, d[1] \in LeafNodes => d \notin Range(s) PROVE LeafOnce(Append(s, d))
    BY LenProperties, <1>2 DEF LeafOnce, Range
  <1>. QED  BY <1>1, <1>2

(* Those in the HOST queue have run and have yet to complete. *)
HostQ ==
  /\ LeafOnce(job_q["HOST"])
  /\ \A d \in Range(job_q["HOST"]) : d[1] \in LeafNodes => d \in running \cap executed

(* So does a task that has run one and not told the HOST. *)
LeafTask ==
  \A t \in Target : Releasing(t) /\ task[t].desc[1] \in LeafNodes =>
    task[t].desc \in running /\ task[t].desc \in executed /\ task[t].desc \notin Range(job_q["HOST"])

Expected == FrameStarted /\ Unexecuted /\ LeafDone /\ HostQ /\ LeafTask

(* What the task of a target handles is a descriptor of the target. *)
LEMMA OwnDesc ==
  ASSUME Typed, NEW t \in Target, task[t].at # "idle"
  PROVE  task[t].desc \in Desc /\ TargetOf[task[t].desc[1]] = t
  BY TypedIs DEF TasksShaped, Shaped

(* A start expects a completion of every leaf, none of which has run.        *)
LEMMA StartsExpected ==
  ASSUME Typed, Expected, NEW k \in Nat, Starts(k)
  PROVE  Unexecuted' /\ LeafDone' /\ HostQ' /\ LeafTask'
  <1>1. /\ task' = task /\ job_q'["HOST"] = job_q["HOST"] /\ Taken(k) \subseteq Pipe
        /\ \A d \in running : d[2] \notin Taken(k)
        /\ executed' = {d \in executed : d[2] \notin Taken(k)}
        /\ running' = running \cup LeafNodes \X Taken(k)
        /\ \A p \in Pipe : IF p \in Taken(k) THEN frame'[p] > 0 ELSE frame'[p] = frame[p]
    BY StartsEffect
  <1>2. Unexecuted'
    BY <1>1 DEF Expected, Unexecuted, Working
  <1>3. LeafDone'
    BY <1>1 DEF Expected, LeafDone
  <1>4. HostQ'
    BY <1>1 DEF Expected, HostQ
  <1>5. LeafTask'
    BY <1>1 DEF Expected, LeafTask, Releasing
  <1>. QED  BY <1>2, <1>3, <1>4, <1>5

(* The HOST takes the completion that was expected.                          *)
LEMMA HostExpected ==
  ASSUME Typed, Expected, HostPops
  PROVE  Unexecuted' /\ LeafDone' /\ HostQ' /\ LeafTask'
  <1>1. PICK s, d : s = job_q["HOST"] /\ d = Head(s)
    OBVIOUS
  <1>2. /\ task' = task /\ executed' = executed /\ frame' = frame
        /\ s \in Seq(Desc) /\ s # <<>> /\ job_q'["HOST"] = Tail(s)
        /\ running' = running \ {d} /\ d \in Desc
    BY <1>1, HostEffect
  <1>3. /\ d \in Range(s) /\ Range(s) = Range(Tail(s)) \cup {d} /\ LeafOnce(Tail(s))
        /\ d[1] \in LeafNodes => d \in executed /\ d \notin Range(Tail(s))
    BY <1>1, <1>2, Removed, LeafOnceKept DEF Expected, HostQ
  <1>4. Unexecuted'
    BY <1>2 DEF Expected, Unexecuted, Working
  <1>5. LeafDone'
    <2>1. \A l \in LeafNodes : \A p : <<l, p>> = d => d \in executed
      BY <1>3
    <2>. QED  BY <1>2, <2>1 DEF Expected, LeafDone
  <1>6. HostQ'
    BY <1>1, <1>2, <1>3 DEF Expected, HostQ
  <1>7. LeafTask'
    BY <1>1, <1>2, <1>3 DEF Expected, LeafTask, Releasing
  <1>. QED  BY <1>4, <1>5, <1>6, <1>7

(* A leaf that ran is one the HOST has yet to hear of.                       *)
LEMMA CompleteExpected ==
  ASSUME Typed, Expected, NEW t \in Target, Complete(t)
  PROVE  Unexecuted' /\ LeafDone' /\ HostQ' /\ LeafTask'
  <1>1. PICK d : d = task[t].desc
    OBVIOUS
  <1>2. /\ d \in Desc /\ TargetOf[d[1]] = t /\ Working(t) /\ task[t].at = "execute"
        /\ task'[t].at = "release" /\ task'[t].desc = d
        /\ \A u \in Target \ {t} : task'[u] = task[u]
        /\ executed' = executed \cup {d}
        /\ running' = running /\ frame' = frame /\ job_q' = job_q
    BY <1>1, CompleteEffect
  <1>3. d \notin executed /\ frame[d[2]] > 0 /\ d[1] \in Node /\ d[2] \in Pipe /\ d = <<d[1], d[2]>>
    BY <1>1, <1>2, NoneIs DEF Expected, Unexecuted, FrameStarted
  <1>4. Unexecuted'
    BY <1>2, OwnDesc DEF Working, Expected, Unexecuted
  <1>5. LeafDone'
    BY <1>2 DEF Expected, LeafDone
  <1>6. HostQ'
    BY <1>2 DEF Expected, HostQ
  <1>7. d[1] \in LeafNodes => d \in running /\ d \notin Range(job_q["HOST"])
    BY <1>3, TypedIs DEF DataTypeOK, Expected, LeafDone, HostQ
  <1>8. LeafTask'
    BY <1>2, <1>7 DEF Expected, LeafTask, Releasing
  <1>. QED  BY <1>4, <1>5, <1>6, <1>8

(* The HOST is told once: the task goes on.                                  *)
LEMMA SendExpected ==
  ASSUME Typed, Expected, NEW t \in Target, SendComplete(t)
  PROVE  Unexecuted' /\ LeafDone' /\ HostQ' /\ LeafTask'
  <1>1. PICK d : d = task[t].desc
    OBVIOUS
  <1>2. /\ d \in Desc /\ TargetOf[d[1]] = t /\ task[t].at = "send_complete"
        /\ task'[t].at = "trigger_next" /\ task'[t].desc = d
        /\ \A u \in Target \ {t} : task'[u] = task[u]
        /\ executed' = executed /\ running' = running /\ frame' = frame
        /\ job_q["HOST"] \in Seq(Desc)
        /\ job_q'["HOST"] \in {job_q["HOST"], Append(job_q["HOST"], d)}
    BY <1>1, SendEffect
  <1>3. d[1] \in LeafNodes => d \in running /\ d \in executed /\ d \notin Range(job_q["HOST"])
    BY <1>1, <1>2 DEF Expected, LeafTask, Releasing
  <1>4. Unexecuted'
    BY <1>2 DEF Expected, Unexecuted, Working
  <1>5. LeafDone'
    BY <1>2 DEF Expected, LeafDone
  <1>8. LeafOnce(job_q'["HOST"]) /\ Range(job_q'["HOST"]) \subseteq Range(job_q["HOST"]) \cup {d}
    <2>2. Range(Append(job_q["HOST"], d)) = Range(job_q["HOST"]) \cup {d}
      BY <1>2, Appended
    <2>1. LeafOnce(Append(job_q["HOST"], d)) /\ LeafOnce(job_q["HOST"])
      BY <1>2, <1>3, LeafOnceKept DEF Expected, HostQ
    <2>. QED  BY <1>2, <2>1, <2>2
  <1>6. HostQ'
    BY <1>2, <1>3, <1>8 DEF Expected, HostQ
  <1>7. LeafTask'
    BY <1>2, <1>8, OwnDesc DEF Releasing, Expected, LeafTask
  <1>. QED  BY <1>4, <1>5, <1>6, <1>7

(* Calm steps change nothing of it.                                          *)
LEMMA CalmExpected ==
  ASSUME Typed, Expected, Calm
  PROVE  Unexecuted' /\ LeafDone' /\ HostQ' /\ LeafTask'
  <1>1. Unexecuted'
    BY DEF Calm, Takes, Expected, Unexecuted, Working
  <1>2. LeafDone'
    BY DEF Calm, Expected, LeafDone
  <1>3. HostQ'
    BY DEF Calm, Expected, HostQ
  <1>4. LeafTask'
    BY DEF Calm, Takes, Releasing, Expected, LeafTask
  <1>. QED  BY <1>1, <1>2, <1>3, <1>4

(* Initially nothing is placed. *)
LEMMA InitPlaced == Init => \A d : ~IsPlaced(d)
  <1>. SUFFICES ASSUME Init, NEW k \in Kinds, NEW x \in Of(k), NEW d \in Holds(k, x) PROVE FALSE
    BY DEF IsPlaced
  <1>1. \A t \in Target : job_q[t] = <<>> /\ task[t].at = "idle" /\ task[t].send = <<>> /\ task[t].retrigger = None
    BY DEF Init, TaskIdle
  <1>2. \A q \in DataRefQ : blocked_on[q] = <<>>
    BY DEF Init
  <1>3. (\A c \in Desc : blocked_node_id[c] = None) /\ (\A a \in App : app[a] = <<>>) /\ starting = <<>>
    BY DEF Init
  <1>. QED  BY <1>1, <1>2, <1>3, EmptyHasNone DEF Kinds, Of, Holds, Working

(* The completions under way are those that are expected.                    *)
LEMMA ExpectedInv == Spec => []Expected
  <1>1. Init => Expected
    <2>. SUFFICES ASSUME Init PROVE Expected
      OBVIOUS
    <2>1. job_q["HOST"] = <<>> /\ executed = {}
      BY DEF Init
    <2>2. \A t \in Target : task[t].at = "idle"
      BY DEF Init, TaskIdle
    <2>3. \A p \in Pipe : frame[p] = 0
      BY DEF Init
    <2>. QED  BY <2>1, <2>2, <2>3, InitPlaced, EmptyHasNone
              DEF Expected, FrameStarted, Unexecuted, LeafDone, HostQ, LeafOnce, LeafTask, Working, Releasing
  <1>2. Typed /\ Expected /\ [Next]_vars => Expected'
    BY CalmOrNot, CalmExpected, StartsExpected, HostExpected, CompleteExpected, SendExpected,
       FrameStartedKept DEF Expected
  <1>. QED  BY <1>1, <1>2, TypedInv, PTL DEF Spec

(* The HOST hears of each leaf node of an execution once, and not before it ran. *)
THEOREM LeavesToldOnce == Spec => []LeafToldOnce
  <1>1. Expected => LeafToldOnce
    BY DEF Expected, HostQ, LeafOnce, LeafToldOnce, Range
  <1>. QED  BY <1>1, ExpectedInv, PTL

-----------------------------------------------------------------------------
(* A descriptor is triggered once. *)

Injective ==
  /\ \A t \in Target : IsInjective(job_q[t]) /\ IsInjective(task[t].send)
  /\ \A a \in App : IsInjective(app[a])
  /\ \A q \in DataRefQ : IsInjective(blocked_on[q])

(* The two halves: once in a place, and in one place.                        *)
LEMMA OnceIs == TriggeredOnce <=> Injective /\ IsInjective(starting) /\ Disjoint
  BY DEF TriggeredOnce, Injective, Disjoint

(* Two places that hold one descriptor are the same place. *)
LEMMA Apart ==
  ASSUME Disjoint, NEW k \in Kinds, NEW l \in Kinds, NEW x \in Of(k), NEW y \in Of(l),
         k # l \/ x # y, NEW d, d \in Holds(k, x)
  PROVE  d \notin Holds(l, y)
  BY DEF Disjoint

(* It is enough to look at the sequences that change.                        *)
LEMMA InjectiveKept ==
  ASSUME Injective,
         \A t \in Target : IsInjective(job_q'[t]) \/ job_q'[t] = job_q[t],
         \A t \in Target : IsInjective(task'[t].send) \/ task'[t].send = task[t].send,
         \A a \in App : IsInjective(app'[a]) \/ app'[a] = app[a],
         \A q \in DataRefQ : IsInjective(blocked_on'[q]) \/ blocked_on'[q] = blocked_on[q]
  PROVE  Injective'
  BY DEF Injective

(* What is to be triggered is what starts, one after the other. *)
LEMMA LaunchKept ==
  ASSUME SP!Inv, [Next]_vars
  PROVE  starting' = starting \/ KernelSchedule \/ \E k \in Nat : Starts(k)
  <1>1. ASSUME NEW t \in Target, TargetTask(t) PROVE launch' = launch
    BY Zenon, <1>1 DEF TargetTask, Take, Acquire, Complete, TaskTrigger, Release, SendComplete, TriggerNext
  <1>2. HostPops \/ Dequeue \/ UNCHANGED vars => launch' = launch
    BY Zenon DEF HostPops, HostCompletes, HostNotifies, Dequeue, DequeueDoneRef, vars
  <1>3. \A a \in App : (\E q \in GraphParam, r \in Ref : EnqueueReadyRef(a, q, r)) \/ AppTrigger(a) => launch' = launch
    BY Zenon DEF EnqueueReadyRef, AppTrigger
  <1>4. ASSUME NEW a \in App, AppStep(a) PROVE launch' = launch \/ \E k \in Nat : Starts(k)
    BY <1>4, <1>3, StartsIs DEF AppStep
  <1>5. Host \/ UNCHANGED vars => launch' = launch \/ \E k \in Nat : Starts(k)
    BY <1>2, StartsIs DEF Host, HostPops
  <1>. QED  BY <1>1, <1>2, <1>4, <1>5 DEF Next, launch

(* The head nodes of a start are different descriptors. *)
LEMMA OnceKept ==
  ASSUME Typed, TriggeredOnce, [Next]_vars, Disjoint', Injective'
  PROVE  TriggeredOnce'
  <1>1. DataTypeOK /\ SP!Inv /\ IsInjective(starting)
    BY TypedIs, OnceIs
  <1>2. IsInjective(starting)'
    BY <1>1, LaunchKept, FirstHead, StartHeads DEF DataTypeOK
  <1>. QED  BY <1>2, OnceIs, PTL

(* A trigger of a descriptor that is not in a job queue. *)
LEMMA TriggerOnce ==
  ASSUME JobsOK(job_q), Injective, NEW d \in Desc, job_q' = Trigger(job_q, d),
         \A t \in Target : d \notin Range(job_q[t])
  PROVE  \A t \in Target : IsInjective(job_q'[t])
  BY Triggered DEF Injective

(* No step puts a descriptor into a sequence twice.                          *)
LEMMA EnqueueInjective ==
  ASSUME Typed, TriggeredOnce, NEW a \in App, NEW q \in GraphParam, NEW r \in Ref, EnqueueReadyRef(a, q, r)
  PROVE  Injective'
  <1>1. DataTypeOK /\ q \in DataRefQ /\ Injective
    BY TypedIs, RefAssumption, OnceIs
  <1>2. /\ app' = [app EXCEPT ![a] = blocked_on[q]] /\ blocked_on' = [blocked_on EXCEPT ![q] = <<>>]
        /\ job_q' = job_q /\ task' = task
    BY DEF EnqueueReadyRef, Extract, nodes
  <1>3. /\ app'[a] = blocked_on[q] /\ blocked_on'[q] = <<>>
        /\ \A b \in App \ {a} : app'[b] = app[b]
        /\ \A s \in DataRefQ \ {q} : blocked_on'[s] = blocked_on[s]
    BY <1>1, <1>2 DEF DataTypeOK
  <1>4. IsInjective(app'[a]) /\ IsInjective(blocked_on'[q])
    BY <1>1, <1>3, EmptyHasNone DEF Injective
  <1>. QED  BY <1>1, <1>2, <1>3, <1>4, InjectiveKept

LEMMA AppTriggerInjective ==
  ASSUME Typed, TriggeredOnce, NEW a \in App, AppTrigger(a)
  PROVE  Injective'
  <1>1. DataTypeOK /\ Injective /\ Disjoint /\ JobsOK(job_q)
    BY TypedIs, OnceIs DEF DataTypeOK
  <1>2. /\ app[a] \in Seq(Desc) /\ app[a] # <<>>
        /\ job_q' = Trigger(job_q, Head(app[a])) /\ app' = [app EXCEPT ![a] = Tail(app[a])]
        /\ task' = task /\ blocked_on' = blocked_on
    BY <1>1 DEF AppTrigger, DataTypeOK, refs
  <1>3. PICK d \in Desc : d = Head(app[a]) /\ d \in Range(app[a])
    BY <1>2, Removed
  <1>4. \A t \in Target : d \notin Range(job_q[t])
    BY <1>1, <1>3 DEF Disjoint, Kinds, Of, Holds
  <1>5. \A t \in Target : IsInjective(job_q'[t])
    BY <1>1, <1>2, <1>3, <1>4, TriggerOnce
  <1>6. IsInjective(Tail(app[a]))
    BY <1>1, <1>2, Removed DEF Injective
  <1>7. \A b \in App : IsInjective(app'[b]) \/ app'[b] = app[b]
    BY <1>1, <1>2, <1>6 DEF DataTypeOK
  <1>. QED  BY <1>1, <1>2, <1>5, <1>7, InjectiveKept

LEMMA TakeInjective ==
  ASSUME Typed, TriggeredOnce, NEW t \in Target, Take(t)
  PROVE  Injective'
  <1>1. DataTypeOK /\ TasksShaped /\ Injective
    BY TypedIs, OnceIs
  <1>2. /\ job_q[t] \in Seq(Desc) /\ job_q[t] # <<>>
        /\ job_q'[t] = Tail(job_q[t]) /\ \A u \in Target \ {t} : job_q'[u] = job_q[u]
        /\ app' = app /\ blocked_on' = blocked_on
    BY <1>1 DEF Take, DataTypeOK, JobsOK, Jobs, refs
  <1>3. IsInjective(Tail(job_q[t]))
    BY <1>1, <1>2, Removed DEF Injective
  <1>4. PICK d : d = Head(job_q[t])
    OBVIOUS
  <1>5. task' = task \/ TaskTo(t, "acquire", d, 1, <<>>, <<>>, None)
    BY <1>1, <1>4, TakeTask DEF DataTypeOK
  <1>6. \A u \in Target : IsInjective(task'[u].send) \/ task'[u].send = task[u].send
    <2>1. CASE TaskTo(t, "acquire", d, 1, <<>>, <<>>, None)
      <3>1. task'[t].send = <<>> /\ \A u \in Target \ {t} : task'[u] = task[u]
        BY <1>1, <2>1, TaskToIs DEF DataTypeOK
      <3>. QED  BY <3>1, EmptyHasNone
    <2>. QED  BY <1>5, <2>1
  <1>. QED  BY <1>1, <1>2, <1>3, <1>6, InjectiveKept

LEMMA AcquireInjective ==
  ASSUME Typed, TriggeredOnce, NEW t \in Target, Acquire(t)
  PROVE  Injective'
  <1>1. DataTypeOK /\ TasksShaped /\ Injective /\ Disjoint
    BY TypedIs, OnceIs
  <1>2. PICK d, q : d = task[t].desc /\ q = Param[d[1]][task[t].i][1]
    BY Zenon
  <1>3. task[t].at = "acquire" /\ job_q' = job_q /\ app' = app
    BY Zenon DEF Acquire, At
  <1>4. d \in Desc /\ q \in DataRefQ /\ blocked_on[q] \in Seq(Desc)
    BY ZenonT(30), <1>1, <1>2, <1>3, Current DEF DataTypeOK
  <1>5. d \notin Range(blocked_on[q])
    BY <1>4, <1>2, <1>3, <1>1, Apart DEF Kinds, Of, Holds, Working
  <1>6. blocked_on' = blocked_on \/ blocked_on' = [blocked_on EXCEPT ![q] = Append(blocked_on[q], d)]
    BY ZenonT(30), <1>1, <1>2, <1>4 DEF Acquire, DataTypeOK
  <1>7. IsInjective(Append(blocked_on[q], d))
    BY <1>1, <1>4, <1>5, Appended DEF Injective
  <1>8. \A s \in DataRefQ : IsInjective(blocked_on'[s]) \/ blocked_on'[s] = blocked_on[s]
    BY <1>1, <1>4, <1>6, <1>7 DEF DataTypeOK
  <1>9. PICK at, e, i, prm, retrigger : TaskTo(t, at, e, i, prm, <<>>, retrigger)
    <2>1. PICK c, r : c = data_ref_q[q][d[2]] /\ r = IF c.acquired THEN c.ref ELSE Head(acquire_q[q])
      BY Zenon
    <2>2. IF c.acquired \/ acquire_q[q] # <<>>
          THEN TaskTo(t, IF task[t].i = Len(Param[d[1]]) THEN "execute" ELSE "acquire",
                      d, task[t].i + 1, Append(task[t].prm, r), <<>>, None)
          ELSE TaskTo(t, "idle", None, 0, <<>>, <<>>, None)
      BY Zenon, <1>1, <1>2, <2>1, AcquireTask DEF DataTypeOK
    <2>. QED  BY <2>2
  <1>10. task'[t].send = <<>> /\ \A u \in Target \ {t} : task'[u] = task[u]
    BY <1>1, <1>9, TaskToIs DEF DataTypeOK
  <1>. QED  BY <1>1, <1>3, <1>8, <1>10, EmptyHasNone, InjectiveKept

LEMMA CompleteInjective ==
  ASSUME Typed, TriggeredOnce, NEW t \in Target, Complete(t) \/ SendComplete(t)
  PROVE  Injective'
  <1>1. DataTypeOK /\ TasksShaped /\ Injective
    BY TypedIs, OnceIs
  <1>2. PICK at, e, i, prm, retrigger : TaskTo(t, at, e, i, prm, <<>>, retrigger)
    BY <1>1, CompleteTask, SendCompleteTask DEF DataTypeOK
  <1>3. task'[t].send = <<>> /\ \A u \in Target \ {t} : task'[u] = task[u]
    BY SMTT(30), <1>1, <1>2, TaskToIs DEF DataTypeOK
  <1>4. app' = app /\ blocked_on' = blocked_on
    BY DEF Complete, SendComplete, refs
  <1>5. \A u \in Target : job_q'[u] = job_q[u]
    <2>1. CASE Complete(t)
      BY <2>1 DEF Complete
    <2>2. CASE SendComplete(t)
      <3>1. "HOST" \in Jobs /\ "HOST" \notin Target /\ task[t].desc \in Desc
        BY <1>1, <2>2, Targets DEF Jobs, SendComplete, At, TasksShaped, Shaped
      <3>2. \A u \in Target : Put(job_q, "HOST", task[t].desc)[u] = job_q[u]
        BY <1>1, <3>1, PutIs DEF DataTypeOK, Jobs
      <3>. QED  BY <2>2, <3>2 DEF SendComplete
    <2>. QED  BY SMTT(30), <2>1, <2>2
  <1>. QED  BY <1>1, <1>3, <1>4, <1>5, EmptyHasNone, InjectiveKept

LEMMA TaskTriggerInjective ==
  ASSUME Typed, TriggeredOnce, NEW t \in Target, TaskTrigger(t)
  PROVE  Injective'
  <1>1. DataTypeOK /\ TasksShaped /\ Injective /\ Disjoint /\ JobsOK(job_q)
    BY TypedIs, OnceIs DEF DataTypeOK
  <1>2. PICK s : s = task[t].send
    OBVIOUS
  <1>3. s \in Seq(Desc) /\ s # <<>> /\ job_q' = Trigger(job_q, Head(s)) /\ app' = app /\ blocked_on' = blocked_on
    BY <1>1, <1>2, TaskFields DEF TaskTrigger, DataTypeOK, refs
  <1>4. PICK d \in Desc : d = Head(s) /\ d \in Range(s)
    BY <1>3, Removed
  <1>5. \A u \in Target : d \notin Range(job_q[u])
    BY <1>1, <1>2, <1>4 DEF Disjoint, Kinds, Of, Holds
  <1>6. \A u \in Target : IsInjective(job_q'[u])
    BY <1>1, <1>3, <1>4, <1>5, TriggerOnce
  <1>7. IsInjective(s) /\ IsInjective(Tail(s))
    BY <1>1, <1>2, <1>3, Removed DEF Injective
  <1>8. PICK at, e, i, prm, rest, retrigger : rest = Tail(s) /\ TaskTo(t, at, e, i, prm, rest, retrigger)
    BY <1>1, <1>2, TaskTriggerTask DEF DataTypeOK
  <1>9. task'[t].send = rest /\ \A u \in Target \ {t} : task'[u] = task[u]
    <2>1. TaskTo(t, at, e, i, prm, rest, retrigger) /\ task \in [Target -> Task]
      BY <1>1, <1>8 DEF DataTypeOK
    <2>. QED  BY <1>1, <2>1, TaskToIs
  <1>. QED  BY <1>1, <1>3, <1>6, <1>7, <1>8, <1>9, InjectiveKept

LEMMA ReleaseInjective ==
  ASSUME Typed, TriggeredOnce, NEW t \in Target, Release(t)
  PROVE  Injective'
  <1>1. DataTypeOK /\ TasksShaped /\ Injective
    BY TypedIs, OnceIs
  <1>2. job_q' = job_q /\ app' = app
    BY Zenon DEF Release
  <1>3. PICK q, at, i, send :
          /\ q \in DataRefQ
          /\ send = blocked_on[q] \/ send = <<>>
          /\ blocked_on' = blocked_on \/ blocked_on' = [blocked_on EXCEPT ![q] = <<>>]
          /\ TaskTo(t, at, task[t].desc, i, task[t].prm, send, task[t].retrigger)
    <2>1. PICK k, d, q, input, r, users, e, to_queue :
             /\ k = task[t] /\ d = k.desc /\ q = Param[d[1]][k.i][1] /\ input = Param[d[1]][k.i][2]
             /\ r = k.prm[k.i] /\ users = Cardinality(Consumers(q)) /\ e = data_ref_q[q][d[2]]
             /\ to_queue = IF input THEN ref_done[r] + 1 = users ELSE users = 0
      OBVIOUS
    <2>2. /\ q \in DataRefQ
          /\ Released1(t, q, d[2], r, input, users, e, to_queue)
          /\ TaskTo(t, IF k.i = Len(Param[d[1]]) THEN "send_complete" ELSE "release", d, k.i + 1, k.prm,
                    IF to_queue /\ q \notin GraphParam THEN blocked_on[q] ELSE <<>>, k.retrigger)
      BY ZenonT(30), <2>1, ReleaseIs
    <2>3. blocked_on' = blocked_on \/ blocked_on' = [blocked_on EXCEPT ![q] = <<>>]
      BY <2>2 DEF Released1
    <2>. QED  BY ZenonT(30), <2>1, <2>2, <2>3
  <1>4. task'[t].send = send /\ \A u \in Target \ {t} : task'[u] = task[u]
    BY <1>1, <1>3, TaskToIs DEF DataTypeOK
  <1>5. \A u \in Target : IsInjective(task'[u].send) \/ task'[u].send = task[u].send
    BY <1>1, <1>3, <1>4, EmptyHasNone DEF Injective
  <1>6. \A s \in DataRefQ : IsInjective(blocked_on'[s]) \/ blocked_on'[s] = blocked_on[s]
    BY <1>1, <1>3, EmptyHasNone DEF DataTypeOK
  <1>. QED  BY Zenon, <1>1, <1>2, <1>5, <1>6, InjectiveKept

LEMMA TriggerNextInjective ==
  ASSUME Typed, TriggeredOnce, NEW t \in Target, TriggerNext(t),
         task[t].i <= Len(Successors(task[t].desc[1])) =>
           ~IsPlaced(<<Successors(task[t].desc[1])[task[t].i], task[t].desc[2]>>)
  PROVE  Injective'
  <1>1. DataTypeOK /\ TasksShaped /\ Injective /\ Disjoint /\ JobsOK(job_q)
    BY TypedIs, OnceIs DEF DataTypeOK
  <1>2. PICK k, p, next : k = task[t] /\ next = Successors(k.desc[1]) /\ p = k.desc[2]
    OBVIOUS
  <1>3. /\ k.at = "trigger_next" /\ k.send = <<>>
        /\ k.i <= Len(next) => TaskTo(t, "trigger_next", k.desc, k.i + 1, k.prm, <<>>, k.retrigger)
        /\ k.i > Len(next) => TaskTo(t, "idle", None, 0, <<>>, <<>>, None)
        /\ k.i <= Len(next) \/ k.i > Len(next)
    BY <1>1, <1>2, TriggerNextTask DEF DataTypeOK
  <1>4. PICK at, d, i, prm, retrigger : TaskTo(t, at, d, i, prm, <<>>, retrigger)
    BY <1>3
  <1>5. task'[t].send = <<>> /\ \A u \in Target \ {t} : task'[u] = task[u]
    BY <1>1, <1>4, TaskToIs DEF DataTypeOK
  <1>6. app' = app /\ blocked_on' = blocked_on
    BY DEF TriggerNext, refs
  <1>7. job_q' = job_q \/ \E c \in Desc : job_q' = Trigger(job_q, c) /\ \A u \in Target : c \notin Range(job_q[u])
    BY <1>2, NextTrigger, <1>1, <1>3 DEF IsPlaced, Kinds, Of, Holds, Disjoint
  <1>8. \A u \in Target : IsInjective(job_q'[u]) \/ job_q'[u] = job_q[u]
    BY <1>1, <1>7, TriggerOnce
  <1>. QED  BY <1>1, <1>5, <1>6, <1>8, EmptyHasNone, InjectiveKept

LEMMA KernelInjective ==
  ASSUME Typed, TriggeredOnce, KernelSchedule
  PROVE  Injective'
  <1>1. DataTypeOK /\ Injective /\ Disjoint /\ JobsOK(job_q) /\ starting \in Seq(Desc)
    BY TypedIs, OnceIs DEF DataTypeOK
  <1>2. PICK d \in Desc : d \in Range(starting) /\ job_q' = Trigger(job_q, d)
    BY <1>1, FirstHead
  <1>3. \A t \in Target : d \notin Range(job_q[t])
    BY <1>1, <1>2, Apart DEF Kinds, Of, Holds
  <1>. QED  BY <1>1, <1>2, <1>3, TriggerOnce, InjectiveKept DEF KernelSchedule, refs

(* Nor do the HOST and a dequeue.                                            *)
LEMMA QuietInjective ==
  ASSUME Typed, TriggeredOnce, Dequeue \/ HostPops \/ UNCHANGED vars
  PROVE  Injective'
  <1>1. /\ task' = task /\ app' = app /\ blocked_on' = blocked_on
        /\ \A t \in Target : job_q'[t] = job_q[t]
    BY Targets, TypedIs DEF Dequeue, DequeueDoneRef, HostPops, HostCompletes, HostNotifies, vars, refs, DataTypeOK, JobsOK, Jobs
  <1>. QED  BY <1>1, OnceIs, InjectiveKept

(***************************************************************************)
(* The nodes that feed one node run on one target.  Otherwise two tasks    *)
(* that end at the same time can both find the node ready and trigger it   *)
(* twice (vx_target.c:260), which the run join_order shows.                *)
(***************************************************************************)
SamePredTarget == \A m \in Node : \A n1, n2 \in InNodes(m) : TargetOf[n1] = TargetOf[n2]

(* What is placed has yet to run, and all it needs has run. *)
PlacedReady == \A d \in Desc : IsPlaced(d) => d \notin executed /\ CanNodeExecute(d[1], d[2])

(* What has run had what it needs. *)
ExecutedClosed == \A d \in executed : CanNodeExecute(d[1], d[2])

(* The successors that a task has yet to look at. *)
Pending(t) ==
  LET next == Successors(task[t].desc[1])
  IN CASE Releasing(t) -> OutNodes(task[t].desc[1])
       [] task[t].at = "trigger_next" -> {next[j] : j \in task[t].i .. Len(next)}
       [] OTHER -> {}

ToTrigger(t) == Pending(t) \X {task[t].desc[2]}

(* They have not been triggered by anyone else, and the task's own node has run. *)
TriggerFresh ==
  \A t \in Target : \A d \in ToTrigger(t) :
    d \notin executed /\ ~IsPlaced(d) /\ task[t].desc \in executed

Ready == TriggeredOnce /\ PlacedReady /\ ExecutedClosed /\ TriggerFresh

(* The test whether a node can run, read as a set.                           *)
LEMMA CanRun == \A m, p : CanNodeExecute(m, p) <=> \A n \in InNodes(m) : <<n, p>> \in executed
  BY DEF CanNodeExecute

(* What a task has yet to trigger are successors of its descriptor.          *)
LEMMA ToTriggerIs ==
  ASSUME Typed, NEW t \in Target, NEW d \in ToTrigger(t)
  PROVE  /\ d \in Desc /\ task[t].desc \in Desc /\ TargetOf[task[t].desc[1]] = t /\ task[t].at # "idle"
         /\ d[2] = task[t].desc[2] /\ d[1] \in OutNodes(task[t].desc[1]) /\ task[t].desc[1] \in InNodes(d[1])
         /\ d = <<d[1], d[2]>>
  <1>1. task[t].at # "idle" /\ d[1] \in Pending(t) /\ d = <<d[1], d[2]>> /\ d[2] = task[t].desc[2]
    BY DEF ToTrigger, Pending, Releasing
  <1>2. task[t].desc \in Desc /\ TargetOf[task[t].desc[1]] = t
    BY <1>1, OwnDesc
  <1>3. task[t].desc[1] \in Node /\ task[t].desc[2] \in Pipe
    BY <1>2, NoneIs
  <1>4. d[1] \in OutNodes(task[t].desc[1])
    <2>1. CASE Releasing(t)
      BY <1>1, <2>1 DEF Pending, Releasing
    <2>2. CASE ~Releasing(t)
      BY <1>3, SuccessorsIs, <1>1, <2>2, TypedIs, TaskFields DEF Pending, DataTypeOK,
         TasksShaped, Shaped, Range
    <2>. QED  BY <2>1, <2>2
  <1>5. d[1] \in Node /\ task[t].desc[1] \in InNodes(d[1])
    BY <1>4 DEF OutNodes
  <1>. QED  BY <1>1, <1>2, <1>3, <1>4, <1>5 DEF Desc

(* One task at a time has a descriptor to trigger. *)
LEMMA OneTrigger ==
  ASSUME SamePredTarget, Typed, NEW t \in Target, NEW u \in Target, NEW d \in ToTrigger(t), d \in ToTrigger(u)
  PROVE  t = u
  BY ToTriggerIs, NoneIs DEF SamePredTarget

(* What a task has to trigger, it had to trigger before, or it has just run its node. *)
LEMMA ToTriggerKept ==
  ASSUME Typed, [Next]_vars, NEW t \in Target, ~Complete(t)
  PROVE  /\ ToTrigger(t)' \subseteq ToTrigger(t)
         /\ ToTrigger(t)' # {} => task'[t].desc = task[t].desc
  <1>1. ASSUME task'[t].at # "idle" /\ task[t].at # "idle" /\ task'[t].desc = task[t].desc,
               Working(t)' <=> Working(t),
               Releasing(t)' <=> Releasing(t),
               task'[t].at = "trigger_next" => task'[t].i \in {task[t].i, task[t].i + 1}
        PROVE  ToTrigger(t)' \subseteq ToTrigger(t)
    <2>1. CASE Releasing(t)
      BY <1>1, <2>1 DEF ToTrigger, Pending, Releasing
    <2>2. CASE Working(t)
      BY <1>1, <2>2 DEF Working, Releasing, Pending, ToTrigger
    <2>3. CASE ~Releasing(t) /\ ~Working(t)
      <3>1. PICK next, d, i : next = Successors(task[t].desc[1]) /\ d = task[t].desc /\ i = task[t].i /\ i \in Nat /\ Len(next) \in Nat
        BY <1>1, OwnDesc, NoneIs, SuccessorsIs, TaskFields, TypedIs DEF DataTypeOK
      <3>2. task[t].at = "trigger_next" /\ ~Releasing(t)'
        BY <1>1, <2>3, TaskFields, TypedIs DEF Working, Releasing, DataTypeOK
      <3>3. Pending(t) = {next[j] : j \in i .. Len(next)}
        BY <2>3, <3>1, <3>2 DEF Pending
      <3>4. Pending(t)' \subseteq {next[j] : j \in i .. Len(next)}
        BY <3>2, <1>1, <3>1 DEF Pending, Successors
      <3>. QED  BY <1>1, <3>3, <3>4 DEF ToTrigger
    <2>. QED  BY <2>1, <2>2, <2>3
  <1>2. ASSUME task'[t].at \in {"idle", "acquire"} PROVE ToTrigger(t)' = {}
    BY <1>2 DEF Pending, Releasing, ToTrigger
  <1>3. CASE Calm
    BY <1>1, <1>2, <1>3 DEF Calm, Takes
  <1>4. CASE task'[t] = task[t]
    BY <1>4 DEF ToTrigger, Pending, Releasing
  <1>5. CASE SendComplete(t)
    BY <1>5, SendEffect, NoneIs, SuccessorsIs DEF Pending, Releasing, Successors, ToTrigger,
       Range
  <1>. QED
    BY CalmOrNot, StartsEffect, HostEffect, CompleteEffect, SendEffect, <1>3, <1>4, <1>5

(* An execution that is over has run every node. *)
LEMMA IdleDone ==
  ASSUME Typed, Expected, ExecutedClosed, NEW p \in Pipe,
         \A l \in LeafNodes : <<l, p>> \notin running, frame[p] # 0
  PROVE  \A n \in Node : <<n, p>> \in executed
  <1>. DEFINE X == {n \in Node : <<n, p>> \notin executed}
  <1>1. SUFFICES ASSUME X # {} PROVE FALSE
    OBVIOUS
  <1>2. PICK n \in X : OutNodes(n) \cap X = {}
    BY <1>1, GraphAssumption
  <1>3. n \notin LeafNodes
    BY <1>2 DEF Expected, LeafDone
  <1>4. PICK m \in OutNodes(n) : TRUE
    BY <1>2, <1>3 DEF LeafNodes
  <1>5. m \in Node /\ <<m, p>> \in executed /\ n \in InNodes(m)
    BY <1>2, <1>4 DEF OutNodes
  <1>6. CanNodeExecute(<<m, p>>[1], <<m, p>>[2])
    BY <1>5 DEF ExecutedClosed
  <1>. QED  BY <1>2, <1>5, <1>6, CanRun

(* Where nothing is placed nothing is placed twice.                          *)
LEMMA NoneDisjoint ==
  ASSUME Disjoint, GainsNone
  PROVE  Disjoint'
  BY DEF GainsNone, Gains, Disjoint, Kinds, Of

(* A step other than a start or the trigger of a successor keeps the places apart. *)
LEMMA OthersDisjoint ==
  ASSUME Typed, TriggeredOnce,
         \/ \E a \in App, q \in GraphParam, r \in Ref : EnqueueReadyRef(a, q, r)
         \/ \E a \in App : AppTrigger(a)
         \/ Dequeue
         \/ HostPops
         \/ KernelSchedule
         \/ \E t \in Target : \/ Take(t) \/ Acquire(t) \/ Complete(t) \/ TaskTrigger(t)
                              \/ Release(t) \/ SendComplete(t)
         \/ UNCHANGED vars
  PROVE  Disjoint' /\ Injective'
  <1>1. Disjoint
    BY OnceIs
  <1>2. ASSUME NEW X, NEW k, NEW x, NEW l, NEW y, Moves(X, k, x, l, y) PROVE Disjoint'
    BY <1>2, MovesDisjoint
  <1>3. ASSUME GainsNone PROVE Disjoint'
    BY <1>1, <1>3, NoneDisjoint
  <1>4. CASE \E a \in App, q \in GraphParam, r \in Ref : EnqueueReadyRef(a, q, r)
    BY <1>2, <1>4, EnqueueMoves, EnqueueInjective
  <1>5. CASE \E a \in App : AppTrigger(a)
    BY <1>2, <1>5, AppTriggerMoves, AppTriggerInjective
  <1>6. CASE Dequeue \/ HostPops
    BY <1>3, <1>6, QuietGains, QuietInjective DEF HostPops
  <1>14. CASE KernelSchedule
    BY <1>2, <1>14, KernelMoves, KernelInjective
  <1>7. ASSUME NEW t \in Target, Take(t) PROVE Disjoint' /\ Injective'
    BY <1>2, <1>3, <1>7, TakeMoves, TakeInjective
  <1>8. ASSUME NEW t \in Target, Acquire(t) PROVE Disjoint' /\ Injective'
    BY Zenon, <1>2, <1>3, <1>8, AcquireMoves, AcquireInjective
  <1>9. ASSUME NEW t \in Target, Complete(t) PROVE Disjoint' /\ Injective'
    BY <1>2, <1>9, CompleteMoves, CompleteInjective
  <1>10. ASSUME NEW t \in Target, TaskTrigger(t) PROVE Disjoint' /\ Injective'
    BY <1>2, <1>10, TaskTriggerMoves, TaskTriggerInjective
  <1>11. ASSUME NEW t \in Target, Release(t) PROVE Disjoint' /\ Injective'
    BY <1>2, <1>3, <1>11, ReleaseMoves, ReleaseInjective
  <1>12. ASSUME NEW t \in Target, SendComplete(t) PROVE Disjoint' /\ Injective'
    BY <1>3, <1>12, SendCompleteGains, CompleteInjective
  <1>13. CASE UNCHANGED vars
    BY <1>13, GainsIs, <1>3, QuietInjective DEF GainsNone, vars, launch, nodes, refs, Working
  <1>. QED  BY <1>4, <1>5, <1>6, <1>7, <1>8, <1>9, <1>10, <1>11, <1>12, <1>13, <1>14

(* A step that places nothing new and runs nothing. *)
LEMMA ReadyQuiet ==
  ASSUME Typed, Ready, [Next]_vars, executed' = executed, \A t \in Target : ~Complete(t),
         \A d \in Desc : IsPlaced(d)' => IsPlaced(d), Disjoint', Injective'
  PROVE  Ready'
  BY OnceKept, ToTriggerKept, ToTriggerIs DEF Ready, PlacedReady, CanNodeExecute,
     ExecutedClosed, TriggerFresh

(* The pipeline ids started are at rest: nothing of them is placed.          *)
LEMMA StartsReady ==
  ASSUME Typed, Expected, Ready, NEW k \in Nat, Starts(k), [Next]_vars
  PROVE  Ready'
  <1>1. /\ task' = task /\ Taken(k) \subseteq Pipe
        /\ \A d \in running : d[2] \notin Taken(k)
        /\ executed' = {d \in executed : d[2] \notin Taken(k)}
        /\ \A p \in Pipe : IF p \in Taken(k) THEN frame'[p] > 0 ELSE frame'[p] = frame[p]
    BY StartsEffect
  <1>2. ASSUME NEW p \in Taken(k), frame[p] # 0 PROVE \A n \in Node : <<n, p>> \in executed
    BY <1>1, <1>2, IdleDone DEF Ready
  <1>3. ASSUME NEW d \in Desc, d[2] \in Taken(k) PROVE ~IsPlaced(d)
    <2>1. frame[d[2]] # 0 => d \in executed
      BY <1>2, <1>3, NoneIs
    <2>2. IsPlaced(d) => frame[d[2]] > 0 /\ d \notin executed
      BY DEF Expected, FrameStarted, Ready, PlacedReady
    <2>3. frame[d[2]] \in Nat
      BY <1>3, <1>1, TypedIs DEF DataTypeOK
    <2>. QED  BY <2>1, <2>2, <2>3
  <1>4. ASSUME NEW t \in Target, NEW d \in ToTrigger(t) PROVE d[2] \notin Taken(k)
    <2>1. /\ task[t].at # "idle" /\ d[2] = task[t].desc[2] /\ d \in Desc /\ d = <<d[1], d[2]>> /\ d[1] \in Node
      BY ToTriggerIs, NoneIs
    <2>2. frame[d[2]] > 0 /\ frame[d[2]] \in Nat /\ d \notin executed
      BY <2>1, NoneIs, TypedIs DEF Expected, FrameStarted, Ready, TriggerFresh, DataTypeOK
    <2>. QED  BY <1>2, <2>1, <2>2
  <1>5. \A m \in Kinds : \A z \in Of(m) :
          Holds(m, z)' \subseteq Holds(m, z) \cup
             (IF m = "start" /\ z = "graph" THEN HeadNodes \X Taken(k) ELSE {})
    BY StartsGains DEF Gains
  <1>6. \A d \in HeadNodes \X Taken(k) : d \in Desc /\ d[2] \in Taken(k) /\ d[1] \in HeadNodes
    BY <1>1 DEF HeadNodes, Desc
  <1>7. Disjoint'
    BY OnceIs, <1>5, <1>3, <1>6 DEF Disjoint, Kinds, Of, Ready, IsPlaced
  <1>8. Injective'
    BY TypedIs, OnceIs, <1>1, InjectiveKept DEF Ready, Starts, refs
  <1>9. TriggeredOnce'
    BY <1>7, <1>8, OnceKept DEF Ready
  <1>10. ASSUME NEW d \in Desc, IsPlaced(d)' PROVE d \in HeadNodes \X Taken(k) \/ IsPlaced(d)
    BY <1>10, <1>5 DEF IsPlaced, Kinds, Of
  <1>11. \A n \in Node, p \in Pipe \ Taken(k) : <<n, p>> \in executed' <=> <<n, p>> \in executed
    BY <1>1
  <1>12. \A m : InNodes(m) \subseteq Node
    BY DEF InNodes, Producers
  <1>13. PlacedReady'
    BY <1>1, <1>3, NoneIs, <1>11, <1>12, <1>10 DEF PlacedReady, HeadNodes, CanNodeExecute, Ready
  <1>14. ExecutedClosed'
    <2>. SUFFICES ASSUME NEW d \in executed' PROVE CanNodeExecute(d[1], d[2])'
      BY DEF ExecutedClosed
    <2>1. d \in executed /\ d[2] \notin Taken(k) /\ d[2] \in Pipe
      BY <1>1, TypedIs, NoneIs DEF DataTypeOK
    <2>. QED  BY <1>11, <1>12, <2>1 DEF Ready, ExecutedClosed, CanNodeExecute
  <1>15. TriggerFresh'
    BY <1>1, <1>4, ToTriggerIs, <1>10 DEF TriggerFresh, ToTrigger, Pending, Releasing, Ready
  <1>. QED  BY <1>9, <1>13, <1>14, <1>15 DEF Ready

(* A node does not feed itself. *)
LEMMA NoSelfLoop ==
  ASSUME NEW n \in Node
  PROVE  n \notin OutNodes(n) /\ n \notin InNodes(n)
  <1>1. OutNodes(n) \cap {n} = {}
    <2>1. {n} \in SUBSET Node /\ {n} # {}
      OBVIOUS
    <2>2. PICK m \in {n} : OutNodes(m) \cap {n} = {}
      BY <2>1, GraphAssumption
    <2>. QED  BY <2>2
  <1>. QED  BY <1>1 DEF OutNodes

(* A node that ran is the only one that can make its successors ready, as    *)
(* all that feed them run on its target.                                     *)
LEMMA CompleteReady ==
  ASSUME SamePredTarget, Typed, Expected, Ready, NEW t \in Target, Complete(t), [Next]_vars
  PROVE  Ready'
  <1>1. PICK d : d = task[t].desc
    OBVIOUS
  <1>2. /\ d \in Desc /\ TargetOf[d[1]] = t /\ Working(t) /\ task[t].at = "execute"
        /\ task'[t].at = "release" /\ task'[t].desc = d
        /\ \A u \in Target \ {t} : task'[u] = task[u]
        /\ executed' = executed \cup {d}
    BY <1>1, CompleteEffect
  <1>3. d[1] \in Node /\ d[2] \in Pipe /\ d = <<d[1], d[2]>>
    BY <1>2, NoneIs
  <1>4. Disjoint' /\ Injective'
    BY OthersDisjoint DEF Ready
  <1>5. PICK b : b = blocked_node_id[d]
    OBVIOUS
  <1>6. Moves({b} \ {None}, "behind", d, "retrigger", t) /\ Holds("task", t) = {d} /\ Holds("task", t)' = {}
    BY <1>1, <1>5, CompleteMoves
  <1>7. "task" \in Kinds /\ t \in Of("task") /\ IsPlaced(d)
    BY <1>6 DEF Kinds, Of, IsPlaced
  <1>8. d \notin executed /\ CanNodeExecute(d[1], d[2])
    BY <1>2, <1>7 DEF Ready, PlacedReady
  <1>9. \A c \in Desc : IsPlaced(c)' => IsPlaced(c)
    BY <1>6, MovesPlaced
  <1>10. ~IsPlaced(d)'
    <2>. SUFFICES ASSUME NEW m \in Kinds, NEW z \in Of(m), d \in Holds(m, z)' PROVE FALSE
      BY DEF IsPlaced, Kinds, Of
    <2>1. Disjoint /\ d \in Holds("task", t)
      BY <1>6, OnceIs DEF Ready
    <2>2. b # d
      BY <1>2, <1>7, <2>1, Apart, NoneIs, <1>5 DEF Kinds, Of, Holds
    <2>3. d \in Holds(m, z)
      BY <1>6, <2>2 DEF Moves, Gains
    <2>4. m = "task" /\ z = t
      BY <1>7, <2>1, <2>3 DEF Disjoint
    <2>. QED  BY <1>6, <2>4
  <1>11. TriggeredOnce'
    BY <1>4, OnceKept DEF Ready
  <1>12. PlacedReady'
    BY <1>9, <1>10, <1>2 DEF PlacedReady, Ready, CanNodeExecute
  <1>13. ExecutedClosed'
    <2>. SUFFICES ASSUME NEW c \in executed' PROVE CanNodeExecute(c[1], c[2])'
      BY DEF ExecutedClosed
    <2>1. CanNodeExecute(c[1], c[2])
      BY <1>2, <1>8 DEF Ready, ExecutedClosed
    <2>. QED  BY <1>2, <2>1 DEF CanNodeExecute
  <1>14. TriggerFresh'
    <2>. SUFFICES ASSUME NEW u \in Target, NEW c \in ToTrigger(u)'
                  PROVE  c \notin executed' /\ ~IsPlaced(c)' /\ task'[u].desc \in executed'
      BY DEF TriggerFresh
    <2>1. CASE u # t
      BY <1>2, <2>1, ToTriggerIs, <1>7, <1>9 DEF ToTrigger, Pending, Releasing, Ready,
         TriggerFresh
    <2>2. CASE u = t
      <3>1. Pending(t)' = OutNodes(d[1])
        BY <1>2 DEF Pending, Releasing
      <3>2. c[1] \in OutNodes(d[1]) /\ c = <<c[1], d[2]>>
        BY <1>2, <2>2, <3>1 DEF ToTrigger
      <3>3. c[1] \in Node /\ d[1] \in InNodes(c[1]) /\ c \in Desc /\ c[2] = d[2]
        BY <1>3, <3>2 DEF OutNodes, Desc
      <3>4. ~CanNodeExecute(c[1], c[2])
        BY <1>3, <1>8, <3>3, CanRun
      <3>5. c \notin executed /\ ~IsPlaced(c)
        BY <3>3, <3>4 DEF Ready, ExecutedClosed, PlacedReady
      <3>6. c # d
        BY SMTT(30), <1>3, <3>2, NoSelfLoop
      <3>. QED  BY <1>2, <1>9, <2>2, <3>3, <3>5, <3>6
    <2>. QED  BY <2>1, <2>2
  <1>. QED  BY <1>11, <1>12, <1>13, <1>14 DEF Ready

(* A successor that is triggered has no place yet.                           *)
LEMMA TriggerNextReady ==
  ASSUME SamePredTarget, Typed, Expected, Ready, NEW t \in Target, TriggerNext(t), [Next]_vars
  PROVE  Ready'
  <1>1. DataTypeOK /\ TasksShaped /\ Disjoint
    BY TypedIs, OnceIs DEF Ready
  <1>2. PICK k, d, next, p : k = task[t] /\ d = k.desc /\ next = Successors(d[1]) /\ p = d[2]
    OBVIOUS
  <1>3. /\ k.at = "trigger_next"
        /\ k.i <= Len(next) => TaskTo(t, "trigger_next", d, k.i + 1, k.prm, <<>>, k.retrigger)
    BY <1>1, <1>2, TriggerNextTask DEF DataTypeOK
  <1>4. k.i \in Nat \ {0} /\ Len(next) \in Nat /\ d \in Desc /\ d[1] \in Node
    BY <1>2, NextTrigger
  <1>5. executed' = executed /\ \A u \in Target : ~Complete(u)
    BY CompleteEffect DEF TriggerNext, nodes, Expected, Unexecuted
  <1>6. k.i <= Len(next) => <<next[k.i], p>> \in ToTrigger(t)
    BY <1>2, <1>3, <1>4 DEF Pending, Releasing, ToTrigger
  <1>7. k.i <= Len(next) => ~IsPlaced(<<next[k.i], p>>) /\ <<next[k.i], p>> \notin executed
    BY <1>6 DEF Ready, TriggerFresh
  <1>8. Injective'
    BY <1>2, <1>7, TriggerNextInjective DEF Ready
  <1>9. CASE GainsNone
    <2>1. Disjoint'
      BY <1>1, <1>9, NoneDisjoint
    <2>2. ASSUME NEW c \in Desc, IsPlaced(c)' PROVE IsPlaced(c)
      BY <2>2, <1>9 DEF IsPlaced, Kinds, Of, GainsNone, Gains
    <2>. QED  BY <1>5, <1>8, <2>1, <2>2, ReadyQuiet
  <1>10. ASSUME NEW X, NEW x, NEW g, NEW l, NEW y, Moves(X, g, x, l, y) PROVE Ready'
    BY <1>10, MovesDisjoint, MovesPlaced, <1>5, <1>8, ReadyQuiet DEF Ready
  <1>11. ASSUME k.i <= Len(next), CanNodeExecute(next[k.i], p),
                Gains({<<next[k.i], p>>}, "job", TargetOf[next[k.i]])
         PROVE  Ready'
    <2>1. PICK e, u : e = <<next[k.i], p>> /\ u = TargetOf[next[k.i]]
      OBVIOUS
    <2>2. /\ e \in ToTrigger(t) /\ ~IsPlaced(e) /\ e \notin executed /\ e \in Desc
          /\ CanNodeExecute(e[1], e[2]) /\ Gains({e}, "job", u)
      BY <1>6, <1>7, <1>11, <2>1, ToTriggerIs
    <2>3. \A m \in Kinds : \A z \in Of(m) : e \notin Holds(m, z)
      BY <2>2 DEF IsPlaced
    <2>4. \A m \in Kinds : \A z \in Of(m) : \A c : c \in Holds(m, z)' =>
             c \in Holds(m, z) \/ (c = e /\ m = "job" /\ z = u)
      BY <2>2 DEF Gains
    <2>5. \A m, n \in Kinds : \A z \in Of(m), w \in Of(n) :
            Holds(m, z)' \cap Holds(n, w)' # {} => m = n /\ z = w
      BY <2>3, <2>4, <1>1 DEF Disjoint
    <2>6. Disjoint'
      BY <2>5 DEF Disjoint, Kinds, Of
    <2>7. TriggeredOnce'
      BY <1>8, <2>6, OnceKept DEF Ready
    <2>8. \A c \in Desc : IsPlaced(c)' => IsPlaced(c) \/ c = e
      BY <2>4 DEF IsPlaced, Kinds, Of
    <2>9. PlacedReady'
      BY <1>5, <2>2, <2>8 DEF Ready, PlacedReady, CanNodeExecute
    <2>10. ExecutedClosed'
      BY <1>5 DEF Ready, ExecutedClosed, CanNodeExecute
    <2>11. TriggerFresh'
      <3>. SUFFICES ASSUME NEW v \in Target, NEW c \in ToTrigger(v)'
                    PROVE  c \notin executed' /\ ~IsPlaced(c)' /\ task'[v].desc \in executed'
        BY DEF TriggerFresh
      <3>1. c \in ToTrigger(v) /\ task'[v].desc = task[v].desc /\ c \in Desc
        BY <1>5, ToTriggerKept, ToTriggerIs
      <3>2. c \notin executed /\ ~IsPlaced(c) /\ task[v].desc \in executed
        BY <3>1 DEF Ready, TriggerFresh
      <3>3. c # e
        <4>1. CASE v # t
          BY <2>2, <3>1, <4>1, OneTrigger
        <4>2. CASE v = t
          <5>1. task'[t].at = "trigger_next" /\ task'[t].i = k.i + 1 /\ task'[t].desc = d
            BY <1>1, <1>3, <1>11, TaskToIs DEF DataTypeOK
          <5>2. Pending(t)' = {next[j] : j \in k.i + 1 .. Len(next)}
            BY <1>2, <5>1 DEF Pending, Releasing, Successors
          <5>3. PICK j \in k.i + 1 .. Len(next) : c[1] = next[j]
            BY <4>2, <5>2 DEF ToTrigger
          <5>4. IsInjective(next) /\ DOMAIN next = 1 .. Len(next)
            BY <1>2, <1>4, SuccessorsIs
          <5>5. j # k.i /\ j \in 1 .. Len(next) /\ k.i \in 1 .. Len(next)
            BY <1>4, <1>11
          <5>6. next[j] # next[k.i]
            BY <5>4, <5>5 DEF IsInjective
          <5>. QED  BY <2>1, <5>3, <5>6
        <4>. QED  BY <4>1, <4>2
      <3>. QED  BY <1>5, <2>8, <3>1, <3>2, <3>3
    <2>. QED  BY <2>7, <2>9, <2>10, <2>11 DEF Ready
  <1>. QED
    BY <1>2, TriggerNextMoves, <1>9, <1>10, <1>11

(* Every step keeps it.                                                      *)
LEMMA ReadyKept ==
  ASSUME SamePredTarget, Typed, Expected, Ready, [Next]_vars
  PROVE  Ready'
  <1>1. CASE \E k \in Nat : Starts(k)
    BY <1>1, StartsReady
  <1>2. CASE \E t \in Target : Complete(t)
    BY <1>2, CompleteReady
  <1>3. CASE \E t \in Target : TriggerNext(t)
    BY <1>3, TriggerNextReady
  <1>4. CASE ~(\E k \in Nat : Starts(k)) /\ ~(\E t \in Target : Complete(t)) /\ ~(\E t \in Target : TriggerNext(t))
    BY <1>4, Steps, OthersDisjoint, TypedIs, PlacedStep, CalmOrNot, HostEffect, SendEffect,
       ReadyQuiet DEF Ready, HostPops, Calm
  <1>. QED  BY <1>1, <1>2, <1>3, <1>4

(* At the start nothing is placed.                                           *)
LEMMA InitReady == Init => Ready
  <1>. SUFFICES ASSUME Init PROVE Ready
    OBVIOUS
  <1>1. \A d : ~IsPlaced(d)
    BY InitPlaced
  <1>2. \A t \in Target : job_q[t] = <<>> /\ task[t] = TaskIdle /\ task[t].send = <<>>
    BY DEF Init, TaskIdle
  <1>3. Injective
    BY <1>2, EmptyHasNone DEF Init, Injective
  <1>4. Disjoint
    BY <1>1 DEF Disjoint, IsPlaced
  <1>5. \A t \in Target : ToTrigger(t) = {}
    BY <1>2 DEF Pending, Releasing, TaskIdle, ToTrigger
  <1>6. executed = {} /\ IsInjective(starting)
    BY EmptyHasNone DEF Init
  <1>. QED  BY <1>1, <1>3, <1>4, <1>5, <1>6, OnceIs DEF Ready, PlacedReady, ExecutedClosed, TriggerFresh

(* If the nodes that feed one node share a target, a descriptor is in one place. *)
LEMMA ReadyInv ==
  ASSUME SamePredTarget
  PROVE  Spec => []Ready
  <1>1. Typed /\ Expected /\ Ready /\ [Next]_vars => Ready'
    BY ReadyKept
  <1>. QED  BY <1>1, InitReady, TypedInv, ExpectedInv, PTL DEF Spec

(* For every graph the nodes before a join of which share a target, every    *)
(* depth, and any number of targets, threads and references: a descriptor is *)
(* triggered once (ownTargetNodeDescTriggerNextNodes, vx_target.c:244), also *)
(* where threads and tasks unblock it.                                       *)
THEOREM TriggersOnce ==
  ASSUME SamePredTarget
  PROVE  Spec => []TriggeredOnce
  <1>1. Ready => TriggeredOnce
    BY DEF Ready
  <1>. QED  BY <1>1, ReadyInv, PTL

-----------------------------------------------------------------------------
(* A reference is in one place. *)

(* The data references that a task has yet to release. *)
ToRelease(t) ==
  LET d == task[t].desc
  IN IF task[t].at = "release"
     THEN {Param[d[1]][j][1] : j \in task[t].i .. Len(Param[d[1]])} ELSE {}

(* A node has run, and released the data reference. *)
Released(n, q, p) ==
  /\ <<n, p>> \in executed
  /\ ~(task[TargetOf[n]].desc = <<n, p>> /\ q \in ToRelease(TargetOf[n]))

(* The nodes that are to release a data reference before it goes back. *)
LastUsers(q) == IF Consumers(q) = {} THEN Producers(q) ELSE Consumers(q)

Done(q, p) == {c \in Consumers(q) : Released(c, q, p)}

(* An entry is acquired until the last of them has, in an execution that started. *)
EntryNeeded ==
  \A q \in DataRefQ, p \in Pipe : data_ref_q[q][p].acquired =>
    frame[p] > 0 /\ \E n \in LastUsers(q) : ~Released(n, q, p)

(* It and its reference count those that have. *)
EntryCounted ==
  \A q \in DataRefQ, p \in Pipe : data_ref_q[q][p].acquired =>
    /\ data_ref_q[q][p].done = Cardinality(Done(q, p))
    /\ ref_done[data_ref_q[q][p].ref] = data_ref_q[q][p].done

(* Once a producer has run or a consumer is done, it stays so until all are done. *)
EntryThere ==
  \A q \in DataRefQ, p \in Pipe :
    (\E n \in Producers(q) : <<n, p>> \in executed) \/ Done(q, p) # {} =>
      data_ref_q[q][p].acquired \/ Done(q, p) = Consumers(q)

(* The parameters that a task holds, by their number. *)
Held(t) ==
  IF Working(t) THEN 1 .. Len(task[t].prm)
  ELSE IF task[t].at = "release" THEN task[t].i .. Len(task[t].prm) ELSE {}

(* It holds what the entry of its pipeline id names. *)
EntryHeld ==
  \A t \in Target : \A j \in Held(t) :
    LET d == task[t].desc q == Param[d[1]][j][1]
    IN data_ref_q[q][d[2]].acquired /\ data_ref_q[q][d[2]].ref = task[t].prm[j]

(* The places of a reference of a data reference. *)
Locations == {"owned", "acquire", "release", "entry"}

IsAt(l, q, r) ==
  \/ l = "owned" /\ r \in owned
  \/ l = "acquire" /\ r \in Range(acquire_q[q])
  \/ l = "release" /\ q \in GraphParam /\ r \in Range(release_q[q])
  \/ l = "entry" /\ \E p \in Pipe : data_ref_q[q][p].acquired /\ data_ref_q[q][p].ref = r

OnePlace ==
  \A q \in DataRefQ : \A r \in Range(Buffers[q]) :
    \E l \in Locations : \A m \in Locations : IsAt(m, q, r) <=> m = l

(* A queue and the entries of a data reference hold its buffers, each once. *)
OwnBuffers ==
  \A q \in DataRefQ :
    /\ Range(acquire_q[q]) \subseteq Range(Buffers[q]) /\ IsInjective(acquire_q[q])
    /\ q \in GraphParam => Range(release_q[q]) \subseteq Range(Buffers[q]) /\ IsInjective(release_q[q])
    /\ \A p \in Pipe : data_ref_q[q][p].acquired => data_ref_q[q][p].ref \in Range(Buffers[q])
    /\ \A p, o \in Pipe : data_ref_q[q][p].acquired /\ data_ref_q[q][o].acquired
                          /\ data_ref_q[q][p].ref = data_ref_q[q][o].ref => p = o

RefsPlaced == EntryNeeded /\ EntryCounted /\ EntryThere /\ EntryHeld /\ OnePlace /\ OwnBuffers

-----------------------------------------------------------------------------

(* Producer and consumer of a queue are neighbours in the graph.             *)
LEMMA Feeds ==
  ASSUME NEW q \in DataRefQ, NEW m \in Producers(q), NEW c \in Consumers(q)
  PROVE  m \in InNodes(c) /\ c \in OutNodes(m) /\ m \in Node /\ c \in Node
  BY DEF InNodes, OutNodes, Producers, Consumers

(* The consumers are finitely many.                                          *)
LEMMA ConsumersIs ==
  ASSUME NEW q
  PROVE  IsFiniteSet(Consumers(q)) /\ Consumers(q) \subseteq Node /\ Cardinality(Consumers(q)) \in Nat
         /\ (Cardinality(Consumers(q)) = 0 <=> Consumers(q) = {})
  BY GraphAssumption, FS_Subset, FS_CardinalityType, FS_EmptySet DEF Consumers

(* A parameter of a node: the node consumes or produces the data reference. *)
LEMMA UserOf ==
  ASSUME NEW n \in Node, NEW i \in 1 .. Len(Param[n])
  PROVE  LET q == Param[n][i][1]
         IN  /\ q \in DataRefQ
             /\ Param[n][i][2] => n \in Consumers(q) /\ n \notin Producers(q)
             /\ ~Param[n][i][2] => n \in Producers(q) /\ n \notin Consumers(q)
             /\ \A j \in 1 .. Len(Param[n]) : Param[n][j][1] = q => j = i
  <1>1. /\ DOMAIN Param[n] = 1 .. Len(Param[n])
        /\ \A j \in 1 .. Len(Param[n]) : /\ Param[n][j][1] \in DataRefQ /\ Param[n][j][2] \in BOOLEAN
                                         /\ Param[n][j] = <<Param[n][j][1], Param[n][j][2]>>
        /\ \A j, h \in 1 .. Len(Param[n]) : Param[n][j][1] = Param[n][h][1] => j = h
    BY Parameters
  <1>2. PICK q, b : q = Param[n][i][1] /\ b = Param[n][i][2] /\ q \in DataRefQ /\ b \in BOOLEAN /\ Param[n][i] = <<q, b>>
    BY <1>1
  <1>3. \A j \in 1 .. Len(Param[n]) : Param[n][j][1] = q => j = i
    BY <1>1, <1>2
  <1>4. \A j \in 1 .. Len(Param[n]) : \A c : Param[n][j] = <<q, c>> => j = i /\ c = b
    BY <1>3, <1>2
  <1>5. b => n \in Consumers(q) /\ n \notin Producers(q)
    BY <1>2, <1>1, <1>4 DEF Consumers, Producers
  <1>6. ~b => n \in Producers(q) /\ n \notin Consumers(q)
    BY <1>2, <1>1, <1>4 DEF Consumers, Producers
  <1>. QED  BY <1>2, <1>3, <1>5, <1>6

(* A user of a data reference has it at a parameter. *)
LEMMA ParamOf ==
  ASSUME NEW q, NEW n, n \in Consumers(q) \/ n \in Producers(q)
  PROVE  n \in Node /\ \E i \in 1 .. Len(Param[n]) : Param[n][i][1] = q
  <1>1. n \in Node /\ \E i \in DOMAIN Param[n] : \E b : Param[n][i] = <<q, b>>
    BY DEF Consumers, Producers
  <1>. QED  BY <1>1, Parameters

(* One entry changes. *)
LEMMA OneEntry ==
  ASSUME DataTypeOK, NEW q \in DataRefQ, NEW p \in Pipe, NEW new, data_ref_q' = [data_ref_q EXCEPT ![q][p] = new]
  PROVE  /\ data_ref_q'[q][p] = new
         /\ \A s \in DataRefQ, o \in Pipe : s # q \/ o # p => data_ref_q'[s][o] = data_ref_q[s][o]
  BY DEF DataTypeOK

(* The buffers of different data references are different. *)
LEMMA OwnerOf ==
  ASSUME NEW q \in DataRefQ, NEW s \in DataRefQ, NEW r, r \in Range(Buffers[q]), r \in Range(Buffers[s])
  PROVE  q = s
  BY RefAssumption

(* A reference that an entry names is nowhere else, nor in another entry. *)
LEMMA EntryAlone ==
  ASSUME OnePlace, OwnBuffers, NEW q \in DataRefQ, NEW p \in Pipe, data_ref_q[q][p].acquired
  PROVE  LET r == data_ref_q[q][p].ref
         IN  /\ r \in Range(Buffers[q]) /\ r \notin owned /\ r \notin Range(acquire_q[q])
             /\ q \in GraphParam => r \notin Range(release_q[q])
             /\ \A s \in DataRefQ, o \in Pipe :
                  data_ref_q[s][o].acquired /\ data_ref_q[s][o].ref = r => s = q /\ o = p
  <1>1. PICK r : r = data_ref_q[q][p].ref
    OBVIOUS
  <1>2. r \in Range(Buffers[q])
    BY <1>1 DEF OwnBuffers
  <1>3. IsAt("entry", q, r)
    BY <1>1 DEF IsAt
  <1>4. ~IsAt("owned", q, r) /\ ~IsAt("acquire", q, r) /\ ~IsAt("release", q, r)
    BY <1>2, <1>3 DEF OnePlace, Locations
  <1>5. ASSUME NEW s \in DataRefQ, NEW o \in Pipe, data_ref_q[s][o].acquired /\ data_ref_q[s][o].ref = r
        PROVE  s = q /\ o = p
    <2>1. r \in Range(Buffers[s])
      BY <1>5 DEF OwnBuffers
    <2>2. s = q
      BY <1>2, <2>1, OwnerOf
    <2>. QED  BY <1>1, <1>5, <2>2 DEF OwnBuffers
  <1>. QED  BY <1>1, <1>2, <1>4, <1>5 DEF IsAt

(* A reference is in one place after a step that leaves all others alone. *)
LEMMA OnePlaceMoves ==
  ASSUME OnePlace, NEW q \in DataRefQ, NEW r \in Range(Buffers[q]), NEW l \in Locations,
         \A m \in Locations : IsAt(m, q, r)' <=> m = l,
         \A s \in DataRefQ : \A x \in Range(Buffers[s]) :
           x # r => \A m \in Locations : IsAt(m, s, x)' <=> IsAt(m, s, x)
  PROVE  OnePlace'
  BY OwnerOf DEF OnePlace, Locations

-----------------------------------------------------------------------------
(* Steps that leave the entries alone. *)

(* The data references that a task has to release are those of its descriptor still. *)
SameToRelease(t) ==
  /\ ToRelease(t)' = ToRelease(t)
  /\ ToRelease(t) # {} => task'[t].desc = task[t].desc

SameReleased ==
  \A q \in DataRefQ, p \in Pipe : \A n \in LastUsers(q) : Released(n, q, p)' <=> Released(n, q, p)

(* Those that use a reference last.                                          *)
LEMMA LastUsersIs ==
  ASSUME NEW q \in DataRefQ
  PROVE  LastUsers(q) \subseteq Node /\ Consumers(q) \subseteq Node
         /\ (Consumers(q) # {} => LastUsers(q) = Consumers(q)) /\ Consumers(q) \subseteq LastUsers(q)
  BY DEF LastUsers, Consumers, Producers

(* When a node counts as having released a parameter as before.              *)
LEMMA ReleasedSame ==
  ASSUME NEW n \in Node, NEW q, NEW p, <<n, p>> \in executed' <=> <<n, p>> \in executed,
         SameToRelease(TargetOf[n])
  PROVE  Released(n, q, p)' <=> Released(n, q, p)
  BY DEF Released, SameToRelease

(* Then the consumers that are done are the same.                            *)
LEMMA DoneSame ==
  ASSUME SameReleased, NEW q \in DataRefQ, NEW p \in Pipe
  PROVE  Done(q, p)' = Done(q, p)
  BY LastUsersIs DEF SameReleased, Done

(* The counts of an entry stay right while nobody releases. *)
LEMMA EntriesKept ==
  ASSUME EntryNeeded, EntryCounted, SameReleased, data_ref_q' = data_ref_q, ref_done' = ref_done, frame' = frame
  PROVE  EntryNeeded' /\ EntryCounted'
  <1>1. ASSUME NEW q \in DataRefQ, NEW p \in Pipe, data_ref_q'[q][p].acquired
        PROVE  /\ frame'[p] > 0 /\ \E n \in LastUsers(q) : ~Released(n, q, p)'
               /\ data_ref_q'[q][p].done = Cardinality(Done(q, p)')
               /\ ref_done'[data_ref_q'[q][p].ref] = data_ref_q'[q][p].done
    BY <1>1, DoneSame DEF EntryNeeded, SameReleased, EntryCounted
  <1>. QED  BY ZenonT(30), <1>1 DEF EntryNeeded, EntryCounted, LastUsers, Consumers, Producers

(* An entry that is there stays when entries and flags do.                   *)
LEMMA ThereKept ==
  ASSUME EntryThere, SameReleased, data_ref_q' = data_ref_q, executed' = executed
  PROVE  EntryThere'
  BY DoneSame DEF EntryThere, Consumers, Producers

(* What the tasks hold stays in the entries. *)
LEMMA HeldKept ==
  ASSUME EntryHeld, data_ref_q' = data_ref_q,
         \A t \in Target : \A j \in Held(t)' :
           j \in Held(t) /\ task'[t].desc = task[t].desc /\ task'[t].prm[j] = task[t].prm[j]
  PROVE  EntryHeld'
  <1>1. ASSUME NEW t \in Target, NEW j \in Held(t)'
        PROVE  LET d == task'[t].desc q == Param[d[1]][j][1]
               IN  data_ref_q'[q][d[2]].acquired /\ data_ref_q'[q][d[2]].ref = task'[t].prm[j]
    BY ZenonT(30) DEF EntryHeld
  <1>. QED  BY Zenon, <1>1 DEF EntryHeld

(* References stay where they are when no queue or entry changes.            *)
LEMMA PlacesKept ==
  ASSUME OnePlace, OwnBuffers, data_ref_q' = data_ref_q, acquire_q' = acquire_q, release_q' = release_q, owned' = owned
  PROVE  OnePlace' /\ OwnBuffers'
  BY DEF OnePlace, OwnBuffers, IsAt, Locations

(* Steps that leave entries and flags alone keep what is said of entries.    *)
LEMMA EntriesQuiet ==
  ASSUME RefsPlaced, UNCHANGED <<data_ref_q, ref_done, executed, frame>>,
         \A t \in Target : SameToRelease(t),
         \A t \in Target : \A j \in Held(t)' :
           j \in Held(t) /\ task'[t].desc = task[t].desc /\ task'[t].prm[j] = task[t].prm[j]
  PROVE  EntryNeeded' /\ EntryCounted' /\ EntryThere' /\ EntryHeld'
  BY LastUsersIs, Targets, ReleasedSame, EntriesKept, ThereKept, HeldKept DEF SameReleased,
     RefsPlaced

(* A task that has and holds nothing before and after a step, or the same. *)
LEMMA TaskQuiet ==
  ASSUME NEW t \in Target,
         \/ task'[t] = task[t]
         \/ /\ task'[t].at = task[t].at /\ task'[t].desc = task[t].desc
            /\ task'[t].i = task[t].i /\ task'[t].prm = task[t].prm
         \/ /\ task[t].at \in {"idle", "send_complete", "trigger_next"}
            /\ \/ task'[t].at \in {"idle", "send_complete", "trigger_next"}
               \/ task'[t].at = "acquire" /\ task'[t].prm = <<>>
  PROVE  /\ SameToRelease(t)
         /\ \A j \in Held(t)' : j \in Held(t) /\ task'[t].desc = task[t].desc /\ task'[t].prm[j] = task[t].prm[j]
  <1>1. CASE /\ task'[t].at = task[t].at /\ task'[t].desc = task[t].desc
             /\ task'[t].i = task[t].i /\ task'[t].prm = task[t].prm
    BY <1>1 DEF SameToRelease, ToRelease, Held, Working
  <1>2. CASE /\ task[t].at \in {"idle", "send_complete", "trigger_next"}
             /\ task'[t].at \in {"idle", "send_complete", "trigger_next"}
    BY <1>2 DEF SameToRelease, ToRelease, Held, Working
  <1>3. CASE /\ task[t].at \in {"idle", "send_complete", "trigger_next"}
             /\ task'[t].at = "acquire" /\ task'[t].prm = <<>>
    BY <1>3 DEF Held, Working, ToRelease, SameToRelease
  <1>. QED  BY <1>1, <1>2, <1>3

(* The steps that move no reference. *)
LEMMA QuietRefs ==
  ASSUME Typed, RefsPlaced,
         \/ \E a \in App : AppTrigger(a)
         \/ HostPops \/ KernelSchedule
         \/ \E t \in Target : Take(t) \/ TaskTrigger(t) \/ SendComplete(t) \/ TriggerNext(t)
         \/ UNCHANGED vars
  PROVE  RefsPlaced'
  <1>. DEFINE Same == UNCHANGED <<data_ref_q, ref_done, acquire_q, release_q, owned, executed, frame>>
  <1>0. task \in [Target -> Task] /\ TasksShaped
    BY TypedIs DEF DataTypeOK
  <1>1. ASSUME Same, task' = task PROVE RefsPlaced'
    BY <1>1, TaskQuiet, EntriesQuiet, PlacesKept DEF RefsPlaced
  <1>2. ASSUME Same, NEW t \in Target, \A u \in Target \ {t} : task'[u] = task[u],
               \/ task'[t] = task[t]
               \/ /\ task'[t].at = task[t].at /\ task'[t].desc = task[t].desc
                  /\ task'[t].i = task[t].i /\ task'[t].prm = task[t].prm
               \/ /\ task[t].at \in {"idle", "send_complete", "trigger_next"}
                  /\ \/ task'[t].at \in {"idle", "send_complete", "trigger_next"}
                     \/ task'[t].at = "acquire" /\ task'[t].prm = <<>>
        PROVE RefsPlaced'
    BY <1>2, TaskQuiet, EntriesQuiet, PlacesKept DEF RefsPlaced
  <1>3. CASE (\E a \in App : AppTrigger(a)) \/ HostPops \/ KernelSchedule \/ UNCHANGED vars
    <2>1. Same /\ task' = task
      BY <1>3 DEF AppTrigger, HostPops, HostCompletes, HostNotifies, KernelSchedule, vars, nodes, refs
    <2>. QED  BY <2>1, <1>1
  <1>4. ASSUME NEW t \in Target, Take(t) PROVE RefsPlaced'
    <2>1. Same
      BY <1>4 DEF Take, refs
    <2>2. PICK d : d = Head(job_q[t])
      OBVIOUS
    <2>3. CASE d \in executed \/ WaitsForPrev(d)
      BY <1>0, <1>4, <2>2, <2>3, TakeTask, <2>1, <1>1
    <2>4. CASE ~(d \in executed \/ WaitsForPrev(d))
      BY <1>0, <1>4, <2>2, <2>4, TakeTask, TaskToIs, <2>1, <1>2
    <2>. QED  BY SMTT(30), <2>3, <2>4
  <1>5. ASSUME NEW t \in Target, TaskTrigger(t) PROVE RefsPlaced'
    <2>1. Same
      BY <1>5 DEF TaskTrigger, refs, nodes
    <2>2. PICK at, d, i, prm, send, retrigger : /\ TaskTo(t, at, d, i, prm, send, retrigger)
             /\ at = task[t].at /\ d = task[t].desc /\ i = task[t].i /\ prm = task[t].prm
      BY <1>0, <1>5, TaskTriggerTask
    <2>3. /\ task'[t].at = at /\ task'[t].desc = d /\ task'[t].i = i /\ task'[t].prm = prm
          /\ \A u \in Target \ {t} : task'[u] = task[u]
      BY <1>0, <2>2, TaskToIs
    <2>. QED  BY <2>1, <2>2, <2>3, <1>2
  <1>6. ASSUME NEW t \in Target, SendComplete(t) PROVE RefsPlaced'
    <2>1. Same
      BY <1>6 DEF SendComplete, refs, nodes
    <2>2. PICK d, prm, retrigger : TaskTo(t, "trigger_next", d, 1, prm, <<>>, retrigger) /\ task[t].at = "send_complete"
      BY <1>0, <1>6, SendCompleteTask
    <2>3. /\ task'[t].at = "trigger_next"
          /\ \A u \in Target \ {t} : task'[u] = task[u]
      BY <1>0, <2>2, TaskToIs
    <2>. QED  BY <2>1, <2>2, <2>3, <1>2
  <1>7. ASSUME NEW t \in Target, TriggerNext(t) PROVE RefsPlaced'
    BY <1>7, <1>0, TriggerNextTask, TaskToIs, <1>2 DEF TriggerNext, refs, nodes
  <1>. QED  BY <1>3, <1>4, <1>5, <1>6, <1>7

(* A reference moves, and no entry or task is touched. *)
LEMMA EntriesAlone ==
  ASSUME RefsPlaced, UNCHANGED <<data_ref_q, ref_done, executed, frame, task>>
  PROVE  EntryNeeded' /\ EntryCounted' /\ EntryThere' /\ EntryHeld'
  BY TaskQuiet, EntriesQuiet

(* The application gives a reference to the queue.                           *)
LEMMA EnqueueRefs ==
  ASSUME Typed, RefsPlaced, NEW a \in App, NEW q \in GraphParam, NEW r \in Ref, EnqueueReadyRef(a, q, r)
  PROVE  RefsPlaced'
  <1>1. /\ r \in owned /\ r \in Range(Buffers[q]) /\ owned' = owned \ {r}
        /\ acquire_q' = [acquire_q EXCEPT ![q] = Append(@, r)]
        /\ UNCHANGED <<data_ref_q, ref_done, release_q, executed, frame, task>>
    BY DEF EnqueueReadyRef, nodes
  <1>2. /\ q \in DataRefQ /\ acquire_q \in [DataRefQ -> Seq(Ref)]
    BY RefAssumption, TypedIs DEF DataTypeOK
  <1>3. /\ acquire_q'[q] = Append(acquire_q[q], r)
        /\ \A s \in DataRefQ \ {q} : acquire_q'[s] = acquire_q[s]
    BY <1>1, <1>2
  <1>4. IsAt("owned", q, r) /\ ~IsAt("acquire", q, r) /\ ~IsAt("release", q, r) /\ ~IsAt("entry", q, r)
    BY <1>1, <1>2 DEF IsAt, RefsPlaced, OnePlace, Locations
  <1>5. /\ Range(acquire_q'[q]) = Range(acquire_q[q]) \cup {r}
        /\ IsInjective(acquire_q[q]) => IsInjective(acquire_q'[q])
    BY <1>4, <1>2, <1>3, Appended DEF IsAt
  <1>6. OnePlace'
    BY SMTT(30), <1>5, <1>1, <1>4, <1>3, <1>2, OnePlaceMoves DEF IsAt, Locations, RefsPlaced
  <1>7. OwnBuffers'
    BY <1>1, <1>2, <1>3, <1>5 DEF RefsPlaced, OwnBuffers
  <1>. QED  BY <1>1, <1>6, <1>7, EntriesAlone DEF RefsPlaced

(* And takes one back.                                                       *)
LEMMA DequeueRefs ==
  ASSUME Typed, RefsPlaced, Dequeue
  PROVE  RefsPlaced'
  <1>1. PICK q, r : /\ q \in GraphParam /\ release_q[q] # <<>> /\ r = Head(release_q[q]) /\ owned' = owned \cup {r}
                                   /\ release_q' = [release_q EXCEPT ![q] = Tail(@)]
                                   /\ UNCHANGED <<data_ref_q, ref_done, acquire_q, executed, frame, task>>
    BY DEF Dequeue, DequeueDoneRef, nodes
  <1>2. /\ q \in GraphParam /\ q \in DataRefQ /\ release_q \in [GraphParam -> Seq(Ref)]
    BY <1>1, RefAssumption, TypedIs DEF DataTypeOK
  <1>3. /\ release_q'[q] = Tail(release_q[q])
        /\ \A s \in GraphParam \ {q} : release_q'[s] = release_q[s]
    BY <1>1, <1>2
  <1>4. /\ r \in Range(release_q[q]) /\ r \in Range(Buffers[q]) /\ IsInjective(release_q'[q])
        /\ Range(release_q'[q]) = Range(release_q[q]) \ {r}
    BY <1>2, <1>1, Removed, <1>3 DEF RefsPlaced, OwnBuffers
  <1>5. IsAt("release", q, r) /\ ~IsAt("acquire", q, r) /\ ~IsAt("owned", q, r) /\ ~IsAt("entry", q, r)
    BY <1>2, <1>4 DEF IsAt, RefsPlaced, OnePlace, Locations
  <1>6. OnePlace'
    BY SMTT(30), <1>1, <1>2, <1>4, <1>5, <1>3, OnePlaceMoves DEF IsAt, Locations, RefsPlaced
  <1>7. OwnBuffers'
    BY RefAssumption, <1>3, <1>4, <1>1 DEF RefsPlaced, OwnBuffers
  <1>. QED  BY <1>1, <1>6, <1>7, EntriesAlone DEF RefsPlaced

(* A task that runs no kernel and releases nothing, before and after a step. *)
LEMMA ReleasesNone ==
  ASSUME NEW t \in Target, task[t].at # "release", task'[t].at # "release"
  PROVE  SameToRelease(t)
  BY DEF SameToRelease, ToRelease

(* Only the task of the step can change what it has yet to release.          *)
LEMMA OthersSame ==
  ASSUME NEW t \in Target, SameToRelease(t), \A u \in Target \ {t} : task'[u] = task[u]
  PROVE  \A u \in Target : SameToRelease(u)
  BY TaskQuiet

(* Without a change there or of the flags nothing is released.               *)
LEMMA AllReleasedSame ==
  ASSUME executed' = executed, \A u \in Target : SameToRelease(u)
  PROVE  SameReleased
  BY LastUsersIs, Targets, ReleasedSame DEF SameReleased

(* The parameters in the hands of the tasks but one, and of that one. *)
LEMMA HeldBy ==
  ASSUME NEW t \in Target, \A u \in Target \ {t} : task'[u] = task[u],
         \A j \in Held(t)' :
           LET d == task'[t].desc q == Param[d[1]][j][1]
           IN data_ref_q'[q][d[2]].acquired /\ data_ref_q'[q][d[2]].ref = task'[t].prm[j],
         \A u \in Target \ {t} : \A j \in Held(u) :
           LET d == task[u].desc q == Param[d[1]][j][1]
           IN data_ref_q'[q][d[2]].acquired /\ data_ref_q'[q][d[2]].ref = task[u].prm[j]
  PROVE  EntryHeld'
  <1>1. ASSUME NEW u \in Target, NEW j \in Held(u)'
        PROVE  LET d == task'[u].desc q == Param[d[1]][j][1]
               IN data_ref_q'[q][d[2]].acquired /\ data_ref_q'[q][d[2]].ref = task'[u].prm[j]
    <2>1. CASE u = t
      BY Zenon, <2>1
    <2>2. CASE u # t
      <3>1. task'[u] = task[u]
        BY Zenon, <2>2
      <3>2. j \in Held(u)
        BY Zenon, <3>1 DEF Held, Working
      <3>3. PICK d, q : d = task[u].desc /\ q = Param[d[1]][j][1]
        BY Zenon
      <3>4. data_ref_q'[q][d[2]].acquired /\ data_ref_q'[q][d[2]].ref = task[u].prm[j]
        BY Zenon, <2>2, <3>2, <3>3
      <3>. QED  BY Zenon, <3>1, <3>3, <3>4
    <2>. QED  BY Zenon, <2>1, <2>2
  <1>. QED  BY Zenon, <1>1 DEF EntryHeld

(* A kernel ends: its node has now to release what it acquired.              *)
LEMMA CompleteRefs ==
  ASSUME Typed, Expected, RefsPlaced, NEW t \in Target, Complete(t)
  PROVE  RefsPlaced'
  <1>0. task \in [Target -> Task] /\ TasksShaped
    BY TypedIs DEF DataTypeOK
  <1>1. UNCHANGED <<data_ref_q, ref_done, acquire_q, release_q, owned, frame>>
    BY DEF Complete, refs
  <1>2. PICK d, prm, retrigger : /\ TaskTo(t, "release", d, 1, prm, <<>>, retrigger)
                                 /\ task[t].at = "execute" /\ d = task[t].desc /\ prm = task[t].prm
    BY <1>0, CompleteTask
  <1>3. /\ task'[t].at = "release" /\ task'[t].desc = d /\ task'[t].i = 1 /\ task'[t].prm = prm
        /\ \A u \in Target \ {t} : task'[u] = task[u]
    BY <1>0, <1>2, TaskToIs
  <1>4. /\ d \in Desc /\ TargetOf[d[1]] = t /\ executed' = executed \cup {d} /\ d \notin executed
    BY <1>2, CompleteEffect DEF Expected, Unexecuted
  <1>5. /\ d[1] \in Node /\ d[2] \in Pipe /\ d = <<d[1], d[2]>> /\ Len(prm) = Len(Param[d[1]]) /\ Len(Param[d[1]]) \in Nat
    BY <1>0, <1>2, <1>4, NoneIs, Parameters DEF TasksShaped, Shaped
  <1>6. ToRelease(t) = {} /\ ToRelease(t)' = {Param[d[1]][j][1] : j \in 1 .. Len(Param[d[1]])}
    BY <1>2, <1>3 DEF ToRelease
  <1>7. SameReleased
    <2>. SUFFICES ASSUME NEW q \in DataRefQ, NEW p \in Pipe, NEW n \in LastUsers(q)
                  PROVE  Released(n, q, p)' <=> Released(n, q, p)
      BY DEF SameReleased
    <2>0. n \in Node
      BY LastUsersIs
    <2>1. CASE <<n, p>> = d
      BY <2>1, <1>4, ParamOf, <1>6, <1>3 DEF Released, LastUsers
    <2>2. CASE <<n, p>> # d
      BY <2>2, <1>4, <1>6, <1>3, <2>0, Targets, TaskQuiet, ReleasedSame DEF Released
    <2>. QED  BY <2>1, <2>2
  <1>8. EntryNeeded' /\ EntryCounted'
    BY <1>1, <1>7, EntriesKept DEF RefsPlaced
  <1>9. Held(t) = 1 .. Len(prm) /\ Held(t)' = 1 .. Len(prm)
    BY <1>2, <1>3 DEF Held, Working
  <1>10. EntryThere'
    <2>1. ASSUME NEW q \in DataRefQ, NEW p \in Pipe,
                 (\E n \in Producers(q) : <<n, p>> \in executed') \/ Done(q, p)' # {}
          PROVE  data_ref_q'[q][p].acquired \/ Done(q, p)' = Consumers(q)
      <3>1. Done(q, p)' = Done(q, p)
        BY <1>7, DoneSame
      <3>2. CASE (\E n \in Producers(q) : <<n, p>> \in executed) \/ Done(q, p) # {}
        BY <1>1, <3>1, <3>2 DEF RefsPlaced, EntryThere
      <3>3. CASE ~((\E n \in Producers(q) : <<n, p>> \in executed) \/ Done(q, p) # {})
        <4>1. PICK n \in Producers(q) : <<n, p>> = d
          BY <2>1, <3>1, <3>3, <1>4
        <4>2. n = d[1] /\ p = d[2]
          BY <4>1
        <4>3. PICK i \in 1 .. Len(Param[n]) : Param[n][i][1] = q
          BY ParamOf
        <4>4. i \in Held(t)
          BY Zenon, <4>2, <1>5, <1>9
        <4>5. data_ref_q[q][p].acquired
          BY Zenon, <4>2, <4>3, <4>4, <1>2 DEF RefsPlaced, EntryHeld
        <4>. QED  BY <4>5, <1>1
      <3>. QED  BY SMTT(30), <3>2, <3>3
    <2>. QED  BY <2>1 DEF EntryThere, Producers, Consumers
  <1>11. EntryHeld'
    <2>1. \A j \in Held(t)' : LET q == Param[d[1]][j][1]
                              IN data_ref_q'[q][d[2]].acquired /\ data_ref_q'[q][d[2]].ref = prm[j]
      BY Zenon, <1>1, <1>2, <1>9 DEF RefsPlaced, EntryHeld
    <2>2. \A u \in Target \ {t} : \A j \in Held(u) :
           LET c == task[u].desc q == Param[c[1]][j][1]
           IN data_ref_q'[q][c[2]].acquired /\ data_ref_q'[q][c[2]].ref = task[u].prm[j]
      BY Zenon, <1>1 DEF RefsPlaced, EntryHeld
    <2>. QED  BY ZenonT(30), <1>3, <2>1, <2>2, HeldBy
  <1>. QED  BY <1>1, <1>8, <1>10, <1>11, PlacesKept DEF RefsPlaced

(* A task is about to acquire a parameter. *)
Acquiring(t, d, q, i, prm) ==
  /\ task[t].at = "acquire" /\ d = task[t].desc /\ i = task[t].i
  /\ q = Param[d[1]][i][1] /\ prm = task[t].prm

(* What is known of a task that acquires.                                    *)
LEMMA AcquiringIs ==
  ASSUME Typed, NEW t \in Target, NEW d, NEW q, NEW i, NEW prm, Acquiring(t, d, q, i, prm)
  PROVE  /\ d \in Desc /\ d[1] \in Node /\ d[2] \in Pipe /\ TargetOf[d[1]] = t /\ q \in DataRefQ
         /\ Len(Param[d[1]]) \in Nat \ {0} /\ i \in 1 .. Len(Param[d[1]]) /\ i \in Nat \ {0}
         /\ prm \in Seq(Ref) /\ Len(prm) = i - 1 /\ data_ref_q[q][d[2]] \in Entry
  <1>1. /\ d \in Desc /\ d[1] \in Node /\ d[2] \in Pipe /\ TargetOf[d[1]] = t /\ q \in DataRefQ
        /\ Len(Param[d[1]]) \in Nat \ {0} /\ i \in 1 .. Len(Param[d[1]])
        /\ prm \in Seq(Ref) /\ data_ref_q[q][d[2]] \in Entry
    BY Zenon, Current DEF Acquiring
  <1>2. Len(prm) = i - 1
    BY TypedIs DEF TasksShaped, Shaped, Acquiring
  <1>3. i \in Nat \ {0}
    BY <1>1
  <1>. QED  BY <1>1, <1>2, <1>3

(* A parameter that is acquired already, or that is not to be had. *)
LEMMA AcquireQuietRefs ==
  ASSUME Typed, RefsPlaced, NEW t \in Target, Acquire(t),
         NEW d, NEW q, NEW i, NEW prm, Acquiring(t, d, q, i, prm),
         data_ref_q[q][d[2]].acquired \/ acquire_q[q] = <<>>
  PROVE  RefsPlaced'
  <1>0. task \in [Target -> Task] /\ TasksShaped
    BY Zenon, TypedIs DEF DataTypeOK
  <1>1. task[t].at = "acquire" /\ d = task[t].desc /\ i = task[t].i /\ q = Param[d[1]][i][1] /\ prm = task[t].prm
    BY Zenon DEF Acquiring
  <1>2. task[t].at = "acquire"
    BY Zenon, <1>1
  <1>3. UNCHANGED <<data_ref_q, ref_done, acquire_q, release_q, owned, executed, frame>>
    <2>1. CASE data_ref_q[q][d[2]].acquired
      BY Zenon, <1>1, <2>1 DEF Acquire
    <2>2. CASE ~data_ref_q[q][d[2]].acquired /\ acquire_q[q] = <<>>
      BY Zenon, <1>1, <2>2 DEF Acquire
    <2>. QED  BY Zenon, <1>1, <2>1, <2>2
  <1>4. \E at, desc, h, s, retrigger : TaskTo(t, at, desc, h, s, <<>>, retrigger)
             /\ \/ at = "idle"
                \/ /\ data_ref_q[q][d[2]].acquired
                   /\ at \in {"acquire", "execute"} /\ desc = d /\ s = Append(prm, data_ref_q[q][d[2]].ref)
    <2>1. CASE data_ref_q[q][d[2]].acquired
      BY Zenon, <1>0, <1>1, <2>1, AcquireTask
    <2>2. CASE ~data_ref_q[q][d[2]].acquired /\ acquire_q[q] = <<>>
      BY Zenon, <1>0, <1>1, <2>2, AcquireTask
    <2>. QED  BY Zenon, <1>1, <2>1, <2>2
  <1>5. PICK at, desc, h, s, retrigger : TaskTo(t, at, desc, h, s, <<>>, retrigger)
             /\ \/ at = "idle"
                \/ /\ data_ref_q[q][d[2]].acquired
                   /\ at \in {"acquire", "execute"} /\ desc = d /\ s = Append(prm, data_ref_q[q][d[2]].ref)
    BY <1>4
  <1>6. /\ task'[t].at = at /\ task'[t].desc = desc /\ task'[t].prm = s
        /\ \A u \in Target \ {t} : task'[u] = task[u]
    BY <1>5, <1>0, TaskToIs
  <1>7. SameToRelease(t)
    BY <1>2, <1>5, <1>6, ReleasesNone
  <1>8. SameReleased
    BY Zenon, <1>3, <1>6, <1>7, OthersSame, AllReleasedSame
  <1>9. EntryHeld'
    <2>1. \A j \in Held(t)' : LET c == task'[t].desc o == Param[c[1]][j][1]
                              IN data_ref_q'[o][c[2]].acquired /\ data_ref_q'[o][c[2]].ref = task'[t].prm[j]
      <3>1. CASE at = "idle"
        BY SMTT(30), <1>6, <3>1 DEF Held, Working
      <3>2. CASE at \in {"acquire", "execute"} /\ desc = d /\ s = Append(prm, data_ref_q[q][d[2]].ref) /\ data_ref_q[q][d[2]].acquired
        <4>1. prm \in Seq(Ref) /\ Len(prm) = i - 1 /\ i \in Nat \ {0}
            BY AcquiringIs
        <4>2. PICK r : r = data_ref_q[q][d[2]].ref /\ r \in Ref
          BY <3>2, AcquiringIs, TypedIs DEF EntriesNamed
        <4>3. Len(s) = i /\ s[i] = r /\ \A j \in 1 .. i - 1 : s[j] = prm[j]
          BY <3>2, <4>1, <4>2
        <4>4. Held(t)' = 1 .. i /\ Held(t) = 1 .. i - 1
          BY Zenon, <1>1, <1>2, <1>6, <3>2, <4>1, <4>3 DEF Held, Working
        <4>. SUFFICES ASSUME NEW j \in 1 .. i
                      PROVE  LET o == Param[d[1]][j][1]
                             IN data_ref_q[o][d[2]].acquired /\ data_ref_q[o][d[2]].ref = s[j]
          BY ZenonT(30), <1>3, <1>6, <3>2, <4>4
        <4>5. CASE j = i
          BY Zenon, <1>1, <3>2, <4>2, <4>3, <4>5
        <4>6. CASE j # i
          <5>1. j \in 1 .. i - 1
            BY <4>1, <4>6
          <5>. QED  BY ZenonT(30), <1>1, <4>3, <4>4, <5>1 DEF RefsPlaced, EntryHeld
        <4>. QED  BY <4>5, <4>6
      <3>. QED  BY ZenonT(30), <1>5, <3>1, <3>2
    <2>2. \A u \in Target \ {t} : \A j \in Held(u) :
           LET c == task[u].desc o == Param[c[1]][j][1]
           IN data_ref_q'[o][c[2]].acquired /\ data_ref_q'[o][c[2]].ref = task[u].prm[j]
      BY Zenon, <1>3 DEF RefsPlaced, EntryHeld
    <2>. QED  BY Zenon, <1>6, <2>1, <2>2, HeldBy
  <1>. QED  BY <1>3, <1>8, <1>9, EntriesKept, ThereKept, PlacesKept DEF RefsPlaced

(* What a task holds is a parameter of its descriptor. *)
LEMMA HeldIs ==
  ASSUME Typed, NEW u \in Target, NEW j \in Held(u), NEW c, c = task[u].desc
  PROVE  c \in Desc /\ j \in 1 .. Len(Param[c[1]])
  <1>1. task[u].at # "idle"
    BY DEF Held, Working
  <1>2. c \in Desc
    BY <1>1, OwnDesc
  <1>3. Shaped(u, task[u]) /\ task[u].prm \in Seq(Ref)
    BY TypedIs, TaskFields DEF TasksShaped, DataTypeOK
  <1>4. PICK k, e : k = Len(task[u].prm) /\ k \in Nat /\ e = task[u].i
    <2>1. PICK s : s = task[u].prm /\ s \in Seq(Ref)
      BY <1>3
    <2>2. Len(s) \in Nat
      BY <2>1
    <2>. QED  BY <2>1, <2>2
  <1>5. Len(Param[c[1]]) \in Nat
    BY <1>2, NoneIs, Parameters
  <1>6. CASE task[u].at = "acquire"
    BY <1>3, <1>4, <1>6, <1>2, <1>5 DEF Shaped, Held, Working
  <1>7. CASE task[u].at = "execute"
    BY <1>3, <1>4, <1>7, <1>2 DEF Shaped, Held, Working
  <1>8. CASE task[u].at = "release"
    BY <1>3, <1>4, <1>8, <1>2 DEF Shaped, Held, Working
  <1>. QED  BY <1>6, <1>7, <1>8 DEF Held, Working

(* Nobody is done with an entry that a node has yet to acquire. *)
LEMMA NoneDone ==
  ASSUME Typed, Expected, Ready, RefsPlaced, NEW t \in Target, NEW d, NEW q, NEW i, NEW prm,
         Acquiring(t, d, q, i, prm), ~data_ref_q[q][d[2]].acquired
  PROVE  /\ Done(q, d[2]) = {} /\ frame[d[2]] > 0 /\ d \notin executed
         /\ \E n \in LastUsers(q) : ~Released(n, q, d[2])
  <1>1. /\ d \in Desc /\ d[1] \in Node /\ d[2] \in Pipe /\ q \in DataRefQ /\ i \in 1 .. Len(Param[d[1]])
        /\ q = Param[d[1]][i][1] /\ task[t].at = "acquire" /\ d = task[t].desc
    BY SMTT(30), AcquiringIs DEF Acquiring
  <1>2. d \notin executed /\ frame[d[2]] > 0
    BY Zenon, <1>1 DEF Expected, Unexecuted, FrameStarted, Working
  <1>3. PICK n, p : n = d[1] /\ p = d[2] /\ d = <<n, p>> /\ n \in Node /\ p \in Pipe
    BY Zenon, <1>1, NoneIs
  <1>4. n \in Consumers(q) \/ n \in Producers(q)
    BY Zenon, <1>1, <1>3, UserOf
  <1>5. Done(q, p) = {}
    <2>. SUFFICES ASSUME Done(q, p) # {} PROVE FALSE
      BY Zenon
    <2>1. Done(q, p) = Consumers(q)
      BY Zenon, <1>1, <1>3 DEF RefsPlaced, EntryThere
    <2>2. PICK c \in Consumers(q) : Released(c, q, p)
      BY <2>1 DEF Done
    <2>3. <<c, p>> \in executed
      BY <2>2 DEF Released
    <2>4. CASE n \in Consumers(q)
      BY <2>1, <2>4, <1>2, <1>3 DEF Done, Released
    <2>5. CASE n \in Producers(q)
      <3>1. n \in InNodes(c) /\ c \in Node
        BY Zenon, <1>1, <2>5, Feeds
      <3>2. CanNodeExecute(<<c, p>>[1], <<c, p>>[2])
        BY <2>3 DEF Ready, ExecutedClosed
      <3>3. <<n, p>> \in executed
        BY <3>1, <3>2, CanRun
      <3>. QED  BY Zenon, <1>2, <1>3, <3>3
    <2>. QED  BY <1>4, <2>4, <2>5
  <1>6. \E m \in LastUsers(q) : ~Released(m, q, p)
    BY SMTT(30), <1>4, <1>2, <1>3, <1>5 DEF LastUsers, Released, Done
  <1>. QED  BY ZenonT(30), <1>2, <1>3, <1>5, <1>6

(* It takes the first reference of the queue. *)
AcquiresRef(t, d, q, prm, r) ==
  /\ r = Head(acquire_q[q])
  /\ data_ref_q' = [data_ref_q EXCEPT ![q][d[2]] = [acquired |-> TRUE, ref |-> r, done |-> 0]]
  /\ ref_done' = [ref_done EXCEPT ![r] = 0]
  /\ acquire_q' = [acquire_q EXCEPT ![q] = Tail(@)]
  /\ UNCHANGED <<release_q, owned, executed, frame>>
  /\ task'[t].at \in {"acquire", "execute"} /\ task'[t].desc = d
  /\ task'[t].prm = Append(prm, r)
  /\ \A u \in Target \ {t} : task'[u] = task[u]

(* It obtains the oldest reference of the queue.                             *)
LEMMA AcquireFreshIs ==
  ASSUME Typed, NEW t \in Target, Acquire(t), NEW d, NEW q, NEW i, NEW prm, Acquiring(t, d, q, i, prm),
         ~data_ref_q[q][d[2]].acquired, acquire_q[q] # <<>>
  PROVE  \E r : AcquiresRef(t, d, q, prm, r)
  <1>0. task \in [Target -> Task] /\ TasksShaped
    BY Zenon, TypedIs DEF DataTypeOK
  <1>1. task[t].at = "acquire" /\ d = task[t].desc /\ i = task[t].i /\ q = Param[d[1]][i][1] /\ prm = task[t].prm
    BY Zenon DEF Acquiring
  <1>2. PICK r : r = Head(acquire_q[q])
    BY Zenon
  <1>3. /\ data_ref_q' = [data_ref_q EXCEPT ![q][d[2]] = [acquired |-> TRUE, ref |-> r, done |-> 0]]
        /\ ref_done' = [ref_done EXCEPT ![r] = 0]
        /\ acquire_q' = [acquire_q EXCEPT ![q] = Tail(@)]
        /\ UNCHANGED <<release_q, owned, executed, frame>>
    BY Zenon, <1>1, <1>2 DEF Acquire
  <1>4. PICK s : s = Append(prm, r)
    OBVIOUS
  <1>5. \E at, h, retrigger : at \in {"acquire", "execute"} /\ TaskTo(t, at, d, h, s, <<>>, retrigger)
    <2>1. PICK h, at : h = i + 1 /\ at = IF i = Len(Param[d[1]]) THEN "execute" ELSE "acquire"
      OBVIOUS
    <2>2. TaskTo(t, at, d, h, s, <<>>, None)
      BY Zenon, <1>0, <1>1, <1>2, <1>4, <2>1, AcquireTask
    <2>. QED  BY <2>1, <2>2
  <1>6. PICK at, h, retrigger : at \in {"acquire", "execute"} /\ TaskTo(t, at, d, h, s, <<>>, retrigger)
    BY <1>5
  <1>7. /\ task'[t].at = at /\ task'[t].desc = d /\ task'[t].prm = s
        /\ \A u \in Target \ {t} : task'[u] = task[u]
    BY <1>6, <1>0, TaskToIs
  <1>8. AcquiresRef(t, d, q, prm, r)
    BY <1>2, <1>3, <1>4, <1>6, <1>7 DEF AcquiresRef
  <1>. QED  BY <1>8

(* The reference moves from the queue to an entry nobody has used in this    *)
(* execution.                                                                *)
LEMMA AcquireFreshRefs ==
  ASSUME Typed, Expected, Ready, RefsPlaced, NEW t \in Target, Acquire(t),
         NEW d, NEW q, NEW i, NEW prm, Acquiring(t, d, q, i, prm),
         ~data_ref_q[q][d[2]].acquired, acquire_q[q] # <<>>
  PROVE  RefsPlaced'
  <1>0. PICK r : AcquiresRef(t, d, q, prm, r)
    BY AcquireFreshIs
  <1>1. /\ r = Head(acquire_q[q])
        /\ data_ref_q' = [data_ref_q EXCEPT ![q][d[2]] = [acquired |-> TRUE, ref |-> r, done |-> 0]]
        /\ ref_done' = [ref_done EXCEPT ![r] = 0]
        /\ acquire_q' = [acquire_q EXCEPT ![q] = Tail(@)]
        /\ UNCHANGED <<release_q, owned, executed, frame>>
        /\ task'[t].at \in {"acquire", "execute"} /\ task'[t].desc = d
        /\ task'[t].prm = Append(prm, r)
        /\ \A u \in Target \ {t} : task'[u] = task[u]
    BY <1>0 DEF AcquiresRef
  <1>2. /\ d \in Desc /\ d[1] \in Node /\ d[2] \in Pipe /\ q \in DataRefQ /\ i \in Nat \ {0}
        /\ prm \in Seq(Ref) /\ Len(prm) = i - 1
    BY AcquiringIs
  <1>3. /\ task[t].at = "acquire" /\ d = task[t].desc /\ prm = task[t].prm /\ q = Param[d[1]][i][1]
    BY Zenon DEF Acquiring
  <1>4. /\ DataTypeOK /\ acquire_q \in [DataRefQ -> Seq(Ref)] /\ ref_done \in [Ref -> Nat]
    BY TypedIs DEF DataTypeOK
  <1>5. PICK p : p = d[2] /\ p \in Pipe
    BY <1>2
  <1>6. /\ data_ref_q'[q][p] = [acquired |-> TRUE, ref |-> r, done |-> 0]
        /\ \A s \in DataRefQ, o \in Pipe : s # q \/ o # p => data_ref_q'[s][o] = data_ref_q[s][o]
    BY <1>1, <1>5, <1>2, TypedIs DEF DataTypeOK
  <1>7. /\ acquire_q'[q] = Tail(acquire_q[q])
        /\ \A s \in DataRefQ \ {q} : acquire_q'[s] = acquire_q[s]
    BY <1>1, <1>2, <1>4
  <1>8. /\ r \in Ref /\ r \in Range(acquire_q[q]) /\ r \in Range(Buffers[q])
        /\ IsInjective(acquire_q'[q]) /\ Range(acquire_q'[q]) = Range(acquire_q[q]) \ {r}
    BY <1>2, <1>4, Removed, <1>1, <1>7 DEF RefsPlaced, OwnBuffers
  <1>9. /\ ref_done'[r] = 0 /\ \A x \in Ref : x # r => ref_done'[x] = ref_done[x]
    BY <1>1, <1>4, <1>8
  <1>10. IsAt("acquire", q, r) /\ ~IsAt("owned", q, r) /\ ~IsAt("release", q, r) /\ ~IsAt("entry", q, r)
    BY <1>8, <1>2 DEF IsAt, RefsPlaced, OnePlace, Locations
  <1>11. ASSUME NEW s \in DataRefQ, NEW o \in Pipe, data_ref_q[s][o].acquired
         PROVE  (s # q \/ o # p) /\ data_ref_q[s][o].ref # r /\ data_ref_q[s][o].ref \in Ref
    <2>1. s # q \/ o # p
      BY <1>5, <1>11
    <2>2. data_ref_q[s][o].ref # r
      <3>. SUFFICES ASSUME data_ref_q[s][o].ref = r PROVE FALSE
        OBVIOUS
      <3>1. r \in Range(Buffers[s])
        BY <1>11 DEF RefsPlaced, OwnBuffers
      <3>2. s = q
        BY <1>2, <1>8, <3>1, OwnerOf
      <3>. QED  BY <1>10, <1>11, <3>2 DEF IsAt
    <2>. QED  BY <1>11, <2>1, <2>2, TypedIs DEF EntriesNamed
  <1>12. Done(q, p) = {} /\ frame[p] > 0 /\ \E n \in LastUsers(q) : ~Released(n, q, p)
    BY <1>5, NoneDone
  <1>13. SameReleased
    <2>1. SameToRelease(t)
      BY ZenonT(30), <1>1, <1>3, ReleasesNone
    <2>. QED  BY <1>1, <2>1, OthersSame, AllReleasedSame
  <1>14. ASSUME NEW s \in DataRefQ, NEW o \in Pipe
         PROVE  /\ data_ref_q'[s][o].acquired =>
                     /\ frame'[o] > 0 /\ \E n \in LastUsers(s) : ~Released(n, s, o)'
                     /\ data_ref_q'[s][o].done = Cardinality(Done(s, o)')
                     /\ ref_done'[data_ref_q'[s][o].ref] = data_ref_q'[s][o].done
                /\ (\E n \in Producers(s) : <<n, o>> \in executed') \/ Done(s, o)' # {} =>
                     data_ref_q'[s][o].acquired \/ Done(s, o)' = Consumers(s)
    <2>1. Done(s, o)' = Done(s, o)
      BY <1>13, DoneSame
    <2>2. CASE s = q /\ o = p
      <3>1. \E n \in LastUsers(q) : ~Released(n, q, p)'
        BY <1>2, <1>5, <1>12, <1>13 DEF SameReleased
      <3>2. Cardinality(Done(s, o)') = 0
        BY <1>12, <2>1, <2>2, FS_EmptySet
      <3>. QED  BY SMTT(30), <1>1, <1>6, <1>9, <1>12, <2>2, <3>1, <3>2
    <2>3. CASE s # q \/ o # p
      BY <1>6, <2>3, <1>9, <1>11, <1>13, <1>1, <2>1 DEF RefsPlaced, EntryNeeded, SameReleased,
         EntryCounted, EntryThere
    <2>. QED  BY <2>2, <2>3
  <1>15. EntryNeeded' /\ EntryCounted' /\ EntryThere'
    BY <1>14 DEF EntryNeeded, EntryCounted, EntryThere, Producers, Consumers, LastUsers
  <1>16. EntryHeld'
    <2>0. ASSUME NEW u \in Target, NEW j \in Held(u)
          PROVE  LET c == task[u].desc o == Param[c[1]][j][1]
                 IN data_ref_q'[o][c[2]].acquired /\ data_ref_q'[o][c[2]].ref = task[u].prm[j]
      <3>1. PICK c, o : c = task[u].desc /\ o = Param[c[1]][j][1]
        BY Zenon
      <3>2. data_ref_q[o][c[2]].acquired /\ data_ref_q[o][c[2]].ref = task[u].prm[j]
        BY Zenon, <3>1 DEF RefsPlaced, EntryHeld
      <3>3. c \in Desc /\ j \in 1 .. Len(Param[c[1]])
        BY <3>1, HeldIs
      <3>4. o \in DataRefQ /\ c[2] \in Pipe
        BY <3>1, <3>3, NoneIs, UserOf
      <3>5. data_ref_q'[o][c[2]] = data_ref_q[o][c[2]]
        BY SMTT(30), <1>6, <1>11, <3>2, <3>4
      <3>. QED  BY Zenon, <3>1, <3>2, <3>5
    <2>1. \A j \in Held(t)' : LET c == task'[t].desc o == Param[c[1]][j][1]
                              IN data_ref_q'[o][c[2]].acquired /\ data_ref_q'[o][c[2]].ref = task'[t].prm[j]
      <3>1. PICK s : s = Append(prm, r) /\ Len(s) = i /\ s[i] = r /\ \A j \in 1 .. i - 1 : s[j] = prm[j]
        <4>1. prm \in Seq(Ref) /\ r \in Ref /\ Len(prm) = i - 1 /\ i \in Nat \ {0}
          BY <1>2, <1>8
        <4>2. PICK s : s = Append(prm, r)
          OBVIOUS
        <4>3. Len(s) = i /\ s[i] = r /\ \A j \in 1 .. i - 1 : s[j] = prm[j]
          BY <4>1, <4>2
        <4>. QED  BY <4>2, <4>3
      <3>2. Held(t)' = 1 .. i /\ Held(t) = 1 .. i - 1
        BY Zenon, <1>1, <1>2, <1>3, <3>1 DEF Held, Working
      <3>. SUFFICES ASSUME NEW j \in 1 .. i
                    PROVE  LET o == Param[d[1]][j][1]
                           IN data_ref_q'[o][p].acquired /\ data_ref_q'[o][p].ref = s[j]
        BY ZenonT(30), <1>1, <1>5, <3>1, <3>2
      <3>0. PICK o : o = Param[d[1]][j][1]
        OBVIOUS
      <3>3. CASE j = i
        <4>1. o = q /\ s[j] = r
          BY Zenon, <1>3, <3>0, <3>1, <3>3
        <4>. QED  BY <1>6, <3>0, <4>1
      <3>4. CASE j # i
        <4>1. j \in 1 .. i - 1
          BY <1>2, <3>4
        <4>2. j \in Held(t) /\ s[j] = prm[j]
          BY Zenon, <3>1, <3>2, <4>1
        <4>3. data_ref_q'[o][d[2]].acquired /\ data_ref_q'[o][d[2]].ref = task[t].prm[j]
          BY Zenon, <1>3, <2>0, <3>0, <4>2
        <4>. QED  BY Zenon, <1>3, <1>5, <3>0, <4>2, <4>3
      <3>. QED  BY <3>3, <3>4
    <2>. QED  BY ZenonT(30), <1>1, <2>0, <2>1, HeldBy
  <1>17. OnePlace'
    <2>1. \A m \in Locations : IsAt(m, q, r)' <=> m = "entry"
      BY <1>5, <1>6, <1>8, <1>1, <1>10 DEF IsAt, Locations
    <2>2. ASSUME NEW s \in DataRefQ, NEW x \in Range(Buffers[s]), x # r, NEW m \in Locations
          PROVE  IsAt(m, s, x)' <=> IsAt(m, s, x)
      <3>1. x \in Range(acquire_q'[s]) <=> x \in Range(acquire_q[s])
        BY <1>7, <1>8, <2>2
      <3>2. ASSUME NEW o \in Pipe
            PROVE  data_ref_q'[s][o].acquired /\ data_ref_q'[s][o].ref = x <=>
                   data_ref_q[s][o].acquired /\ data_ref_q[s][o].ref = x
        BY <1>5, <1>6, <2>2
      <3>. QED  BY <1>1, <3>1, <3>2 DEF IsAt, Locations
    <2>. QED  BY <1>2, <1>8, <2>1, <2>2, OnePlaceMoves DEF RefsPlaced, Locations
  <1>18. OwnBuffers'
    <2>1. ASSUME NEW s \in DataRefQ
          PROVE  Range(acquire_q'[s]) \subseteq Range(Buffers[s]) /\ IsInjective(acquire_q'[s])
      BY <1>7, <1>8 DEF RefsPlaced, OwnBuffers
    <2>2. ASSUME NEW s \in DataRefQ, NEW o \in Pipe, data_ref_q'[s][o].acquired
          PROVE  data_ref_q'[s][o].ref \in Range(Buffers[s])
      BY <1>6, <1>8, <2>2 DEF RefsPlaced, OwnBuffers
    <2>3. ASSUME NEW s \in DataRefQ, NEW o \in Pipe, NEW w \in Pipe, data_ref_q'[s][o].acquired, data_ref_q'[s][w].acquired,
                 data_ref_q'[s][o].ref = data_ref_q'[s][w].ref
          PROVE  o = w
      BY <1>6, <2>3, <1>11 DEF RefsPlaced, OwnBuffers
    <2>. QED  BY <1>1, <2>1, <2>2, <2>3 DEF RefsPlaced, OwnBuffers
  <1>. QED  BY <1>15, <1>16, <1>17, <1>18 DEF RefsPlaced

(* No entry is acquired of a pipeline id on which nothing runs. *)
LEMMA NoEntryIdle ==
  ASSUME Typed, Expected, Ready, RefsPlaced, NEW p \in Pipe, \A l \in LeafNodes : <<l, p>> \notin running,
         NEW q \in DataRefQ
  PROVE  ~data_ref_q[q][p].acquired
  <1>. SUFFICES ASSUME data_ref_q[q][p].acquired PROVE FALSE
    OBVIOUS
  <1>1. PICK n \in LastUsers(q) : ~Released(n, q, p) /\ frame[p] > 0
    BY DEF RefsPlaced, EntryNeeded
  <1>2. n \in Node
    BY LastUsersIs
  <1>3. <<n, p>> \in executed
    <2>1. frame[p] # 0
      BY SMTT(30), <1>1, TypedIs DEF DataTypeOK
    <2>. QED  BY <1>2, <2>1, IdleDone DEF Ready
  <1>4. PICK t \in Target : t = TargetOf[n] /\ task[t].desc = <<n, p>> /\ task[t].at = "release"
    BY <1>1, <1>2, <1>3, Targets DEF Released, ToRelease
  <1>5. task[t].desc[1] = n /\ task[t].desc[2] = p
    BY <1>4
  <1>6. CASE n \in LeafNodes
    BY <1>4, <1>5, <1>6 DEF Expected, LeafTask, Releasing
  <1>7. CASE n \notin LeafNodes
    <2>1. PICK m : m \in OutNodes(n)
      BY <1>2, <1>7 DEF LeafNodes
    <2>2. m \in Node
      BY <2>1 DEF OutNodes
    <2>3. <<m, p>> \in ToTrigger(t)
      BY <1>4, <1>5, <2>1 DEF ToTrigger, Pending, Releasing
    <2>4. <<m, p>> \notin executed
      BY <2>3 DEF Ready, TriggerFresh
    <2>5. <<m, p>> \in executed
      <3>1. frame[p] # 0
        BY <1>1, TypedIs DEF DataTypeOK
      <3>. QED  BY <2>2, <3>1, IdleDone DEF Ready
    <2>. QED  BY <2>4, <2>5
  <1>. QED  BY <1>6, <1>7

(* An id that is started has no reference acquired.                          *)
LEMMA StartsRefs ==
  ASSUME Typed, Expected, Ready, RefsPlaced, NEW k \in Nat, Starts(k)
  PROVE  RefsPlaced'
  <1>1. UNCHANGED <<data_ref_q, ref_done, acquire_q, release_q, owned, task>>
    BY DEF Starts, refs
  <1>2. /\ Taken(k) \subseteq Pipe
        /\ \A d \in running : d[2] \notin Taken(k)
        /\ executed' = {d \in executed : d[2] \notin Taken(k)}
        /\ \A p \in Pipe : IF p \in Taken(k) THEN frame'[p] > 0 ELSE frame'[p] = frame[p]
    BY StartsEffect
  <1>3. ASSUME NEW p \in Taken(k), NEW q \in DataRefQ PROVE ~data_ref_q[q][p].acquired
    BY <1>2, NoEntryIdle
  <1>4. ASSUME NEW n, NEW p, p \notin Taken(k) PROVE <<n, p>> \in executed' <=> <<n, p>> \in executed
    BY <1>2, <1>4
  <1>5. ASSUME NEW n, NEW p \in Taken(k) PROVE <<n, p>> \notin executed'
    BY <1>2
  <1>6. ASSUME NEW n \in Node, NEW q, NEW p, p \notin Taken(k) PROVE Released(n, q, p)' <=> Released(n, q, p)
    BY <1>1, Targets, TaskQuiet, <1>4, <1>6, ReleasedSame
  <1>7. ASSUME NEW s \in DataRefQ, NEW o \in Pipe
         PROVE  /\ data_ref_q'[s][o].acquired =>
                     /\ frame'[o] > 0 /\ \E n \in LastUsers(s) : ~Released(n, s, o)'
                     /\ data_ref_q'[s][o].done = Cardinality(Done(s, o)')
                     /\ ref_done'[data_ref_q'[s][o].ref] = data_ref_q'[s][o].done
                /\ (\E n \in Producers(s) : <<n, o>> \in executed') \/ Done(s, o)' # {} =>
                     data_ref_q'[s][o].acquired \/ Done(s, o)' = Consumers(s)
    <2>1. CASE o \in Taken(k)
      BY <1>5, <2>1, <1>1, <1>3 DEF Done, Released
    <2>2. CASE o \notin Taken(k)
      <3>1. \A n \in LastUsers(s) : Released(n, s, o)' <=> Released(n, s, o)
        BY <1>6, <2>2, LastUsersIs
      <3>2. Done(s, o)' = Done(s, o)
        BY <3>1, LastUsersIs DEF Done
      <3>3. frame'[o] = frame[o]
        BY <1>2, <2>2
      <3>4. \A n : <<n, o>> \in executed' <=> <<n, o>> \in executed
        BY <1>4, <2>2
      <3>5. data_ref_q[s][o].acquired =>
                     /\ frame[o] > 0 /\ \E n \in LastUsers(s) : ~Released(n, s, o)
                     /\ data_ref_q[s][o].done = Cardinality(Done(s, o))
                     /\ ref_done[data_ref_q[s][o].ref] = data_ref_q[s][o].done
        BY DEF RefsPlaced, EntryNeeded, EntryCounted
      <3>6. (\E n \in Producers(s) : <<n, o>> \in executed) \/ Done(s, o) # {} =>
               data_ref_q[s][o].acquired \/ Done(s, o) = Consumers(s)
        BY DEF RefsPlaced, EntryThere
      <3>. QED  BY <1>1, <3>1, <3>2, <3>3, <3>4, <3>5, <3>6
    <2>. QED  BY <2>1, <2>2
  <1>8. EntryNeeded' /\ EntryCounted' /\ EntryThere'
    BY <1>7 DEF EntryNeeded, EntryCounted, EntryThere, Producers, Consumers, LastUsers
  <1>9. EntryHeld'
    BY <1>1, TaskQuiet, HeldKept DEF RefsPlaced
  <1>. QED  BY <1>1, <1>8, <1>9, PlacesKept DEF RefsPlaced

(* A task is about to release a parameter. *)
Releases(t, d, q, i, prm, r) ==
  /\ task[t].at = "release" /\ d = task[t].desc /\ i = task[t].i
  /\ q = Param[d[1]][i][1] /\ prm = task[t].prm /\ r = prm[i]

(* A task that releases has run its node. *)
LEMMA ReleasingRan ==
  ASSUME Typed, Expected, Ready, NEW t \in Target, task[t].at = "release"
  PROVE  task[t].desc \in executed
  <1>1. PICK d, n : d = task[t].desc /\ n = d[1] /\ d \in Desc /\ n \in Node
    BY OwnDesc, NoneIs
  <1>2. CASE n \in LeafNodes
    BY <1>1, <1>2 DEF Expected, LeafTask, Releasing
  <1>3. CASE n \notin LeafNodes
    <2>1. PICK m : m \in OutNodes(n)
      BY <1>1, <1>3 DEF LeafNodes
    <2>2. <<m, d[2]>> \in ToTrigger(t)
      BY <1>1, <2>1 DEF ToTrigger, Pending, Releasing
    <2>. QED  BY <2>2 DEF Ready, TriggerFresh
  <1>. QED  BY <1>2, <1>3

(* What is known of a task that releases: the entry holds its reference,     *)
(* counted as often as consumers are done.                                   *)
LEMMA ReleasesIs ==
  ASSUME Typed, Expected, Ready, RefsPlaced, NEW t \in Target,
         NEW d, NEW q, NEW i, NEW prm, NEW r, Releases(t, d, q, i, prm, r)
  PROVE  /\ d \in Desc /\ d[1] \in Node /\ d[2] \in Pipe /\ TargetOf[d[1]] = t /\ q \in DataRefQ
         /\ d = <<d[1], d[2]>> /\ d \in executed
         /\ Len(Param[d[1]]) \in Nat \ {0} /\ i \in 1 .. Len(Param[d[1]]) /\ i \in Nat /\ i \in Held(t)
         /\ Len(prm) = Len(Param[d[1]]) /\ r \in Ref
         /\ data_ref_q[q][d[2]].acquired /\ data_ref_q[q][d[2]].ref = r
         /\ data_ref_q[q][d[2]].done = Cardinality(Done(q, d[2]))
         /\ ref_done[r] = Cardinality(Done(q, d[2]))
         /\ q \in ToRelease(t) /\ ~Released(d[1], q, d[2])
         /\ Param[d[1]][i][2] \in BOOLEAN
         /\ Param[d[1]][i][2] => d[1] \in Consumers(q)
         /\ ~Param[d[1]][i][2] => d[1] \in Producers(q) /\ d[1] \notin Consumers(q)
  <1>1. /\ task[t].at = "release" /\ d = task[t].desc /\ i = task[t].i
        /\ q = Param[d[1]][i][1] /\ prm = task[t].prm /\ r = prm[i]
    BY Zenon DEF Releases
  <1>2. /\ d \in Desc /\ d[1] \in Node /\ d[2] \in Pipe /\ TargetOf[d[1]] = t /\ q \in DataRefQ
        /\ Len(Param[d[1]]) \in Nat \ {0} /\ i \in 1 .. Len(Param[d[1]])
        /\ Param[d[1]][i][2] \in BOOLEAN /\ r \in Ref
    BY Zenon, <1>1, Current
  <1>3. d = <<d[1], d[2]>>
    BY SMTT(30), <1>2, NoneIs
  <1>4. d \in executed
    BY SMTT(30), <1>1, ReleasingRan
  <1>5. Len(prm) = Len(Param[d[1]])
    BY SMTT(30), <1>1, TypedIs DEF TasksShaped, Shaped
  <1>6. i \in Held(t) /\ i \in Nat
    BY <1>2, <1>5, <1>1 DEF Held, Working
  <1>7. data_ref_q[q][d[2]].acquired /\ data_ref_q[q][d[2]].ref = r
    BY Zenon, <1>1, <1>6 DEF RefsPlaced, EntryHeld
  <1>8. /\ data_ref_q[q][d[2]].done = Cardinality(Done(q, d[2]))
        /\ ref_done[r] = Cardinality(Done(q, d[2]))
    BY Zenon, <1>2, <1>7 DEF RefsPlaced, EntryCounted
  <1>9. q \in ToRelease(t)
    <2>1. i \in i .. Len(Param[d[1]])
      BY <1>2
    <2>. QED  BY Zenon, <1>1, <2>1 DEF ToRelease
  <1>10. ~Released(d[1], q, d[2])
    BY Zenon, <1>1, <1>2, <1>3, <1>9 DEF Released
  <1>11. /\ Param[d[1]][i][2] => d[1] \in Consumers(q)
         /\ ~Param[d[1]][i][2] => d[1] \in Producers(q) /\ d[1] \notin Consumers(q)
    BY Zenon, <1>1, <1>2, UserOf
  <1>. QED  BY <1>2, <1>3, <1>4, <1>5, <1>6, <1>7, <1>8, <1>9, <1>10, <1>11

(* The last user of an entry: nobody is left to wait for. *)
IsLast(n, q, p) ==
  \/ n \in Consumers(q) /\ Done(q, p) \cup {n} = Consumers(q)
  \/ n \in Producers(q) /\ Consumers(q) = {}

(* The count tells the last consumer. *)
LEMMA CountTells ==
  ASSUME NEW q \in DataRefQ, NEW p \in Pipe, NEW n, n \in Consumers(q), ~Released(n, q, p)
  PROVE  /\ Cardinality(Done(q, p)) \in Nat
         /\ Cardinality(Done(q, p) \cup {n}) = Cardinality(Done(q, p)) + 1
         /\ Cardinality(Done(q, p)) + 1 = Cardinality(Consumers(q)) <=> Done(q, p) \cup {n} = Consumers(q)
  <1>1. IsFiniteSet(Consumers(q)) /\ Done(q, p) \subseteq Consumers(q) /\ n \notin Done(q, p)
    BY ConsumersIs DEF Done
  <1>2. IsFiniteSet(Done(q, p)) /\ Cardinality(Done(q, p)) \in Nat
    BY <1>1, FS_Subset, FS_CardinalityType
  <1>3. /\ IsFiniteSet(Done(q, p) \cup {n})
        /\ Cardinality(Done(q, p) \cup {n}) = Cardinality(Done(q, p)) + 1
    BY <1>1, <1>2, FS_AddElement
  <1>4. ASSUME Cardinality(Done(q, p) \cup {n}) = Cardinality(Consumers(q))
        PROVE  Done(q, p) \cup {n} = Consumers(q)
    BY <1>1, <1>4, FS_Subset
  <1>. QED  BY <1>2, <1>3, <1>4

(* What a release does, in terms of who is done. *)
LEMMA ReleaseEffect ==
  ASSUME Typed, Expected, Ready, RefsPlaced, NEW t \in Target, Release(t),
         NEW d, NEW q, NEW i, NEW prm, NEW r, Releases(t, d, q, i, prm, r)
  PROVE  LET full == IsLast(d[1], q, d[2]) input == d[1] \in Consumers(q)
         IN  /\ data_ref_q'[q][d[2]].acquired <=> ~full
             /\ data_ref_q'[q][d[2]].ref = r
             /\ data_ref_q'[q][d[2]].done = IF input THEN Cardinality(Done(q, d[2])) + 1 ELSE Cardinality(Done(q, d[2]))
             /\ \A s \in DataRefQ, o \in Pipe : s # q \/ o # d[2] => data_ref_q'[s][o] = data_ref_q[s][o]
             /\ \A x \in Ref : x # r => ref_done'[x] = ref_done[x]
             /\ ~full => ref_done'[r] = IF input THEN Cardinality(Done(q, d[2])) + 1 ELSE Cardinality(Done(q, d[2]))
             /\ \A s \in DataRefQ : acquire_q'[s] = IF full /\ s = q /\ q \notin GraphParam THEN Append(acquire_q[q], r) ELSE acquire_q[s]
             /\ \A s \in GraphParam : release_q'[s] = IF full /\ s = q THEN Append(release_q[q], r) ELSE release_q[s]
             /\ UNCHANGED <<executed, owned, frame>>
  <1>1. /\ task[t].at = "release" /\ d = task[t].desc /\ i = task[t].i
        /\ q = Param[d[1]][i][1] /\ prm = task[t].prm /\ r = prm[i]
    BY DEF Releases
  <1>2. /\ d \in Desc /\ d[1] \in Node /\ d[2] \in Pipe /\ q \in DataRefQ /\ r \in Ref
        /\ data_ref_q[q][d[2]].acquired /\ data_ref_q[q][d[2]].ref = r
        /\ data_ref_q[q][d[2]].done = Cardinality(Done(q, d[2]))
        /\ ref_done[r] = Cardinality(Done(q, d[2]))
        /\ ~Released(d[1], q, d[2]) /\ Param[d[1]][i][2] \in BOOLEAN
        /\ Param[d[1]][i][2] => d[1] \in Consumers(q)
        /\ ~Param[d[1]][i][2] => d[1] \in Producers(q) /\ d[1] \notin Consumers(q)
    BY ReleasesIs
  <1>3. PICK n, p, count, users, input, e, to_queue :
          /\ n = d[1] /\ p = d[2] /\ count = Cardinality(Done(q, p)) /\ users = Cardinality(Consumers(q))
          /\ input = Param[d[1]][i][2] /\ e = data_ref_q[q][p]
          /\ to_queue = IF input THEN ref_done[r] + 1 = users ELSE users = 0
    BY Zenon
  <1>4. Released1(t, q, p, r, input, users, e, to_queue)
    BY Zenon, <1>1, <1>3, ReleaseIs
  <1>5. /\ users \in Nat /\ (users = 0 <=> Consumers(q) = {})
        /\ input => count \in Nat /\ (count + 1 = users <=> Done(q, p) \cup {n} = Consumers(q))
    <2>1. users \in Nat /\ (users = 0 <=> Consumers(q) = {})
      BY <1>3, ConsumersIs
    <2>2. ASSUME input PROVE count \in Nat /\ (count + 1 = users <=> Done(q, p) \cup {n} = Consumers(q))
      BY <1>2, <1>3, <2>2, CountTells
    <2>. QED  BY <2>1, <2>2
  <1>6. PICK full : full = IsLast(n, q, p)
    OBVIOUS
  <1>7. /\ full \in BOOLEAN /\ input \in BOOLEAN /\ (input <=> n \in Consumers(q))
        /\ input => (count + 1 = users <=> full)
        /\ ~input => (users = 0 <=> full)
    <2>1. input => n \in Consumers(q) /\ n \notin Producers(q)
      <3>1. n \in Node /\ i \in 1 .. Len(Param[n]) /\ q = Param[n][i][1] /\ input = Param[n][i][2]
        BY ZenonT(30), <1>1, <1>2, <1>3, ReleasesIs
      <3>. QED  BY <3>1, UserOf
    <2>. QED  BY <1>2, <1>3, <1>5, <1>6, <2>1 DEF IsLast
  <1>8. /\ e.acquired /\ e.ref = r /\ e.done = count /\ ref_done[r] = count
        /\ to_queue \in BOOLEAN /\ (to_queue <=> full)
    BY <1>2, <1>3, <1>7
  <1>9. /\ data_ref_q \in [DataRefQ -> [Pipe -> Entry]] /\ ref_done \in [Ref -> Nat]
        /\ acquire_q \in [DataRefQ -> Seq(Ref)] /\ release_q \in [GraphParam -> Seq(Ref)]
    BY SMTT(30), TypedIs DEF DataTypeOK
  <1>10. /\ data_ref_q'[q][p].acquired <=> ~full
         /\ data_ref_q'[q][p].ref = r
         /\ data_ref_q'[q][p].done = IF input THEN count + 1 ELSE count
         /\ \A s \in DataRefQ, o \in Pipe : s # q \/ o # p => data_ref_q'[s][o] = data_ref_q[s][o]
    BY <1>4, <1>2, <1>3, <1>9, <1>8, <1>7 DEF Released1
  <1>11. /\ \A x \in Ref : x # r => ref_done'[x] = ref_done[x]
         /\ ~full => ref_done'[r] = IF input THEN count + 1 ELSE count
    BY <1>4, <1>2, <1>9, <1>8 DEF Released1
  <1>12. /\ \A s \in DataRefQ : acquire_q'[s] = IF full /\ s = q /\ q \notin GraphParam THEN Append(acquire_q[q], r) ELSE acquire_q[s]
         /\ \A s \in GraphParam : release_q'[s] = IF full /\ s = q THEN Append(release_q[q], r) ELSE release_q[s]
    BY <1>4, <1>8, <1>2, <1>9, <1>7 DEF Released1
  <1>13. UNCHANGED <<executed, owned, frame>>
    BY <1>4 DEF Released1, nodes
  <1>. QED  BY SMTT(30), <1>3, <1>6, <1>7, <1>10, <1>11, <1>12, <1>13

(* The parameter is released, and held no longer.                            *)
LEMMA ReleaseTaskIs ==
  ASSUME Typed, Expected, Ready, RefsPlaced, NEW t \in Target, Release(t),
         NEW d, NEW q, NEW i, NEW prm, NEW r, Releases(t, d, q, i, prm, r)
  PROVE  /\ task'[t].desc = d /\ task'[t].prm = prm
         /\ ToRelease(t)' = ToRelease(t) \ {q}
         /\ Held(t)' = Held(t) \ {i}
         /\ \A u \in Target \ {t} : task'[u] = task[u]
  <1>0. task \in [Target -> Task] /\ TasksShaped
    BY TypedIs DEF DataTypeOK
  <1>1. /\ task[t].at = "release" /\ d = task[t].desc /\ i = task[t].i
        /\ q = Param[d[1]][i][1] /\ prm = task[t].prm /\ r = prm[i]
    BY DEF Releases
  <1>2. /\ d[1] \in Node /\ Len(Param[d[1]]) \in Nat \ {0} /\ i \in 1 .. Len(Param[d[1]])
        /\ Len(prm) = Len(Param[d[1]])
    BY ReleasesIs
  <1>3. PICK n, len, at, h : /\ n = d[1] /\ len = Len(Param[n]) /\ h = i + 1
                             /\ at = IF i = len THEN "send_complete" ELSE "release"
    OBVIOUS
  <1>4. \E send, retrigger : TaskTo(t, at, d, h, prm, send, retrigger)
    BY Zenon, <1>0, <1>1, <1>3, ReleaseTask
  <1>5. PICK send, retrigger : TaskTo(t, at, d, h, prm, send, retrigger)
    BY <1>4
  <1>6. /\ task'[t].at = at /\ task'[t].desc = d /\ task'[t].i = h /\ task'[t].prm = prm
        /\ \A u \in Target \ {t} : task'[u] = task[u]
    BY <1>0, <1>5, TaskToIs
  <1>7. n \in Node /\ len \in Nat \ {0} /\ i \in 1 .. len /\ Len(prm) = len
    BY <1>2, <1>3
  <1>8. /\ i .. len = {i} \cup (h .. len) /\ i \notin h .. len /\ (i = len => h .. len = {})
    BY <1>3, <1>7
  <1>9. /\ ToRelease(t) = {Param[n][j][1] : j \in i .. len}
        /\ ToRelease(t)' = {Param[n][j][1] : j \in h .. len}
    <2>1. ToRelease(t) = {Param[n][j][1] : j \in i .. len}
      BY <1>1, <1>3 DEF ToRelease
    <2>2. CASE i = len
      <3>1. ToRelease(t)' = {}
        BY <1>3, <1>6, <2>2 DEF ToRelease
      <3>. QED  BY <1>8, <2>1, <2>2, <3>1
    <2>3. CASE i # len
      BY ZenonT(30), <1>3, <1>6, <2>3, <2>1 DEF ToRelease
    <2>. QED  BY SMTT(30), <2>2, <2>3
  <1>10. /\ Held(t) = i .. len /\ Held(t)' = h .. len
    BY SMTT(30), <1>1, <1>7, <1>3, <1>6, <1>8 DEF Held, Working
  <1>11. \A j \in 1 .. len : Param[n][j][1] = q => j = i
    BY <1>1, <1>3, <1>7, UserOf
  <1>12. ToRelease(t)' = ToRelease(t) \ {q}
    <2>1. \A j \in h .. len : j \in 1 .. len /\ j # i
      BY SMTT(30), <1>3, <1>7
    <2>2. Param[n][i][1] = q
      BY <1>1, <1>3
    <2>. QED  BY <1>8, <1>9, <1>11, <2>1, <2>2
  <1>13. Held(t)' = Held(t) \ {i}
    BY <1>8, <1>10
  <1>. QED  BY <1>6, <1>12, <1>13

(* One more node is done with the data reference, and nothing else changes. *)
OneMoreDone(d, q) ==
  /\ \A m \in Node, s \in DataRefQ, o \in Pipe :
       Released(m, s, o)' <=> Released(m, s, o) \/ (m = d[1] /\ o = d[2] /\ s = q)
  /\ Done(q, d[2])' = IF d[1] \in Consumers(q) THEN Done(q, d[2]) \cup {d[1]} ELSE Done(q, d[2])
  /\ \A s \in DataRefQ, o \in Pipe : s # q \/ o # d[2] => Done(s, o)' = Done(s, o)

(* One consumer more is done.                                                *)
LEMMA ReleasedAfter ==
  ASSUME Typed, Expected, Ready, RefsPlaced, NEW t \in Target, Release(t),
         NEW d, NEW q, NEW i, NEW prm, NEW r, Releases(t, d, q, i, prm, r)
  PROVE  OneMoreDone(d, q)
  <1>1. /\ d \in Desc /\ d[1] \in Node /\ d[2] \in Pipe /\ TargetOf[d[1]] = t /\ q \in DataRefQ
        /\ d = <<d[1], d[2]>> /\ d \in executed /\ q \in ToRelease(t) /\ ~Released(d[1], q, d[2])
    BY ReleasesIs
  <1>2. /\ task'[t].desc = d /\ ToRelease(t)' = ToRelease(t) \ {q}
        /\ \A u \in Target \ {t} : task'[u] = task[u]
    BY ReleaseTaskIs
  <1>3. task[t].desc = d
    BY DEF Releases
  <1>4. executed' = executed
    BY ReleaseEffect
  <1>5. ASSUME NEW m \in Node, NEW s \in DataRefQ, NEW o \in Pipe
        PROVE  Released(m, s, o)' <=> Released(m, s, o) \/ (m = d[1] /\ o = d[2] /\ s = q)
    <2>1. CASE TargetOf[m] = t
      BY <1>3, <2>1, <1>2, <1>4, <1>1 DEF Released
    <2>2. CASE TargetOf[m] # t
      BY <1>2, <2>2, Targets, TaskQuiet, <1>1, <1>4, ReleasedSame
    <2>. QED  BY <2>1, <2>2
  <1>6. \A c, s : c \in Consumers(s) => c \in Node
    BY DEF Consumers
  <1>7. Done(q, d[2])' = IF d[1] \in Consumers(q) THEN Done(q, d[2]) \cup {d[1]} ELSE Done(q, d[2])
    BY <1>1, <1>5, <1>6 DEF Done
  <1>8. ASSUME NEW s \in DataRefQ, NEW o \in Pipe, s # q \/ o # d[2] PROVE Done(s, o)' = Done(s, o)
    BY <1>5, <1>6, <1>8 DEF Done
  <1>. QED  BY <1>5, <1>7, <1>8 DEF OneMoreDone

(* The last user of an entry is the only one that holds it. *)
LEMMA FreedAlone ==
  ASSUME Typed, Expected, Ready, RefsPlaced, NEW t \in Target,
         NEW d, NEW q, NEW i, NEW prm, NEW r, Releases(t, d, q, i, prm, r), IsLast(d[1], q, d[2]),
         NEW u \in Target, NEW j \in Held(u), NEW c, c = task[u].desc, Param[c[1]][j][1] = q, c[2] = d[2]
  PROVE  u = t /\ j = i
  <1>1. /\ d \in Desc /\ d[1] \in Node /\ d[2] \in Pipe /\ TargetOf[d[1]] = t /\ q \in DataRefQ
        /\ d = <<d[1], d[2]>> /\ d \in executed /\ i \in 1 .. Len(Param[d[1]])
    BY ReleasesIs
  <1>2. PICK n, p : n = d[1] /\ p = d[2] /\ d = <<n, p>> /\ n \in Node /\ p \in Pipe
    BY SMTT(30), <1>1
  <1>3. task[t].desc = d /\ q = Param[n][i][1]
    BY <1>2 DEF Releases
  <1>4. PICK m : m = c[1] /\ c = <<m, p>> /\ c \in Desc /\ m \in Node /\ j \in 1 .. Len(Param[m]) /\ TargetOf[m] = u /\ task[u].desc = <<m, p>>
    BY HeldIs, OwnDesc, <1>2, NoneIs DEF Held, Working
  <1>5. Param[m][j][1] = q /\ (m \in Consumers(q) \/ m \in Producers(q))
    BY <1>4, UserOf
  <1>6. CASE m = n
    BY <1>1, <1>2, <1>4, <1>6, <1>3, <1>5, UserOf
  <1>7. CASE m # n
    <2>1. u # t
      BY <1>2, <1>3, <1>4, <1>7
    <2>2. CASE n \in Consumers(q) /\ Done(q, p) \cup {n} = Consumers(q)
      <3>1. q \in ToRelease(u) \/ Working(u)
        BY <1>4, TypedIs, <1>5 DEF Held, TasksShaped, Shaped, ToRelease
      <3>2. CASE m \in Consumers(q)
        BY <1>7, <2>2, <3>2, <1>4, <3>1 DEF Done, Released, Expected, Unexecuted
      <3>3. CASE m \in Producers(q)
        <4>1. m \in InNodes(n) /\ n \in OutNodes(m)
          BY <1>1, <2>2, <3>3, Feeds
        <4>2. CASE Working(u)
          BY <1>1, <1>2, <4>1, CanRun, <1>4, <4>2 DEF Ready, ExecutedClosed, Expected,
             Unexecuted
        <4>3. CASE ~Working(u)
          BY <4>3, <1>4, <4>1, <1>1, <1>2 DEF Held, ToTrigger, Pending, Releasing, Ready,
             TriggerFresh
        <4>. QED  BY <4>2, <4>3
      <3>. QED  BY <1>5, <3>2, <3>3
    <2>3. CASE n \in Producers(q) /\ Consumers(q) = {}
      BY SMTT(30), <1>1, <1>5, <1>7, <2>3, GraphAssumption
    <2>. QED  BY SMTT(30), <1>2, <2>2, <2>3 DEF IsLast
  <1>. QED  BY <1>6, <1>7

(* The counts and the entries after a release. *)
LEMMA ReleaseEntries ==
  ASSUME Typed, Expected, Ready, RefsPlaced, NEW t \in Target, Release(t),
         NEW d, NEW q, NEW i, NEW prm, NEW r, Releases(t, d, q, i, prm, r)
  PROVE  EntryNeeded' /\ EntryCounted' /\ EntryThere'
  <1>1. /\ d \in Desc /\ d[1] \in Node /\ d[2] \in Pipe /\ q \in DataRefQ
        /\ data_ref_q[q][d[2]].acquired /\ data_ref_q[q][d[2]].ref = r
        /\ ~Released(d[1], q, d[2])
        /\ d[1] \in Consumers(q) \/ (d[1] \in Producers(q) /\ d[1] \notin Consumers(q))
    BY ReleasesIs
  <1>2. PICK n, p, full, input, count :
          /\ n = d[1] /\ p = d[2] /\ full = IsLast(n, q, p) /\ input = (n \in Consumers(q))
          /\ count = Cardinality(Done(q, p))
    OBVIOUS
  <1>3. /\ data_ref_q'[q][p].acquired <=> ~full
        /\ data_ref_q'[q][p].ref = r
        /\ data_ref_q'[q][p].done = IF input THEN count + 1 ELSE count
        /\ \A s \in DataRefQ, o \in Pipe : s # q \/ o # p => data_ref_q'[s][o] = data_ref_q[s][o]
        /\ \A x \in Ref : x # r => ref_done'[x] = ref_done[x]
        /\ ~full => ref_done'[r] = IF input THEN count + 1 ELSE count
        /\ UNCHANGED <<executed, frame>>
    <2>. DEFINE last == IsLast(d[1], q, d[2]) in == d[1] \in Consumers(q)
    <2>1. /\ data_ref_q'[q][d[2]].acquired <=> ~last
          /\ data_ref_q'[q][d[2]].ref = r
          /\ data_ref_q'[q][d[2]].done = IF in THEN Cardinality(Done(q, d[2])) + 1 ELSE Cardinality(Done(q, d[2]))
          /\ \A s \in DataRefQ, o \in Pipe : s # q \/ o # d[2] => data_ref_q'[s][o] = data_ref_q[s][o]
          /\ \A x \in Ref : x # r => ref_done'[x] = ref_done[x]
          /\ ~last => ref_done'[r] = IF in THEN Cardinality(Done(q, d[2])) + 1 ELSE Cardinality(Done(q, d[2]))
          /\ UNCHANGED <<executed, frame>>
      BY ReleaseEffect
    <2>2. (last <=> full) /\ (in <=> input) /\ d[2] = p /\ Cardinality(Done(q, d[2])) = count
      BY <1>2
    <2>. HIDE DEF last, in
    <2>. QED  BY <2>1, <2>2
  <1>4. /\ \A m \in Node, s \in DataRefQ, o \in Pipe :
              Released(m, s, o)' <=> Released(m, s, o) \/ (m = n /\ o = p /\ s = q)
        /\ Done(q, p)' = IF input THEN Done(q, p) \cup {n} ELSE Done(q, p)
        /\ \A s \in DataRefQ, o \in Pipe : s # q \/ o # p => Done(s, o)' = Done(s, o)
    <2>1. /\ \A m \in Node, s \in DataRefQ, o \in Pipe :
               Released(m, s, o)' <=> Released(m, s, o) \/ (m = d[1] /\ o = d[2] /\ s = q)
          /\ Done(q, d[2])' = IF d[1] \in Consumers(q) THEN Done(q, d[2]) \cup {d[1]} ELSE Done(q, d[2])
          /\ \A s \in DataRefQ, o \in Pipe : s # q \/ o # d[2] => Done(s, o)' = Done(s, o)
      <3>1. OneMoreDone(d, q)
        BY ReleasedAfter
      <3>. QED  BY <3>1 DEF OneMoreDone
    <2>. QED  BY <1>2, <2>1
  <1>5. frame[p] > 0
    BY <1>1, <1>2 DEF RefsPlaced, EntryNeeded
  <1>6. full => Done(q, p)' = Consumers(q)
    BY <1>2, <1>4 DEF IsLast, Done
  <1>7. ASSUME ~full
        PROVE  /\ \E m \in LastUsers(q) : ~Released(m, q, p)'
               /\ Cardinality(Done(q, p)') = IF input THEN count + 1 ELSE count
    <2>1. CASE input
      BY <1>2, <1>4, <1>7, <2>1, <1>1, LastUsersIs, CountTells DEF IsLast, Done
    <2>2. CASE ~input
      <3>1. Consumers(q) # {} /\ n \notin Consumers(q)
        BY <1>1, <1>2, <1>7, <2>2 DEF IsLast
      <3>2. LastUsers(q) = Consumers(q) /\ LastUsers(q) \subseteq Node
        BY <1>1, <3>1, LastUsersIs
      <3>3. PICK m \in LastUsers(q) : ~Released(m, q, p)
        BY <1>1, <1>2 DEF RefsPlaced, EntryNeeded
      <3>4. ~Released(m, q, p)'
        BY SMTT(30), <1>1, <1>2, <1>4, <3>1, <3>2, <3>3
      <3>. QED  BY <1>2, <1>4, <2>2, <3>3, <3>4
    <2>. QED  BY <1>2, <2>1, <2>2
  <1>8. ASSUME NEW s \in DataRefQ, NEW o \in Pipe
         PROVE  /\ data_ref_q'[s][o].acquired =>
                     /\ frame'[o] > 0 /\ \E m \in LastUsers(s) : ~Released(m, s, o)'
                     /\ data_ref_q'[s][o].done = Cardinality(Done(s, o)')
                     /\ ref_done'[data_ref_q'[s][o].ref] = data_ref_q'[s][o].done
                /\ (\E m \in Producers(s) : <<m, o>> \in executed') \/ Done(s, o)' # {} =>
                     data_ref_q'[s][o].acquired \/ Done(s, o)' = Consumers(s)
    <2>1. CASE s = q /\ o = p
      BY <1>3, <1>6, <2>1, <1>5, <1>7, <1>2
    <2>2. CASE s # q \/ o # p
      <3>1. data_ref_q'[s][o] = data_ref_q[s][o] /\ Done(s, o)' = Done(s, o)
        BY <1>3, <1>4, <2>2
      <3>2. ASSUME data_ref_q[s][o].acquired
            PROVE  /\ frame'[o] > 0 /\ \E m \in LastUsers(s) : ~Released(m, s, o)'
                   /\ data_ref_q[s][o].done = Cardinality(Done(s, o))
                   /\ ref_done'[data_ref_q[s][o].ref] = data_ref_q[s][o].done
        BY <1>1, <1>2, <2>2, <3>2, EntryAlone, TypedIs, <1>3, <1>4, LastUsersIs DEF RefsPlaced,
           EntriesNamed, EntryNeeded, EntryCounted
      <3>3. (\E m \in Producers(s) : <<m, o>> \in executed) \/ Done(s, o) # {} =>
              data_ref_q[s][o].acquired \/ Done(s, o) = Consumers(s)
        BY Zenon DEF RefsPlaced, EntryThere
      <3>. QED  BY <1>3, <3>1, <3>2, <3>3
    <2>. QED  BY <2>1, <2>2
  <1>. QED  BY <1>8 DEF EntryNeeded, EntryCounted, EntryThere, Producers, Consumers, LastUsers

(* Other tasks still hold their references.                                  *)
LEMMA ReleaseHeld ==
  ASSUME Typed, Expected, Ready, RefsPlaced, NEW t \in Target, Release(t),
         NEW d, NEW q, NEW i, NEW prm, NEW r, Releases(t, d, q, i, prm, r)
  PROVE  EntryHeld'
  <1>1. /\ d[2] \in Pipe /\ q \in DataRefQ /\ data_ref_q[q][d[2]].acquired /\ data_ref_q[q][d[2]].ref = r
    BY ReleasesIs
  <1>2. PICK p : p = d[2] /\ p \in Pipe
    BY <1>1
  <1>3. /\ data_ref_q'[q][p].acquired <=> ~IsLast(d[1], q, d[2])
        /\ data_ref_q'[q][p].ref = r
        /\ \A s \in DataRefQ, o \in Pipe : s # q \/ o # p => data_ref_q'[s][o] = data_ref_q[s][o]
    BY <1>2, ReleaseEffect
  <1>4. /\ task'[t].desc = d /\ task'[t].prm = prm /\ Held(t)' = Held(t) \ {i}
        /\ \A u \in Target \ {t} : task'[u] = task[u]
    BY ReleaseTaskIs
  <1>5. task[t].desc = d /\ task[t].prm = prm
    BY Zenon DEF Releases
  <1>6. ASSUME NEW u \in Target, NEW j \in Held(u), u # t \/ j # i
        PROVE  LET c == task[u].desc o == Param[c[1]][j][1]
               IN data_ref_q'[o][c[2]].acquired /\ data_ref_q'[o][c[2]].ref = task[u].prm[j]
    <2>1. PICK c, o : c = task[u].desc /\ o = Param[c[1]][j][1]
      BY Zenon
    <2>2. data_ref_q[o][c[2]].acquired /\ data_ref_q[o][c[2]].ref = task[u].prm[j]
      BY Zenon, <2>1 DEF RefsPlaced, EntryHeld
    <2>3. c \in Desc /\ j \in 1 .. Len(Param[c[1]])
      BY SMTT(30), <2>1, HeldIs
    <2>4. o \in DataRefQ /\ c[2] \in Pipe
      BY <2>1, <2>3, NoneIs, UserOf
    <2>5. CASE o = q /\ c[2] = p
      <3>1. ~IsLast(d[1], q, d[2])
        <4>1. c = task[u].desc /\ Param[c[1]][j][1] = q /\ c[2] = d[2]
          BY <1>2, <2>1, <2>5
        <4>2. IsLast(d[1], q, d[2]) => u = t /\ j = i
          BY <4>1, FreedAlone
        <4>. QED  BY <1>6, <4>2
      <3>. QED  BY <1>1, <1>2, <1>3, <2>1, <2>2, <2>5, <3>1
    <2>6. CASE ~(o = q /\ c[2] = p)
      <3>1. data_ref_q'[o][c[2]] = data_ref_q[o][c[2]]
        BY Zenon, <1>3, <2>4, <2>6
      <3>. QED  BY Zenon, <2>1, <2>2, <3>1
    <2>. QED  BY Zenon, <2>5, <2>6
  <1>7. \A j \in Held(t)' : LET c == task'[t].desc o == Param[c[1]][j][1]
                            IN data_ref_q'[o][c[2]].acquired /\ data_ref_q'[o][c[2]].ref = task'[t].prm[j]
    <2>. SUFFICES ASSUME NEW j \in Held(t)'
                  PROVE  LET o == Param[d[1]][j][1]
                         IN data_ref_q'[o][d[2]].acquired /\ data_ref_q'[o][d[2]].ref = prm[j]
      BY <1>4
    <2>1. j \in Held(t) /\ j # i
      BY Zenon, <1>4
    <2>. QED  BY ZenonT(30), <1>5, <1>6, <2>1
  <1>8. \A u \in Target \ {t} : \A j \in Held(u) :
         LET c == task[u].desc o == Param[c[1]][j][1]
         IN data_ref_q'[o][c[2]].acquired /\ data_ref_q'[o][c[2]].ref = task[u].prm[j]
    BY Zenon, <1>6
  <1>. QED  BY Zenon, <1>4, <1>7, <1>8, HeldBy

(* The reference stays in the entry or goes to one queue.                    *)
LEMMA ReleasePlaces ==
  ASSUME Typed, Expected, Ready, RefsPlaced, NEW t \in Target, Release(t),
         NEW d, NEW q, NEW i, NEW prm, NEW r, Releases(t, d, q, i, prm, r)
  PROVE  OnePlace' /\ OwnBuffers'
  <1>1. /\ d[2] \in Pipe /\ q \in DataRefQ /\ r \in Ref
        /\ data_ref_q[q][d[2]].acquired /\ data_ref_q[q][d[2]].ref = r
    BY ReleasesIs
  <1>2. PICK p, full : p = d[2] /\ p \in Pipe /\ full = IsLast(d[1], q, d[2])
    BY <1>1
  <1>3. /\ data_ref_q'[q][p].acquired <=> ~full
        /\ data_ref_q'[q][p].ref = r
        /\ \A s \in DataRefQ, o \in Pipe : s # q \/ o # p => data_ref_q'[s][o] = data_ref_q[s][o]
        /\ \A s \in DataRefQ : acquire_q'[s] = IF full /\ s = q /\ q \notin GraphParam THEN Append(acquire_q[q], r) ELSE acquire_q[s]
        /\ \A s \in GraphParam : release_q'[s] = IF full /\ s = q THEN Append(release_q[q], r) ELSE release_q[s]
        /\ owned' = owned
    BY <1>2, ReleaseEffect
  <1>4. /\ r \in Range(Buffers[q]) /\ r \notin owned /\ r \notin Range(acquire_q[q])
        /\ q \in GraphParam => r \notin Range(release_q[q])
        /\ \A o \in Pipe : data_ref_q[q][o].acquired /\ data_ref_q[q][o].ref = r => o = p
    BY <1>1, <1>2, EntryAlone DEF RefsPlaced
  <1>5. /\ acquire_q \in [DataRefQ -> Seq(Ref)] /\ release_q \in [GraphParam -> Seq(Ref)]
        /\ GraphParam \subseteq DataRefQ
    BY RefAssumption, TypedIs DEF DataTypeOK
  <1>6. ASSUME NEW s \in DataRefQ, NEW o \in Pipe, s # q \/ o # p \/ ~full
        PROVE  /\ data_ref_q'[s][o].acquired <=> data_ref_q[s][o].acquired
               /\ data_ref_q[s][o].acquired => data_ref_q'[s][o].ref = data_ref_q[s][o].ref
    BY <1>1, <1>2, <1>3, <1>6
  <1>7. CASE ~full
    <2>1. \A s \in DataRefQ : acquire_q'[s] = acquire_q[s]
      BY <1>3, <1>7
    <2>2. \A s \in GraphParam : release_q'[s] = release_q[s]
      BY <1>3, <1>7
    <2>3. \A s \in DataRefQ, o \in Pipe :
             /\ data_ref_q'[s][o].acquired <=> data_ref_q[s][o].acquired
             /\ data_ref_q[s][o].acquired => data_ref_q'[s][o].ref = data_ref_q[s][o].ref
      BY <1>6, <1>7
    <2>4. ASSUME NEW s \in DataRefQ, NEW x PROVE \A m \in Locations : IsAt(m, s, x)' <=> IsAt(m, s, x)
      BY <1>3, <2>1, <2>2, <2>3 DEF IsAt
    <2>5. OnePlace'
      BY <2>4 DEF RefsPlaced, OnePlace, Locations
    <2>6. OwnBuffers'
      BY <2>1, <2>2, <2>3 DEF RefsPlaced, OwnBuffers
    <2>. QED  BY <2>5, <2>6
  <1>8. CASE full
    <2>1. PICK l : l = (IF q \in GraphParam THEN "release" ELSE "acquire") /\ l \in Locations
      BY DEF Locations
    <2>2. /\ Range(acquire_q'[q]) = IF q \in GraphParam THEN Range(acquire_q[q]) ELSE Range(acquire_q[q]) \cup {r}
          /\ IsInjective(acquire_q[q]) => IsInjective(acquire_q'[q])
          /\ \A s \in DataRefQ \ {q} : acquire_q'[s] = acquire_q[s]
      <3>1. CASE q \in GraphParam
        BY <1>1, <1>3, <3>1
      <3>2. CASE q \notin GraphParam
        BY SMTT(30), <1>1, <1>3, <1>4, <1>5, <1>8, <3>2, Appended
      <3>. QED  BY <3>1, <3>2
    <2>3. /\ q \in GraphParam => /\ Range(release_q'[q]) = Range(release_q[q]) \cup {r}
                                 /\ IsInjective(release_q[q]) => IsInjective(release_q'[q])
          /\ \A s \in GraphParam \ {q} : release_q'[s] = release_q[s]
      BY <1>3, <1>4, <1>5, <1>8, <1>1, Appended
    <2>4. ~data_ref_q'[q][p].acquired
      BY <1>3, <1>8
    <2>5. OnePlace'
      <3>1. \A m \in Locations : IsAt(m, q, r)' <=> m = l
        <4>1. ~IsAt("owned", q, r)'
          BY <1>3, <1>4 DEF IsAt
        <4>2. ~IsAt("entry", q, r)'
          BY <2>4, <1>1, <1>3, <1>4 DEF IsAt
        <4>3. IsAt("acquire", q, r)' <=> q \notin GraphParam
          BY <1>4, <2>2 DEF IsAt
        <4>4. IsAt("release", q, r)' <=> q \in GraphParam
          BY <2>3 DEF IsAt
        <4>. QED  BY <2>1, <4>1, <4>2, <4>3, <4>4 DEF Locations
      <3>2. ASSUME NEW s \in DataRefQ, NEW x \in Range(Buffers[s]), x # r, NEW m \in Locations
            PROVE  IsAt(m, s, x)' <=> IsAt(m, s, x)
        BY SMTT(30), <2>2, <3>2, <2>3, <1>1, <1>2, <1>3 DEF IsAt, Locations
      <3>. QED  BY <1>1, <1>4, <2>1, <3>1, <3>2, OnePlaceMoves DEF RefsPlaced
    <2>6. OwnBuffers'
      BY <1>4, <2>2, <2>3, <1>3, <2>4 DEF RefsPlaced, OwnBuffers
    <2>. QED  BY <2>5, <2>6
  <1>. QED  BY <1>2, <1>7, <1>8

(* A release keeps references in place.                                      *)
LEMMA ReleaseRefs ==
  ASSUME Typed, Expected, Ready, RefsPlaced, NEW t \in Target, Release(t)
  PROVE  RefsPlaced'
  <1>1. PICK d, q, i, prm, r : Releases(t, d, q, i, prm, r)
    BY Zenon DEF Release, Releases, At
  <1>2. EntryNeeded' /\ EntryCounted' /\ EntryThere'
    BY <1>1, ReleaseEntries
  <1>3. EntryHeld'
    BY <1>1, ReleaseHeld
  <1>4. OnePlace' /\ OwnBuffers'
    BY <1>1, ReleasePlaces
  <1>. QED  BY Zenon, <1>2, <1>3, <1>4 DEF RefsPlaced

(* So does an acquisition.                                                   *)
LEMMA AcquireRefs ==
  ASSUME Typed, Expected, Ready, RefsPlaced, NEW t \in Target, Acquire(t)
  PROVE  RefsPlaced'
  <1>1. PICK d, q, i, prm : Acquiring(t, d, q, i, prm)
    BY Zenon DEF Acquire, Acquiring, At
  <1>2. CASE data_ref_q[q][d[2]].acquired \/ acquire_q[q] = <<>>
    BY <1>1, <1>2, AcquireQuietRefs
  <1>3. CASE ~data_ref_q[q][d[2]].acquired /\ acquire_q[q] # <<>>
    BY <1>1, <1>3, AcquireFreshRefs
  <1>. QED  BY Zenon, <1>2, <1>3

(* And every other step.                                                     *)
LEMMA RefsKept ==
  ASSUME Typed, Expected, Ready, RefsPlaced, [Next]_vars
  PROVE  RefsPlaced'
  <1>1. SP!Inv
    BY DEF Typed
  <1>. QED  BY <1>1, Steps, QuietRefs, EnqueueRefs, DequeueRefs, StartsRefs, AcquireRefs, CompleteRefs, ReleaseRefs DEF HostPops

(* At the start the references are with the application or in their queues.  *)
LEMMA InitRefs == Init => RefsPlaced
  <1>. SUFFICES ASSUME Init PROVE RefsPlaced
    OBVIOUS
  <1>1. /\ \A q \in DataRefQ, p \in Pipe : data_ref_q[q][p].acquired = FALSE
        /\ \A t \in Target : task[t].at = "idle"
        /\ executed = {}
    BY DEF Init, Empty, TaskIdle
  <1>2. EntryNeeded /\ EntryCounted
    BY <1>1 DEF EntryNeeded, EntryCounted
  <1>3. EntryThere
    BY SMTT(30), <1>1 DEF Done, Released, EntryThere
  <1>4. EntryHeld
    <2>1. \A t \in Target : Held(t) = {}
      BY <1>1 DEF Held, Working
    <2>. QED  BY <2>1 DEF EntryHeld
  <1>5. /\ acquire_q = [q \in DataRefQ |-> IF q \in GraphParam THEN <<>> ELSE Buffers[q]]
        /\ \A q \in GraphParam : release_q[q] = <<>>
        /\ owned = UNION {Range(Buffers[q]) : q \in GraphParam}
    BY DEF Init
  <1>6. \A q \in DataRefQ : acquire_q[q] = IF q \in GraphParam THEN <<>> ELSE Buffers[q]
    BY <1>5
  <1>7. OwnBuffers
    BY <1>6, EmptyHasNone, RefAssumption, <1>5, <1>1 DEF OwnBuffers
  <1>8. OnePlace
    <2>. SUFFICES ASSUME NEW q \in DataRefQ, NEW r \in Range(Buffers[q])
                  PROVE  \E l \in Locations : \A m \in Locations : IsAt(m, q, r) <=> m = l
      BY DEF OnePlace
    <2>1. ~IsAt("entry", q, r)
      BY <1>1 DEF IsAt
    <2>2. ~IsAt("release", q, r)
      BY <1>5, EmptyHasNone DEF IsAt
    <2>3. CASE q \in GraphParam
      BY <1>5, <2>3, <1>6, EmptyHasNone, <2>1, <2>2 DEF IsAt, Locations
    <2>4. CASE q \notin GraphParam
      BY <1>5, RefAssumption, <2>4, OwnerOf, <1>6, <2>1, <2>2 DEF IsAt, Locations
    <2>. QED  BY <2>3, <2>4
  <1>. QED  BY <1>2, <1>3, <1>4, <1>7, <1>8 DEF RefsPlaced

(* References are in place.                                                  *)
LEMMA RefsInv ==
  ASSUME SamePredTarget
  PROVE  Spec => []RefsPlaced
  <1>1. Typed /\ Expected /\ Ready /\ RefsPlaced /\ [Next]_vars => RefsPlaced'
    BY RefsKept
  <1>. QED  BY <1>1, InitRefs, TypedInv, ExpectedInv, ReadyInv, PTL DEF Spec

(* What is in an injective sequence is there once. *)
LEMMA OccursOnce ==
  ASSUME NEW s, IsInjective(s), NEW e
  PROVE  Occurrences(s, e) = IF e \in Range(s) THEN 1 ELSE 0
  BY SMTT(30), FS_Singleton, FS_EmptySet DEF Range, IsInjective, Occurrences

(* What is in place is in one place, counted.                                *)
LEMMA PlacedOnce == RefsPlaced => RefInOnePlace
  <1>. SUFFICES ASSUME RefsPlaced, NEW q \in DataRefQ, NEW r \in Range(Buffers[q])
                PROVE  1 = (IF r \in owned THEN 1 ELSE 0)
                           + Occurrences(acquire_q[q], r)
                           + (IF q \in GraphParam THEN Occurrences(release_q[q], r) ELSE 0)
                           + Cardinality({p \in Pipe : data_ref_q[q][p].acquired /\ data_ref_q[q][p].ref = r})
    BY DEF RefInOnePlace
  <1>. DEFINE held == {p \in Pipe : data_ref_q[q][p].acquired /\ data_ref_q[q][p].ref = r}
  <1>1. Occurrences(acquire_q[q], r) = IF IsAt("acquire", q, r) THEN 1 ELSE 0
    BY OccursOnce DEF RefsPlaced, OwnBuffers, IsAt
  <1>2. (IF q \in GraphParam THEN Occurrences(release_q[q], r) ELSE 0) = IF IsAt("release", q, r) THEN 1 ELSE 0
    BY OccursOnce DEF RefsPlaced, OwnBuffers, IsAt
  <1>3. Cardinality(held) = IF IsAt("entry", q, r) THEN 1 ELSE 0
    <2>1. CASE IsAt("entry", q, r)
      <3>1. PICK p \in Pipe : data_ref_q[q][p].acquired /\ data_ref_q[q][p].ref = r
        BY <2>1 DEF IsAt
      <3>2. held = {p}
        BY <3>1 DEF RefsPlaced, OwnBuffers
      <3>. QED  BY <2>1, <3>2, FS_Singleton
    <2>2. CASE ~IsAt("entry", q, r)
      BY <2>2, FS_EmptySet DEF IsAt
    <2>. QED  BY <2>1, <2>2
  <1>4. r \in owned <=> IsAt("owned", q, r)
    BY DEF IsAt
  <1>5. PICK l \in Locations : \A m \in Locations : IsAt(m, q, r) <=> m = l
    BY DEF RefsPlaced, OnePlace
  <1>6. PICK a, b, c, e : /\ a = (IF r \in owned THEN 1 ELSE 0) /\ b = Occurrences(acquire_q[q], r)
                          /\ c = (IF q \in GraphParam THEN Occurrences(release_q[q], r) ELSE 0)
                          /\ e = Cardinality(held)
    OBVIOUS
  <1>7. /\ a = (IF l = "owned" THEN 1 ELSE 0) /\ b = (IF l = "acquire" THEN 1 ELSE 0)
        /\ c = (IF l = "release" THEN 1 ELSE 0) /\ e = (IF l = "entry" THEN 1 ELSE 0)
    BY <1>1, <1>2, <1>3, <1>4, <1>5, <1>6 DEF Locations
  <1>8. a + b + c + e = 1
    BY <1>5, <1>7 DEF Locations
  <1>. QED  BY <1>6, <1>8

(* Under the same condition a buffer is with the application, in one queue,  *)
(* or with one execution, however acquisitions, releases and the calls of    *)
(* the application interleave (vx_target_acquire_parameters.c).              *)
THEOREM RefsInOnePlace ==
  ASSUME SamePredTarget
  PROVE  Spec => []RefInOnePlace
  BY RefsInv, PlacedOnce, PTL

-----------------------------------------------------------------------------
(* Data of one execution. *)

(* What a producer wrote is there until its consumers are done. *)
EntryContent ==
  \A q \in DataRefQ, p \in Pipe : data_ref_q[q][p].acquired =>
    \A n \in Producers(q) : <<n, p>> \in executed => content[data_ref_q[q][p].ref] = frame[p]

(* Entries that keep their reference and its data stay as they are.          *)
LEMMA ContentKept ==
  ASSUME EntryContent,
         \A q \in DataRefQ, p \in Pipe : data_ref_q'[q][p].acquired =>
           /\ data_ref_q[q][p].acquired /\ data_ref_q'[q][p].ref = data_ref_q[q][p].ref
           /\ content'[data_ref_q[q][p].ref] = content[data_ref_q[q][p].ref] /\ frame'[p] = frame[p]
           /\ \A n \in Producers(q) : <<n, p>> \in executed' => <<n, p>> \in executed
  PROVE  EntryContent'
  <1>1. ASSUME NEW q \in DataRefQ, NEW p \in Pipe, data_ref_q'[q][p].acquired,
               NEW n \in Producers(q), <<n, p>> \in executed'
        PROVE  content'[data_ref_q'[q][p].ref] = frame'[p]
    BY <1>1 DEF EntryContent
  <1>. QED  BY <1>1 DEF EntryContent, Producers

(* The application writes to references that are in no entry.                *)
LEMMA EnqueueContent ==
  ASSUME Typed, RefsPlaced, EntryContent, NEW a \in App, NEW q \in GraphParam, NEW r \in Ref, EnqueueReadyRef(a, q, r)
  PROVE  EntryContent'
  BY EntryAlone, TypedIs, ContentKept DEF EnqueueReadyRef, nodes, RefsPlaced, EntriesNamed,
     DataTypeOK

(* A kernel writes the references of its outputs, and no others. *)
LEMMA CompleteContent ==
  ASSUME Typed, Expected, RefsPlaced, EntryContent, NEW t \in Target, Complete(t)
  PROVE  EntryContent'
  <1>1. PICK d, n, p, prm : /\ d = task[t].desc /\ n = d[1] /\ p = d[2] /\ prm = task[t].prm
                            /\ n \in Node /\ p \in Pipe /\ d = <<n, p>>
    BY CompleteEffect, NoneIs
  <1>2. PICK outputs : outputs = {prm[i] : i \in {j \in DOMAIN Param[n] : ~Param[n][j][2]}}
    OBVIOUS
  <1>3. /\ content' = [r \in Ref |-> IF r \in outputs THEN frame[p] ELSE content[r]]
        /\ executed' = executed \cup {d} /\ UNCHANGED <<data_ref_q, frame>>
    BY <1>1, <1>2 DEF Complete, refs
  <1>4. DOMAIN Param[n] = 1 .. Len(Param[n]) /\ Held(t) = 1 .. Len(Param[n])
    BY <1>1, CompleteEffect, TypedIs, Parameters DEF TasksShaped, Shaped, Held, Working
  <1>5. ASSUME NEW q \in DataRefQ, NEW o \in Pipe, data_ref_q[q][o].acquired, data_ref_q[q][o].ref \in outputs
        PROVE  o = p /\ \A m \in Producers(q) : m = n
    <2>1. PICK i \in 1 .. Len(Param[n]) : ~Param[n][i][2] /\ data_ref_q[q][o].ref = prm[i]
      BY <1>2, <1>4, <1>5
    <2>2. PICK s : s = Param[n][i][1] /\ s \in DataRefQ /\ n \in Producers(s)
      BY Zenon, <1>1, <2>1, UserOf
    <2>3. data_ref_q[s][p].acquired /\ data_ref_q[s][p].ref = prm[i]
      BY Zenon, <1>1, <1>4, <2>2 DEF RefsPlaced, EntryHeld
    <2>4. s = q /\ o = p
      <3>1. OnePlace /\ OwnBuffers
        BY DEF RefsPlaced
      <3>2. \A x \in DataRefQ, w \in Pipe :
              data_ref_q[x][w].acquired /\ data_ref_q[x][w].ref = data_ref_q[q][o].ref => x = q /\ w = o
        BY <1>5, <3>1, EntryAlone
      <3>. QED  BY ZenonT(30), <1>1, <2>1, <2>2, <2>3, <3>2
    <2>. QED  BY <2>2, <2>4, GraphAssumption
  <1>6. ASSUME NEW q \in DataRefQ, NEW o \in Pipe, data_ref_q[q][o].acquired,
               NEW m \in Producers(q), <<m, o>> \in executed'
        PROVE  content'[data_ref_q[q][o].ref] = frame[o]
    <2>1. PICK r : r = data_ref_q[q][o].ref /\ r \in Ref
      BY <1>6, TypedIs DEF EntriesNamed
    <2>2. content'[r] = IF r \in outputs THEN frame[p] ELSE content[r]
      BY <1>3, <2>1
    <2>3. CASE r \in outputs
      BY <1>5, <1>6, <2>1, <2>2, <2>3
    <2>4. CASE r \notin outputs
      <3>1. CASE <<m, o>> \in executed
        BY <1>6, <2>1, <2>2, <2>4, <3>1 DEF EntryContent
      <3>2. CASE <<m, o>> \notin executed
        <4>1. m = n /\ o = p
          BY <1>1, <1>3, <1>6, <3>2
        <4>2. PICK i \in 1 .. Len(Param[n]) : Param[n][i][1] = q
          BY <4>1, ParamOf
        <4>3. ~Param[n][i][2]
          BY Zenon, <1>1, <1>6, <4>1, <4>2, UserOf
        <4>4. r = prm[i]
          BY Zenon, <1>1, <1>4, <2>1, <4>1, <4>2 DEF RefsPlaced, EntryHeld
        <4>. QED  BY <1>2, <1>4, <2>4, <4>3, <4>4
      <3>. QED  BY <3>1, <3>2
    <2>. QED  BY <2>1, <2>3, <2>4
  <1>7. ASSUME NEW q \in DataRefQ, NEW o \in Pipe, data_ref_q'[q][o].acquired,
               NEW m \in Producers(q), <<m, o>> \in executed'
        PROVE  content'[data_ref_q'[q][o].ref] = frame'[o]
    BY <1>3, <1>6, <1>7
  <1>. QED  BY <1>7 DEF EntryContent, Producers

(* A reference that is acquired now was not produced yet. *)
LEMMA AcquireContent ==
  ASSUME Typed, Expected, Ready, RefsPlaced, EntryContent, NEW t \in Target, Acquire(t)
  PROVE  EntryContent'
  <1>1. PICK d, q, i, prm : Acquiring(t, d, q, i, prm)
    BY Zenon DEF Acquire, Acquiring, At
  <1>2. UNCHANGED <<content, executed, frame>>
    BY Zenon DEF Acquire, data
  <1>3. CASE data_ref_q[q][d[2]].acquired \/ acquire_q[q] = <<>>
    <2>1. data_ref_q' = data_ref_q
      <3>1. d = task[t].desc /\ q = Param[d[1]][task[t].i][1]
        BY Zenon, <1>1 DEF Acquiring
      <3>2. CASE data_ref_q[q][d[2]].acquired
        BY ZenonT(30), <3>1, <3>2 DEF Acquire
      <3>3. CASE ~data_ref_q[q][d[2]].acquired /\ acquire_q[q] = <<>>
        BY Zenon, <3>1, <3>3 DEF Acquire
      <3>. QED  BY <1>3, <3>2, <3>3
    <2>. QED  BY <1>2, <2>1, ContentKept
  <1>4. CASE ~data_ref_q[q][d[2]].acquired /\ acquire_q[q] # <<>>
    <2>1. PICK r : AcquiresRef(t, d, q, prm, r)
      BY <1>1, <1>4, AcquireFreshIs
    <2>2. /\ d \in Desc /\ d[1] \in Node /\ d[2] \in Pipe /\ q \in DataRefQ /\ i \in 1 .. Len(Param[d[1]])
      BY <1>1, AcquiringIs
    <2>3. q = Param[d[1]][i][1]
      BY <1>1 DEF Acquiring
    <2>4. PICK new : data_ref_q' = [data_ref_q EXCEPT ![q][d[2]] = new]
      BY <2>1 DEF AcquiresRef
    <2>5. \A s \in DataRefQ, o \in Pipe : s # q \/ o # d[2] => data_ref_q'[s][o] = data_ref_q[s][o]
      BY <2>2, <2>4, TypedIs DEF DataTypeOK
    <2>6. ASSUME NEW m \in Producers(q) PROVE <<m, d[2]>> \notin executed
      <3>1. Done(q, d[2]) = {} /\ d \notin executed
        BY <1>1, <1>4, NoneDone
      <3>2. d[1] \in Consumers(q) \/ d[1] \in Producers(q)
        BY <2>2, <2>3, UserOf
      <3>3. CASE d[1] \in Consumers(q)
        BY <1>4, <2>2, <3>1, <3>3 DEF RefsPlaced, EntryThere
      <3>4. CASE d[1] \in Producers(q)
        <4>1. m = d[1] /\ d = <<d[1], d[2]>>
          BY <2>2, <2>6, <3>4, GraphAssumption, NoneIs
        <4>. QED  BY <3>1, <4>1
      <3>. QED  BY <3>2, <3>3, <3>4
    <2>7. ASSUME NEW s \in DataRefQ, NEW o \in Pipe, data_ref_q'[s][o].acquired,
                 NEW m \in Producers(s), <<m, o>> \in executed
          PROVE  content[data_ref_q'[s][o].ref] = frame[o]
      BY <2>5, <2>6, <2>7 DEF EntryContent
    <2>. QED  BY <1>2, <2>7 DEF EntryContent, Producers
  <1>. QED  BY Zenon, <1>3, <1>4

(* A release writes nothing.                                                 *)
LEMMA ReleaseContent ==
  ASSUME Typed, Expected, Ready, RefsPlaced, EntryContent, NEW t \in Target, Release(t)
  PROVE  EntryContent'
  <1>1. PICK d, q, i, prm, r : Releases(t, d, q, i, prm, r)
    BY Zenon DEF Release, Releases, At
  <1>2. UNCHANGED <<content, executed, frame>>
    BY Zenon DEF Release, data, nodes
  <1>3. /\ d[2] \in Pipe /\ q \in DataRefQ /\ data_ref_q[q][d[2]].acquired /\ data_ref_q[q][d[2]].ref = r
    BY <1>1, ReleasesIs
  <1>4. /\ data_ref_q'[q][d[2]].ref = r
        /\ \A s \in DataRefQ, o \in Pipe : s # q \/ o # d[2] => data_ref_q'[s][o] = data_ref_q[s][o]
    BY <1>1, ReleaseEffect
  <1>5. \A s \in DataRefQ, o \in Pipe : data_ref_q'[s][o].acquired =>
           data_ref_q[s][o].acquired /\ data_ref_q'[s][o].ref = data_ref_q[s][o].ref
    BY <1>3, <1>4
  <1>. QED  BY Zenon, <1>2, <1>5, ContentKept

(* An id that is started has no entry yet.                                   *)
LEMMA StartsContent ==
  ASSUME Typed, Expected, Ready, RefsPlaced, EntryContent, NEW k \in Nat, Starts(k)
  PROVE  EntryContent'
  BY StartsEffect, NoEntryIdle, ContentKept DEF Starts, refs, data

(* The entries hold the data of their execution.                             *)
LEMMA ContentInv ==
  ASSUME SamePredTarget
  PROVE  Spec => []EntryContent
  <1>1. Init => EntryContent
    BY DEF Init, Empty, EntryContent
  <1>2. Typed /\ Expected /\ Ready /\ RefsPlaced /\ EntryContent /\ [Next]_vars => EntryContent'
    <2>. SUFFICES ASSUME Typed, Expected, Ready, RefsPlaced, EntryContent, [Next]_vars PROVE EntryContent'
      OBVIOUS
    <2>1. ASSUME UNCHANGED <<data_ref_q, executed, frame, content>> PROVE EntryContent'
      BY <2>1, ContentKept
    <2>2. CASE (\E a \in App : AppTrigger(a)) \/ Dequeue \/ HostPops \/ KernelSchedule \/ UNCHANGED vars
      <3>1. UNCHANGED <<data_ref_q, executed, frame, content>>
        BY <2>2 DEF AppTrigger, Dequeue, DequeueDoneRef, HostPops, HostCompletes, HostNotifies, KernelSchedule, vars, nodes, refs, data
      <3>. QED  BY <2>1, <3>1
    <2>3. CASE \E t \in Target : Take(t) \/ TaskTrigger(t) \/ SendComplete(t) \/ TriggerNext(t)
      <3>1. UNCHANGED <<data_ref_q, executed, frame, content>>
        BY <2>3 DEF Take, TaskTrigger, SendComplete, TriggerNext, nodes, refs, data
      <3>. QED  BY <2>1, <3>1
    <2>4. SP!Inv
      BY DEF Typed
    <2>. QED  BY <2>2, <2>3, <2>4, Steps, EnqueueContent, StartsContent, AcquireContent, CompleteContent, ReleaseContent DEF HostPops
  <1>. QED  BY <1>1, <1>2, TypedInv, ExpectedInv, ReadyInv, RefsInv, PTL DEF Spec

(* While a kernel runs, each input that a node of the graph produces holds what  *)
(* that node wrote in this execution.                                            *)
ProducedIntact ==
  \A t \in Executing : \A i \in DOMAIN Param[task[t].desc[1]] :
    LET d == task[t].desc
    IN Param[d[1]][i][2] /\ Producers(Param[d[1]][i][1]) # {} => content[task[t].prm[i]] = frame[d[2]]

(* Under the same condition a kernel finds in each input that another node   *)
(* produces what that node wrote in the same execution.                      *)
THEOREM ProducedInputsIntact ==
  ASSUME SamePredTarget
  PROVE  Spec => []ProducedIntact
  <1>1. Typed /\ Expected /\ Ready /\ RefsPlaced /\ EntryContent => ProducedIntact
    <2>. SUFFICES ASSUME Typed, Expected, Ready, RefsPlaced, EntryContent, NEW t \in Executing,
                         NEW i \in DOMAIN Param[task[t].desc[1]], NEW d, d = task[t].desc, NEW q, q = Param[d[1]][i][1],
                         Param[d[1]][i][2], Producers(q) # {}
                  PROVE  content[task[t].prm[i]] = frame[d[2]]
      BY DEF ProducedIntact
    <2>1. t \in Target /\ task[t].at = "execute"
      BY DEF Executing, At
    <2>2. /\ d \in Desc /\ d[1] \in Node /\ d[2] \in Pipe /\ Len(task[t].prm) = Len(Param[d[1]])
          /\ i \in 1 .. Len(Param[d[1]])
      BY <2>1, OwnDesc, NoneIs, Parameters, TypedIs DEF TasksShaped, Shaped
    <2>3. i \in Held(t)
      BY <2>1, <2>2 DEF Held, Working
    <2>4. data_ref_q[q][d[2]].acquired /\ data_ref_q[q][d[2]].ref = task[t].prm[i]
      BY Zenon, <2>1, <2>3 DEF RefsPlaced, EntryHeld
    <2>5. q \in DataRefQ /\ d[1] \in Consumers(q)
      BY <2>2, UserOf
    <2>6. PICK m : m \in Producers(q) /\ m \in InNodes(d[1])
      BY <2>5, Feeds
    <2>7. <<m, d[2]>> \in executed
      <3>1. d \in Holds("task", t) /\ "task" \in Kinds /\ t \in Of("task")
        BY <2>1 DEF Holds, Kinds, Of, Working
      <3>2. CanNodeExecute(d[1], d[2])
        BY <2>2, <3>1 DEF Ready, PlacedReady, IsPlaced
      <3>. QED  BY <2>6, <3>2, CanRun
    <2>. QED  BY ZenonT(30), <2>2, <2>4, <2>5, <2>6, <2>7 DEF EntryContent
  <1>. QED  BY <1>1, TypedInv, ExpectedInv, ReadyInv, RefsInv, ContentInv, PTL
-----------------------------------------------------------------------------
(* Pipeline ids are taken in turn. *)

(* The remainder is known from a quotient. *)
LEMMA ModIs ==
  ASSUME NEW m \in Nat \ {0}, NEW a \in Nat, NEW r \in 0 .. m - 1
  PROVE  (m * a + r) % m = r
  <1>1. m * a \in Nat
    OBVIOUS
  <1>2. PICK x : x = m * a + r
    OBVIOUS
  <1>3. PICK b, y : b = x \div m /\ y = x % m
    OBVIOUS
  <1>4. b \in Nat /\ y \in 0 .. m - 1 /\ x = m * b + y
    BY <1>1, <1>2, <1>3, DivMod, x \in Nat
  <1>5. m * b \in Nat
    BY <1>4
  <1>6. m * a + (r + 1) = m * b + (y + 1)
    BY <1>1, <1>2, <1>4, <1>5
  <1>7. r + 1 \in 1 .. m /\ y + 1 \in 1 .. m
    BY <1>4
  <1>8. r + 1 = y + 1
    BY <1>4, <1>6, <1>7, QuotientSame
  <1>. QED  BY <1>2, <1>3, <1>4, <1>8

(* The remainder of the next number. *)
LEMMA ModNext ==
  ASSUME NEW m \in Nat \ {0}, NEW x \in Nat
  PROVE  /\ x % m \in 0 .. m - 1
         /\ (x + 1) % m = IF x % m = m - 1 THEN 0 ELSE (x % m) + 1
  <1>1. PICK a, r : a = x \div m /\ r = x % m
    OBVIOUS
  <1>2. a \in Nat /\ r \in 0 .. m - 1 /\ x = m * a + r
    BY <1>1, DivMod
  <1>3. CASE r = m - 1
    BY <1>2, ModIs, <1>3, <1>1
  <1>4. CASE r # m - 1
    <2>1. m * a \in Nat /\ r + 1 \in 0 .. m - 1
      BY <1>2, <1>4
    <2>2. (m * a + (r + 1)) % m = r + 1
      BY <1>2, <2>1, ModIs
    <2>3. x + 1 = m * a + (r + 1)
      BY <1>2, <2>1
    <2>. QED  BY <1>1, <1>4, <2>2, <2>3
  <1>. QED  BY <1>1, <1>2, <1>3, <1>4

(* A whole turn leads back. *)
LEMMA ModTurn ==
  ASSUME NEW m \in Nat \ {0}, NEW x \in Nat
  PROVE  (x + m) % m = x % m
  <1>1. PICK a, r : a = x \div m /\ r = x % m
    OBVIOUS
  <1>2. a \in Nat /\ r \in 0 .. m - 1 /\ x = m * a + r
    BY <1>1, DivMod
  <1>3. m * (a + 1) = m * a + m /\ m * a \in Nat
    BY <1>2
  <1>4. (m * (a + 1) + r) % m = r
    BY <1>2, ModIs
  <1>5. x + m = m * (a + 1) + r
    BY <1>2, <1>3
  <1>. QED  BY <1>1, <1>4, <1>5

(* The id before p. *)
LEMMA PrevIs ==
  ASSUME NEW p \in Pipe
  PROVE  (p + Depth - 1) % Depth = IF p = 0 THEN Depth - 1 ELSE p - 1
  BY SizeAssumption, ModIs DEF Pipe

(* The id of execution f, and of the one before: a descriptor and its        *)
(* predecessor in the pipeline.                                              *)
LEMMA PrevOf ==
  ASSUME NEW d \in Desc, NEW x \in Nat, x % Depth = d[2]
  PROVE  /\ \A y \in Nat : x = y + 1 => y % Depth = PrevPipe(d)[2]
         /\ \A c \in Desc : PrevPipe(c) = d => c = <<d[1], (x + 1) % Depth>>
  <1>1. Depth \in Nat \ {0} /\ d[1] \in Node /\ d[2] \in Pipe /\ d = <<d[1], d[2]>>
    BY SizeAssumption, NoneIs
  <1>2. PICK p, q, r : p = d[2] /\ q = PrevPipe(d)[2] /\ r = (x + 1) % Depth
    OBVIOUS
  <1>3. p \in 0 .. Depth - 1 /\ x % Depth = p /\ q = IF p = 0 THEN Depth - 1 ELSE p - 1
    BY <1>1, <1>2, PrevPipeIs, PrevIs DEF Pipe
  <1>4. \A y \in Nat : x = y + 1 => y % Depth = q
    BY <1>1, ModNext, <1>3
  <1>5. r = IF p = Depth - 1 THEN 0 ELSE p + 1
    BY <1>1, <1>2, <1>3, ModNext
  <1>6. ASSUME NEW c \in Desc, PrevPipe(c) = d  PROVE c = <<d[1], r>>
    BY <1>6, NoneIs, PrevPipeIs, <1>2, PrevIs, <1>1, <1>3, <1>5 DEF Pipe
  <1>. QED  BY <1>2, <1>4, <1>6

(* A descriptor has one successor in the pipeline. *)
LEMMA PrevInjective ==
  ASSUME NEW c \in Desc, NEW d \in Desc, PrevPipe(c) = PrevPipe(d)
  PROVE  c = d
  <1>1. PICK b : b = PrevPipe(c)
    OBVIOUS
  <1>2. b \in Desc /\ b[2] \in Nat /\ b[2] % Depth = b[2]
    <2>1. b \in Desc /\ b[2] \in 0 .. Depth - 1
      BY <1>1, PrevPipeIs, NoneIs DEF Pipe
    <2>2. (Depth * 0 + b[2]) % Depth = b[2]
      BY <2>1, ModIs, SizeAssumption
    <2>3. Depth * 0 + b[2] = b[2]
      BY <2>1, SizeAssumption
    <2>. QED  BY <2>1, <2>2, <2>3
  <1>. QED  BY <1>1, <1>2, PrevOf
-----------------------------------------------------------------------------
(* The executions that are on their way, and where. *)

(* Executions started so far: completed to started are on their way. *)
started == completed + submitted_count

(* The free ids are those of the executions to come, in turn. *)
FreeOrder == \A i \in 1 .. Len(free_q) : free_q[i] = (started + i - 1) % Depth

(* An execution is on the id that its number gives; those that have a leaf   *)
(* node to complete are the ones after the completed ones.                   *)
FrameOf ==
  \A p \in Pipe : /\ frame[p] <= started
                  /\ frame[p] > 0 => (frame[p] - 1) % Depth = p
                  /\ frame[p] > completed <=> p \in S!Busy

(* Each execution that is on its way is on its id. *)
FrameAt == \A f \in completed + 1 .. started : frame[(f - 1) % Depth] = f

Clock == FreeOrder /\ FrameOf /\ FrameAt

LEMMA ClockTypes ==
  ASSUME Typed
  PROVE  /\ completed \in Nat /\ submitted_count \in Nat /\ started \in Nat /\ completed <= started
         /\ started = completed + submitted_count
         /\ free_q \in Seq(Pipe) /\ Len(free_q) \in Nat /\ Len(free_q) + submitted_count = Depth
         /\ DOMAIN free_q = 1 .. Len(free_q)
         /\ \A i \in 1 .. Len(free_q) : free_q[i] \in Pipe
         /\ {free_q[i] : i \in 1 .. Len(free_q)} = Pipe \ S!Busy
         /\ S!Busy = {p \in Pipe : \E l \in LeafNodes : <<l, p>> \in running}
         /\ \A p \in Pipe : frame[p] \in Nat
         /\ \A n \in Node : last_frame[n] \in Nat
  <1>1. S!TypeOK /\ S!PipesPartitioned /\ DataTypeOK
    BY TypedIs, SameInvariants DEF SP!Inv
  <1>2. completed \in Nat /\ submitted_count \in Nat /\ free_q \in Seq(Pipe)
    BY <1>1, Pipes DEF S!TypeOK
  <1>3. {free_q[i] : i \in 1 .. Len(free_q)} = Pipe \ S!Busy /\ Len(free_q) + submitted_count = Depth
    BY <1>1, Pipes DEF S!PipesPartitioned
  <1>4. S!Busy = {p \in Pipe : \E l \in LeafNodes : <<l, p>> \in running}
    BY Pipes DEF S!Busy
  <1>5. started \in Nat /\ completed <= started /\ started = completed + submitted_count
    BY <1>2 DEF started
  <1>6. (\A p \in Pipe : frame[p] \in Nat) /\ \A n \in Node : last_frame[n] \in Nat
    BY <1>1 DEF DataTypeOK
  <1>7. Len(free_q) \in Nat /\ DOMAIN free_q = 1 .. Len(free_q) /\ \A i \in 1 .. Len(free_q) : free_q[i] \in Pipe
    BY <1>2
  <1>. QED  BY <1>2, <1>3, <1>4, <1>5, <1>6, <1>7

LEMMA InitClock ==
  ASSUME Init, Typed
  PROVE  Clock
  <1>1. completed = 0 /\ submitted_count = 0 /\ started = 0
    BY DEF Init, S!Init, started
  <1>2. Depth \in Nat \ {0} /\ \A p \in Pipe : p \in 0 .. Depth - 1 /\ frame[p] = 0
    BY SizeAssumption DEF Init, Pipe
  <1>3. FreeOrder
    <2>. SUFFICES ASSUME NEW i \in 1 .. Len(free_q) PROVE free_q[i] = (started + i - 1) % Depth
      BY DEF FreeOrder
    <2>1. Len(free_q) = Depth
      BY <1>1, <1>2, ClockTypes
    <2>2. free_q[i] = i - 1 /\ i - 1 \in 0 .. Depth - 1
      BY <1>2, <2>1 DEF Init, S!Init
    <2>3. (Depth * 0 + (i - 1)) % Depth = i - 1
      BY <1>2, <2>2, ModIs
    <2>4. Depth * 0 + (i - 1) = started + i - 1
      BY <1>1, <1>2
    <2>. QED  BY <2>2, <2>3, <2>4
  <1>4. S!Busy = {}
    BY ClockTypes DEF Init, S!Init
  <1>5. FrameOf
    BY <1>1, <1>2, <1>4 DEF FrameOf
  <1>6. FrameAt
    BY SMTT(30), <1>1 DEF FrameAt
  <1>. QED  BY <1>3, <1>5, <1>6 DEF Clock

(* The executions that start get the next numbers. *)
LEMMA StartsFrames ==
  ASSUME Typed, NEW k \in Nat, Starts(k)
  PROVE  /\ k \in 0 .. Len(free_q)
         /\ started' = started + k /\ completed' = completed
         /\ Len(free_q') = Len(free_q) - k
         /\ \A i \in 1 .. Len(free_q) - k : free_q'[i] = free_q[k + i]
         /\ \A i \in 1 .. k : free_q[i] \in Taken(k) /\ free_q[i] \in Pipe /\ frame'[free_q[i]] = started + i
         /\ \A p \in Taken(k) : p \in Pipe /\ p \notin S!Busy /\ \E i \in 1 .. k : p = free_q[i]
         /\ \A p \in Taken(k) : frame'[p] \in Nat /\ frame'[p] > started /\ frame'[p] <= started + k
         /\ \A p \in Pipe \ Taken(k) : frame'[p] = frame[p]
         /\ S!Busy' = S!Busy \cup Taken(k)
  <1>1. /\ completed \in Nat /\ submitted_count \in Nat /\ started \in Nat /\ Len(free_q) \in Nat
        /\ started = completed + submitted_count /\ free_q \in Seq(Pipe)
        /\ \A i \in 1 .. Len(free_q) : free_q[i] \in Pipe
    BY ClockTypes
  <1>2. /\ k \in 0 .. Len(free_q) /\ completed' = completed /\ submitted_count' = submitted_count + k
        /\ free_q' = SubSeq(free_q, k + 1, Len(free_q))
        /\ running' = running \cup LeafNodes \X Taken(k)
    BY DEF Starts
  <1>3. started' = started + k
    BY <1>1, <1>2 DEF started
  <1>4. /\ Taken(k) \subseteq Pipe
        /\ \A p \in Taken(k), l \in LeafNodes : <<l, p>> \notin running
        /\ \A p \in Taken(k) : \E i \in 1 .. k :
             p = free_q[i] /\ i = CHOOSE j \in 1 .. k : free_q[j] = p
        /\ \A i, j \in 1 .. k : free_q[i] = free_q[j] => i = j
    BY <1>2, TakenIs DEF Typed
  <1>5. \A p \in Pipe : frame'[p] =
          IF p \in Taken(k) THEN started + CHOOSE i \in 1 .. k : free_q[i] = p ELSE frame[p]
    BY <1>1 DEF Starts
  <1>6. Len(free_q') = Len(free_q) - k /\ \A i \in 1 .. Len(free_q) - k : free_q'[i] = free_q[k + i]
    BY SMTT(30), <1>1, <1>2, SubSeqProperties
  <1>7. \A i \in 1 .. k : free_q[i] \in Taken(k) /\ free_q[i] \in Pipe /\ frame'[free_q[i]] = started + i
    BY <1>4, <1>5 DEF Taken
  <1>8. \A p \in Taken(k) : frame'[p] \in Nat /\ frame'[p] > started /\ frame'[p] <= started + k
    BY SMTT(30), <1>4, <1>7, <1>1
  <1>9. \A p \in Taken(k) : p \notin S!Busy
    BY <1>4, ClockTypes
  <1>10. S!Busy' = S!Busy \cup Taken(k)
    BY Pipes, ClockTypes, LeafFacts, <1>2, <1>4 DEF S!Busy
  <1>. QED  BY <1>2, <1>3, <1>4, <1>5, <1>6, <1>7, <1>8, <1>9, <1>10

LEMMA StartsClock ==
  ASSUME Typed, Clock, NEW k \in Nat, Starts(k)
  PROVE  Clock'
  <1>1. /\ completed \in Nat /\ started \in Nat /\ completed <= started /\ Len(free_q) \in Nat
        /\ \A p \in Pipe : frame[p] \in Nat
        /\ Depth \in Nat \ {0}
    BY ClockTypes, SizeAssumption
  <1>2. k \in 0 .. Len(free_q) /\ started' = started + k /\ completed' = completed
    BY StartsFrames
  <1>3. FreeOrder'
    <2>. SUFFICES ASSUME NEW i \in 1 .. Len(free_q') PROVE free_q'[i] = (started' + i - 1) % Depth
      BY DEF FreeOrder
    <2>1. i \in 1 .. Len(free_q) - k /\ free_q'[i] = free_q[k + i]
      BY StartsFrames
    <2>2. k + i \in 1 .. Len(free_q) /\ started + (k + i) - 1 = started' + i - 1
      BY SMTT(30), <1>1, <1>2, <2>1
    <2>3. free_q[k + i] = (started + (k + i) - 1) % Depth
      BY <2>2 DEF Clock, FreeOrder
    <2>. QED  BY <2>1, <2>2, <2>3
  <1>4. FrameOf'
    <2>. SUFFICES ASSUME NEW p \in Pipe
                  PROVE  /\ frame'[p] <= started'
                         /\ frame'[p] > 0 => (frame'[p] - 1) % Depth = p
                         /\ frame'[p] > completed' <=> p \in S!Busy'
      BY DEF FrameOf
    <2>1. CASE p \in Taken(k)
      <3>1. PICK i \in 1 .. k : p = free_q[i]
        BY <2>1, StartsFrames
      <3>2. frame'[p] = started + i
        BY <3>1, StartsFrames
      <3>3. free_q[i] = (started + i - 1) % Depth
        BY <1>2 DEF Clock, FreeOrder
      <3>4. frame'[p] <= started' /\ frame'[p] > completed' /\ frame'[p] - 1 = started + i - 1
        BY <1>1, <1>2, <3>2
      <3>5. p \in S!Busy'
        BY <2>1, StartsFrames
      <3>. QED  BY <3>1, <3>2, <3>3, <3>4, <3>5
    <2>2. CASE p \notin Taken(k)
      BY SMTT(30), <2>2, StartsFrames, <1>1, <1>2 DEF Clock, FrameOf
    <2>. QED  BY <2>1, <2>2
  <1>5. FrameAt'
    <2>. SUFFICES ASSUME NEW f \in completed' + 1 .. started' PROVE frame'[(f - 1) % Depth] = f
      BY DEF FrameAt
    <2>1. CASE f <= started
      <3>1. f \in completed + 1 .. started
        BY <1>1, <1>2, <2>1
      <3>2. PICK p : p = (f - 1) % Depth
        OBVIOUS
      <3>3. frame[p] = f
        BY <3>1, <3>2 DEF Clock, FrameAt
      <3>4. p \in Pipe
        BY <1>1, <3>1, <3>2, ModNext DEF Pipe
      <3>5. p \in S!Busy
        BY <1>1, <3>1, <3>3, <3>4 DEF Clock, FrameOf
      <3>. QED  BY <3>2, <3>3, <3>4, <3>5, StartsFrames
    <2>2. CASE f > started
      <3>1. PICK i \in 1 .. k : f = started + i
        BY <1>1, <1>2, <2>2
      <3>2. free_q[i] = (started + i - 1) % Depth
        BY <1>2 DEF Clock, FreeOrder
      <3>3. f - 1 = started + i - 1 /\ frame'[free_q[i]] = started + i
        BY <1>1, <3>1, StartsFrames
      <3>. QED  BY <3>1, <3>2, <3>3
    <2>. QED  BY <1>1, <1>2, <2>1, <2>2
  <1>. QED  BY <1>3, <1>4, <1>5 DEF Clock
(* A leaf node that has run and has yet to complete is in the HOST queue, or *)
(* the task that ran it has yet to tell the HOST.                            *)
LeafTold ==
  \A d \in running : d \in executed =>
    d \in Range(job_q["HOST"]) \/ \E t \in Target : Releasing(t) /\ task[t].desc = d

(* The HOST hears of the executions of a leaf node in their order. *)
ToldInOrder ==
  \A j \in DOMAIN job_q["HOST"] : \A p \in Pipe :
    LET d == job_q["HOST"][j]
    IN  <<d[1], p>> \in running /\ frame[p] < frame[d[2]] =>
          \E i \in DOMAIN job_q["HOST"] : i < j /\ job_q["HOST"][i] = <<d[1], p>>

(* They complete in this order. *)
LeavesInOrder ==
  \A l \in LeafNodes : \A p, q \in Pipe :
    frame[p] > 0 /\ <<l, p>> \notin running /\ <<l, q>> \in running => frame[p] < frame[q]

(* A node has run the executions up to the last one it ran. *)
LastFrames ==
  \A n \in Node :
    /\ last_frame[n] >= completed /\ last_frame[n] <= started
    /\ \A p \in Pipe : frame[p] > 0 => (<<n, p>> \in executed <=> frame[p] <= last_frame[n])

(* A task works on the execution after the one its node ran last, and that   *)
(* one is the one it hands on.                                               *)
TaskFrames ==
  \A t \in Target : LET d == task[t].desc IN
    /\ Working(t) => frame[d[2]] = last_frame[d[1]] + 1
    /\ Releasing(t) \/ ToTrigger(t) # {} => frame[d[2]] = last_frame[d[1]]

HostOrder == LeafTold /\ ToldInOrder /\ LeavesInOrder

(* Two executions are not on one id. *)
LEMMA OneFrame ==
  ASSUME Typed, Clock, NEW p \in Pipe, NEW q \in Pipe, frame[p] = frame[q], frame[p] > 0
  PROVE  p = q
  BY DEF Clock, FrameOf

(* When its leaf nodes have run, all nodes have. *)
LEMMA AllDone ==
  ASSUME Typed, ExecutedClosed, NEW p \in Pipe, \A l \in LeafNodes : <<l, p>> \in executed
  PROVE  \A n \in Node : <<n, p>> \in executed
  <1>. DEFINE X == {n \in Node : <<n, p>> \notin executed}
  <1>1. SUFFICES ASSUME X # {} PROVE FALSE
    OBVIOUS
  <1>2. PICK n \in X : OutNodes(n) \cap X = {}
    BY <1>1, GraphAssumption
  <1>3. n \notin LeafNodes
    BY <1>2
  <1>4. PICK m \in OutNodes(n) : TRUE
    BY <1>2, <1>3 DEF LeafNodes
  <1>5. m \in Node /\ <<m, p>> \in executed /\ n \in InNodes(m)
    BY <1>2, <1>4 DEF OutNodes
  <1>6. CanNodeExecute(<<m, p>>[1], <<m, p>>[2])
    BY <1>5 DEF ExecutedClosed
  <1>. QED  BY <1>2, <1>5, <1>6, CanRun

(* A descriptor that has yet to run is on a busy id. *)
LEMMA Underway ==
  ASSUME Typed, Expected, Ready, NEW d \in Desc, d \notin executed, frame[d[2]] > 0
  PROVE  d[2] \in S!Busy
  <1>1. d[1] \in Node /\ d[2] \in Pipe /\ d = <<d[1], d[2]>> /\ frame[d[2]] \in Nat
    BY NoneIs, ClockTypes
  <1>2. CASE \A l \in LeafNodes : <<l, d[2]>> \notin running
    BY <1>1, <1>2, IdleDone DEF Ready
  <1>3. CASE \E l \in LeafNodes : <<l, d[2]>> \in running
    BY <1>1, <1>3, ClockTypes
  <1>. QED  BY <1>2, <1>3

(* So is one whose task has yet to hand it on. *)
LEMMA TaskBusy ==
  ASSUME Typed, Expected, Ready, NEW t \in Target, Releasing(t) \/ ToTrigger(t) # {}
  PROVE  task[t].desc[2] \in S!Busy
  <1>1. ASSUME NEW e \in ToTrigger(t)  PROVE task[t].desc[2] \in S!Busy
    BY <1>1, ToTriggerIs, Underway DEF Ready, TriggerFresh, Expected, FrameStarted
  <1>2. ASSUME Releasing(t), ToTrigger(t) = {}  PROVE task[t].desc[2] \in S!Busy
    <2>1. PICK d : d = task[t].desc
      OBVIOUS
    <2>2. d \in Desc /\ d[1] \in Node /\ d[2] \in Pipe /\ d = <<d[1], d[2]>>
      BY SMTT(30), <1>2, <2>1, OwnDesc, NoneIs DEF Releasing
    <2>3. ToTrigger(t) = OutNodes(d[1]) \X {d[2]}
      BY <1>2, <2>1 DEF ToTrigger, Pending, Releasing
    <2>4. OutNodes(d[1]) = {}
      <3>1. ASSUME NEW n \in OutNodes(d[1])  PROVE FALSE
        <4>1. <<n, d[2]>> \in OutNodes(d[1]) \X {d[2]}
          OBVIOUS
        <4>. QED  BY <1>2, <2>3, <4>1
      <3>. QED  BY <3>1
    <2>5. d[1] \in LeafNodes
      BY <2>2, <2>4 DEF LeafNodes
    <2>6. d \in running
      BY <1>2, <2>1, <2>5 DEF Expected, LeafTask
    <2>. QED  BY <2>1, <2>2, <2>5, <2>6, ClockTypes
  <1>. QED  BY <1>1, <1>2

(* What the HOST has yet to hear has run, on an id that has a leaf node to   *)
(* complete, which the HOST does not hear of earlier.                        *)
Tellers == (LeafNodes \cup Notified) \X Pipe

LeafAhead(s, run) ==
  \A i \in DOMAIN s : \E l \in LeafNodes :
    <<l, s[i][2]>> \in run /\ \A j \in DOMAIN s : j < i => s[j] # <<l, s[i][2]>>

Told ==
  /\ IsInjective(job_q["HOST"]) /\ Range(job_q["HOST"]) \subseteq executed \cap Tellers
  /\ \A t \in Target : Releasing(t) => task[t].desc \in executed \ Range(job_q["HOST"])
  /\ LeafAhead(job_q["HOST"], running)

(* The HOST takes what it hears of next.                                     *)
LEMMA HostTold ==
  ASSUME Typed, Told, HostPops
  PROVE  Told'
  <1>1. PICK s, d : s = job_q["HOST"] /\ d = Head(s)
    OBVIOUS
  <1>2. /\ task' = task /\ executed' = executed /\ s \in Seq(Desc) /\ s # <<>> /\ job_q'["HOST"] = Tail(s)
        /\ running' = running \ {d}
    BY <1>1, HostEffect
  <1>3. /\ Len(s) \in Nat \ {0} /\ DOMAIN s = 1 .. Len(s) /\ d = s[1]
        /\ DOMAIN Tail(s) = 1 .. Len(s) - 1
        /\ \A i \in 1 .. Len(s) - 1 : Tail(s)[i] = s[i + 1]
    BY <1>1, <1>2, HeadTailProperties, EmptySeq, LenProperties
  <1>4. (IsInjective(s) => IsInjective(Tail(s))) /\ Range(Tail(s)) \subseteq Range(s)
    BY <1>2, Removed
  <1>5. LeafAhead(Tail(s), running')
    <2>. SUFFICES ASSUME NEW i \in DOMAIN Tail(s)
                  PROVE  \E l \in LeafNodes : /\ <<l, Tail(s)[i][2]>> \in running'
                           /\ \A j \in DOMAIN Tail(s) : j < i => Tail(s)[j] # <<l, Tail(s)[i][2]>>
      BY DEF LeafAhead
    <2>1. i + 1 \in DOMAIN s /\ Tail(s)[i] = s[i + 1] /\ i \in Nat /\ 1 < i + 1 /\ 1 \in DOMAIN s
      BY <1>3
    <2>2. PICK l \in LeafNodes : /\ <<l, s[i + 1][2]>> \in running
                                 /\ \A j \in DOMAIN s : j < i + 1 => s[j] # <<l, s[i + 1][2]>>
      BY <1>1, <2>1 DEF Told, LeafAhead
    <2>3. \A j \in DOMAIN Tail(s) : j < i => j + 1 \in DOMAIN s /\ j + 1 < i + 1 /\ Tail(s)[j] = s[j + 1]
      BY <1>3, <2>1
    <2>. QED  BY <1>2, <1>3, <2>1, <2>2, <2>3
  <1>. QED  BY <1>1, <1>2, <1>4, <1>5 DEF Told, Releasing

(* A task that has run a node has a leaf node ahead of it, or it ran one.    *)
LEMMA SendTold ==
  ASSUME Typed, Expected, Ready, Told, NEW t \in Target, SendComplete(t)
  PROVE  Told'
  <1>1. PICK d, s : d = task[t].desc /\ s = job_q["HOST"]
    OBVIOUS
  <1>2. /\ d \in Desc /\ TargetOf[d[1]] = t /\ Releasing(t) /\ task[t].at # "idle" /\ ~Releasing(t)'
        /\ \A u \in Target \ {t} : task'[u] = task[u]
        /\ executed' = executed /\ running' = running /\ s \in Seq(Desc)
        /\ job_q'["HOST"] = s \/ (TellsHost(d[1]) /\ job_q'["HOST"] = Append(s, d))
        /\ d[1] \in Node /\ d[2] \in Pipe /\ d = <<d[1], d[2]>>
    BY <1>1, SendEffect, NoneIs DEF Releasing
  <1>3. d \in executed \ Range(s) /\ \A u \in Target \ {t} : Releasing(u) => task[u].desc # d
    BY <1>1, <1>2, OwnDesc DEF Told, Releasing
  <1>4. IsInjective(s) /\ Range(s) \subseteq executed \cap Tellers /\ LeafAhead(s, running)
    BY <1>1 DEF Told
  <1>5. ASSUME NEW u \in Target, Releasing(u)'
        PROVE  task'[u].desc \in executed \ Range(s) /\ task'[u].desc # d
    BY <1>1, <1>2, <1>3, <1>5 DEF Told, Releasing
  <1>6. CASE job_q'["HOST"] = s
    BY <1>2, <1>4, <1>5, <1>6 DEF Told
  <1>7. CASE TellsHost(d[1]) /\ job_q'["HOST"] = Append(s, d)
    <2>1. /\ Len(s) \in Nat /\ DOMAIN s = 1 .. Len(s) /\ DOMAIN Append(s, d) = 1 .. Len(s) + 1
          /\ Append(s, d)[Len(s) + 1] = d /\ \A i \in 1 .. Len(s) : Append(s, d)[i] = s[i] /\ s[i] \in Range(s)
      BY <1>2, LenProperties DEF Range
    <2>2. IsInjective(Append(s, d)) /\ Range(Append(s, d)) = Range(s) \cup {d}
      BY <1>2, <1>3, <1>4, Appended
    <2>3. d \in Tellers
      BY <1>2, <1>7 DEF TellsHost, Tellers
    <2>4. PICK l \in LeafNodes : <<l, d[2]>> \in running /\ <<l, d[2]>> \notin Range(s)
      <3>1. CASE d[1] \in LeafNodes
        BY <1>1, <1>2, <1>3, <3>1 DEF Expected, LeafTask
      <3>2. CASE d[1] \notin LeafNodes
        <4>1. PICK m \in OutNodes(d[1]) : TRUE
          BY <1>2, <3>2 DEF LeafNodes
        <4>2. <<m, d[2]>> \in ToTrigger(t)
          BY <1>1, <1>2, <4>1 DEF ToTrigger, Pending, Releasing
        <4>3. <<m, d[2]>> \notin executed /\ m \in Node
          BY <4>1, <4>2 DEF Ready, TriggerFresh, OutNodes
        <4>4. PICK l \in LeafNodes : <<l, d[2]>> \notin executed
          BY <1>2, <4>3, AllDone DEF Ready
        <4>5. frame[d[2]] # 0
          BY <1>1, <1>2, ClockTypes DEF Expected, FrameStarted
        <4>. QED  BY <1>2, <1>4, <4>4, <4>5 DEF Expected, LeafDone
      <3>. QED  BY <3>1, <3>2
    <2>5. LeafAhead(Append(s, d), running)
      <3>. SUFFICES ASSUME NEW i \in 1 .. Len(s) + 1, NEW p, p = Append(s, d)[i][2]
                    PROVE  \E c \in LeafNodes : /\ <<c, p>> \in running
                             /\ \A j \in 1 .. Len(s) + 1 : j < i => Append(s, d)[j] # <<c, p>>
        BY <2>1 DEF LeafAhead
      <3>1. CASE i = Len(s) + 1
        <4>1. \A j \in 1 .. Len(s) + 1 : j < i => j \in 1 .. Len(s)
          BY <2>1, <3>1
        <4>. QED  BY <2>1, <2>4, <3>1, <4>1
      <3>2. CASE i \in 1 .. Len(s)
        <4>0. p = s[i][2] /\ DOMAIN s = 1 .. Len(s)
          BY <2>1, <3>2
        <4>1. PICK c \in LeafNodes : <<c, p>> \in running /\ \A j \in 1 .. Len(s) : j < i => s[j] # <<c, p>>
          BY <1>4, <3>2, <4>0 DEF LeafAhead
        <4>2. \A j \in 1 .. Len(s) + 1 : j < i => j \in 1 .. Len(s)
          BY <2>1, <3>2
        <4>3. \A j \in 1 .. Len(s) + 1 : j < i => Append(s, d)[j] # <<c, p>>
          BY <2>1, <4>1, <4>2
        <4>. QED  BY <4>1, <4>3
      <3>3. i = Len(s) + 1 \/ i \in 1 .. Len(s)
        BY <2>1
      <3>. QED  BY <3>1, <3>2, <3>3
    <2>. QED  BY <1>2, <1>3, <1>4, <1>5, <1>7, <2>2, <2>3, <2>5 DEF Told
  <1>. QED  BY <1>2, <1>6, <1>7

(* What the HOST has yet to hear of is under way. *)
LEMMA CallbackDue ==
  ASSUME Told, NEW i \in DOMAIN job_q["HOST"]
  PROVE  job_q["HOST"][i][2] \in Pipe /\ \E l \in LeafNodes : <<l, job_q["HOST"][i][2]>> \in running
  <1>1. job_q["HOST"][i] \in Tellers
    BY DEF Told, Range
  <1>. QED  BY <1>1 DEF Told, LeafAhead, Tellers

LEMMA ToldStays ==
  ASSUME Typed, Expected, Ready, Told, [Next]_vars
  PROVE  Told'
  <1>1. CASE Calm
    BY <1>1 DEF Calm, Takes, Releasing, Told
  <1>2. ASSUME NEW k \in Nat, Starts(k)  PROVE Told'
    <2>1. /\ task' = task /\ job_q'["HOST"] = job_q["HOST"]
          /\ \A d \in running : d[2] \notin Taken(k)
          /\ executed' = {d \in executed : d[2] \notin Taken(k)}
          /\ running \subseteq running'
      BY <1>2, StartsEffect
    <2>2. ASSUME NEW d \in Range(job_q["HOST"])  PROVE d[2] \notin Taken(k)
      BY <2>1, CallbackDue DEF Range
    <2>3. \A t \in Target : Releasing(t) => task[t].desc[2] \notin Taken(k)
      BY <2>1, TaskBusy, ClockTypes
    <2>. QED  BY <2>1, <2>2, <2>3 DEF Told, Releasing, LeafAhead
  <1>3. ASSUME NEW t \in Target, Complete(t)  PROVE Told'
    BY <1>3, CompleteEffect DEF Expected, Unexecuted, Told, Releasing
  <1>. QED  BY <1>1, <1>2, <1>3, HostTold, SendTold, CalmOrNot

LEMMA ToldInv ==
  ASSUME SamePredTarget
  PROVE  Spec => []Told
  <1>1. Init => Told
    BY EmptyHasNone DEF Init, TaskIdle, Told, LeafAhead, Releasing
  <1>2. Typed /\ Expected /\ Ready /\ Told /\ [Next]_vars => Told'
    BY ToldStays
  <1>. QED  BY <1>1, <1>2, TypedInv, ExpectedInv, ReadyInv, PTL DEF Spec

(* Where the nodes before a join share a target, the HOST hears of each node *)
(* of an execution before it completes the execution (vx_target.c:1073).     *)
THEOREM CompletionIsExpected ==
  ASSUME SamePredTarget
  PROVE  Spec => []CompletionExpected
  <1>1. Typed /\ Expected /\ Told => CompletionExpected
    <2>. SUFFICES ASSUME Typed, Expected, Told PROVE CompletionExpected
      OBVIOUS
    <2>1. LeafToldOnce
      BY DEF Expected, HostQ, LeafOnce, LeafToldOnce, Range
    <2>2. CallbackInTime
      BY ClockTypes, CallbackDue DEF CallbackInTime, Range
    <2>. QED  BY <2>1, <2>2 DEF CompletionExpected
  <1>. QED  BY <1>1, TypedInv, ExpectedInv, ToldInv, PTL

-----------------------------------------------------------------------------
(* The HOST takes a completion from its queue. *)

(* It keeps the execution going, or completes it. *)
LEMMA HostStep ==
  ASSUME Typed, Typed', HostCompletes
  PROVE  LET d == Head(job_q["HOST"])
         IN  /\ frame' = frame /\ last_frame' = last_frame
             /\ \/ /\ UNCHANGED <<free_q, submitted_count, completed>>
                   /\ S!Busy' = S!Busy
                \/ /\ d[2] \in S!Busy /\ S!Busy' = S!Busy \ {d[2]}
                   /\ free_q' = Append(free_q, d[2])
                   /\ completed' = completed + 1 /\ submitted_count' = submitted_count - 1
  <1>1. PICK d : d = Head(job_q["HOST"])
    OBVIOUS
  <1>2. /\ d \in Desc /\ d[1] \in Node /\ d[2] \in Pipe /\ d = <<d[1], d[2]>>
    BY <1>1, HostEffect, NoneIs DEF HostPops
  <1>3. /\ {free_q[i] : i \in 1 .. Len(free_q)} = Pipe \ S!Busy
        /\ S!Busy \subseteq Pipe /\ free_q \in Seq(Pipe) /\ Len(free_q) \in Nat
        /\ submitted_count \in Nat /\ Len(free_q) + submitted_count = Depth
        /\ \A p \in Pipe : p \in S!Busy <=> \E l \in LeafNodes : <<l, p>> \in running
    BY ClockTypes
  <1>4. /\ {free_q'[i] : i \in 1 .. Len(free_q')} = Pipe \ S!Busy'
        /\ S!Busy' \subseteq Pipe /\ submitted_count' \in Nat /\ Len(free_q') + submitted_count' = Depth
    BY Pipes DEF Typed, SP!Inv, S!Busy, SP!Busy, SP!PipesPartitioned, SP!TypeOK
  <1>5. frame' = frame /\ last_frame' = last_frame
    BY DEF HostCompletes, data
  <1>6. S!LeafCompletes(d[1], d[2], "CONTINUE") \/ S!GraphCompletes(d[1], d[2], "CONTINUE")
    BY <1>1 DEF HostCompletes
  <1>7. CASE S!LeafCompletes(d[1], d[2], "CONTINUE")
    <2>1. UNCHANGED <<free_q, submitted_count, completed>>
      BY <1>7 DEF S!LeafCompletes, S!CountLeaf
    <2>2. S!Busy' = S!Busy
      BY ZenonT(30), <1>3, <1>4, <2>1
    <2>. QED  BY <1>1, <1>5, <2>1, <2>2
  <1>8. CASE S!GraphCompletes(d[1], d[2], "CONTINUE")
    <2>1. /\ completed' = completed + 1 /\ submitted_count' = submitted_count - 1
          /\ free_q' = free_q \/ free_q' = Append(free_q, d[2])
          /\ <<d[1], d[2]>> \in running
      BY <1>8 DEF S!GraphCompletes, S!CompleteGraph, S!FreePipe
    <2>2. free_q' = Append(free_q, d[2])
      BY <1>3, <1>4, <2>1
    <2>3. d[2] \in S!Busy
      BY TypedIs, SameInvariants, <2>1, <1>2, <1>3 DEF SP!Inv, S!TypeOK
    <2>4. {free_q'[i] : i \in 1 .. Len(free_q')} = {free_q[i] : i \in 1 .. Len(free_q)} \cup {d[2]}
      BY <1>2, <1>3, <2>2, AppendProperties
    <2>5. S!Busy' = S!Busy \ {d[2]}
      BY <1>2, <1>3, <1>4, <2>4
    <2>. QED  BY <1>1, <1>5, <2>1, <2>2, <2>3, <2>5
  <1>. QED  BY <1>6, <1>7, <1>8
LEMMA HostKeepsOrder ==
  ASSUME Typed, Expected, Clock, HostOrder, HostPops
  PROVE  HostOrder'
  <1>1. PICK s, d : s = job_q["HOST"] /\ d = Head(s)
    OBVIOUS
  <1>2. /\ s \in Seq(Desc) /\ s # <<>> /\ job_q'["HOST"] = Tail(s) /\ running' = running \ {d}
        /\ task' = task /\ executed' = executed /\ frame' = frame
    BY <1>1, HostEffect
  <1>3. /\ Len(s) \in Nat \ {0} /\ DOMAIN s = 1 .. Len(s) /\ d = s[1]
        /\ DOMAIN Tail(s) = 1 .. Len(s) - 1
        /\ \A i \in 1 .. Len(s) - 1 : Tail(s)[i] = s[i + 1]
        /\ \A i \in 1 .. Len(s) : s[i] \in Desc
        /\ Range(s) = Range(Tail(s)) \cup {d} /\ d \in Range(s)
    BY <1>1, <1>2, Removed, HeadTailProperties
  <1>4. \A p \in Pipe : frame[p] \in Nat
    BY ClockTypes
  <1>5. d[1] \in Node /\ d[2] \in Pipe /\ d = <<d[1], d[2]>>
    BY <1>3, NoneIs
  <1>6. LeafTold'
    BY <1>1, <1>2, <1>3 DEF LeafTold, HostOrder, Releasing
  <1>7. ToldInOrder'
    <2>. SUFFICES ASSUME NEW j \in DOMAIN job_q'["HOST"], NEW p \in Pipe, NEW e, e = job_q'["HOST"][j],
                         <<e[1], p>> \in running', frame'[p] < frame'[e[2]]
                  PROVE  \E i \in DOMAIN job_q'["HOST"] : i < j /\ job_q'["HOST"][i] = <<e[1], p>>
      BY DEF ToldInOrder
    <2>1. j \in 1 .. Len(s) - 1 /\ e = Tail(s)[j] /\ frame[p] < frame[e[2]]
      BY <1>2, <1>3
    <2>2. j + 1 \in 1 .. Len(s) /\ e = s[j + 1]
      BY <1>3, <2>1
    <2>3. PICK c : c = <<e[1], p>>
      OBVIOUS
    <2>4. c \in running /\ c # d
      BY <1>2, <2>1, <2>3
    <2>8. \A k \in 1 .. Len(s) : <<s[k][1], p>> \in running /\ frame[p] < frame[s[k][2]] =>
            \E i \in 1 .. Len(s) : i < k /\ s[i] = <<s[k][1], p>>
      BY ZenonT(30), <1>1, <1>3 DEF HostOrder, ToldInOrder
    <2>5. PICK i \in 1 .. Len(s) : i < j + 1 /\ s[i] = c
      BY <2>2, <2>1, <2>3, <2>4, <2>8
    <2>6. i # 1
      BY <1>3, <2>4, <2>5
    <2>7. i - 1 \in 1 .. Len(s) - 1 /\ i - 1 < j /\ (i - 1) + 1 = i
      BY <1>3, <2>1, <2>5, <2>6
    <2>9. Tail(s)[i - 1] = c
      BY <1>3, <2>5, <2>7
    <2>. QED  BY <1>2, <1>3, <2>3, <2>7, <2>9
  <1>8. LeavesInOrder'
    BY <1>2, <1>3, <1>1, OneFrame, <1>4 DEF LeavesInOrder, HostOrder, ToldInOrder
  <1>. QED  BY <1>6, <1>7, <1>8 DEF HostOrder

(* What completes is the execution after the completed ones. *)
LEMMA HostClock ==
  ASSUME Typed, Typed', Clock, LeavesInOrder', HostCompletes
  PROVE  LET p == Head(job_q["HOST"])[2]
         IN  /\ Clock' /\ started' = started
             /\ completed' # completed => completed' = completed + 1 /\ frame[p] = completed' /\ p \notin S!Busy' /\ p \in Pipe
  <1>1. PICK p : p = Head(job_q["HOST"])[2]
    OBVIOUS
  <1>2. p \in Pipe
    BY <1>1, HostEffect, NoneIs DEF HostPops
  <1>3. /\ completed \in Nat /\ submitted_count \in Nat /\ started \in Nat /\ completed <= started
        /\ started = completed + submitted_count
        /\ free_q \in Seq(Pipe) /\ Len(free_q) \in Nat /\ Len(free_q) + submitted_count = Depth
        /\ \A q \in Pipe : frame[q] \in Nat
        /\ Depth \in Nat \ {0}
    BY ClockTypes, SizeAssumption
  <1>4. frame' = frame
    BY HostStep
  <1>5. CASE UNCHANGED <<free_q, submitted_count, completed>> /\ S!Busy' = S!Busy
    BY <1>1, <1>4, <1>5 DEF Clock, FreeOrder, FrameOf, FrameAt, started
  <1>6. CASE /\ p \in S!Busy /\ S!Busy' = S!Busy \ {p} /\ free_q' = Append(free_q, p)
             /\ completed' = completed + 1 /\ submitted_count' = submitted_count - 1
    <2>1. started' = started
      BY <1>3, <1>6 DEF started
    <2>2. \A q \in Pipe : /\ frame[q] <= started
                          /\ frame[q] > 0 => (frame[q] - 1) % Depth = q
                          /\ frame[q] > completed <=> q \in S!Busy
      BY DEF Clock, FrameOf
    <2>3. frame[p] = completed + 1
      <3>. SUFFICES ASSUME frame[p] > completed + 1 PROVE FALSE
        BY <1>2, <1>3, <1>6, <2>2
      <3>1. PICK q, f : q = completed % Depth /\ f = completed + 1
        OBVIOUS
      <3>2. f \in completed + 1 .. started /\ f - 1 = completed
        BY <1>2, <1>3, <2>2, <3>1
      <3>3. frame[q] = completed + 1
        BY <3>1, <3>2 DEF Clock, FrameAt
      <3>4. q \in Pipe
        BY <1>3, <3>1, ModNext DEF Pipe
      <3>5. q \in S!Busy /\ q # p
        BY <1>3, <2>2, <3>3, <3>4
      <3>6. PICK l \in LeafNodes : <<l, q>> \in running'
        BY <1>6, <3>5 DEF S!Busy
      <3>7. <<l, p>> \notin running'
        BY <1>6, <1>2, Pipes DEF S!Busy
      <3>8. frame'[p] < frame'[q]
        BY <1>2, <1>3, <1>4, <3>4, <3>6, <3>7 DEF LeavesInOrder
      <3>. QED  BY <1>2, <1>3, <1>4, <3>3, <3>8
    <2>4. FreeOrder'
      <3>1. PICK n : n = Len(free_q)
        OBVIOUS
      <3>2. /\ Len(free_q') = n + 1 /\ \A i \in 1 .. n : free_q'[i] = free_q[i]
            /\ free_q'[n + 1] = p
        BY <1>2, <1>3, <1>6, <3>1, AppendProperties
      <3>3. p = completed % Depth
        <4>1. frame[p] > 0 /\ frame[p] - 1 = completed
          BY <1>3, <2>3
        <4>. QED  BY <1>2, <2>2, <4>1
      <3>4. (completed + Depth) % Depth = completed % Depth
        BY <1>3, ModTurn
      <3>5. started + (n + 1) - 1 = completed + Depth
        BY <1>3, <3>1
      <3>6. ASSUME NEW i \in 1 .. n + 1  PROVE free_q'[i] = (started + i - 1) % Depth
        <4>1. CASE i = n + 1
          BY <3>2, <3>3, <3>4, <3>5, <4>1
        <4>2. CASE i # n + 1
          <5>1. i \in 1 .. n
            BY <1>3, <3>1, <4>2
          <5>. QED  BY <3>1, <3>2, <5>1 DEF Clock, FreeOrder
        <4>. QED  BY <4>1, <4>2
      <3>. QED  BY <2>1, <3>2, <3>6 DEF FreeOrder
    <2>5. FrameOf'
      BY <1>2, <1>3, <2>3, OneFrame, <1>6, <2>2, <1>4, <2>1 DEF FrameOf
    <2>6. FrameAt'
      BY <1>3, <1>6, <2>1, <1>4 DEF Clock, FrameAt
    <2>7. p \notin S!Busy'
      BY <1>6
    <2>. QED  BY <1>1, <1>2, <1>4, <1>6, <2>1, <2>3, <2>4, <2>5, <2>6, <2>7 DEF Clock
  <1>. QED  BY <1>1, <1>5, <1>6, HostStep

(* All nodes have run the execution that completes. *)
LEMMA HostFrames ==
  ASSUME Typed, Typed', Expected, Ready, Clock, HostOrder, LastFrames, TaskFrames, HostCompletes
  PROVE  Clock' /\ HostOrder' /\ LastFrames' /\ TaskFrames'
  <1>1. PICK d : d = Head(job_q["HOST"])
    OBVIOUS
  <1>2. /\ task' = task /\ executed' = executed /\ frame' = frame /\ running' = running \ {d}
        /\ last_frame' = last_frame /\ d \in Desc /\ d[2] \in Pipe /\ d \in Range(job_q["HOST"])
    BY <1>1, HostEffect, HostStep, NoneIs, Removed DEF HostPops
  <1>3. HostOrder'
    BY HostKeepsOrder DEF HostPops
  <1>4. Clock' /\ started' = started
    BY <1>3, HostClock DEF HostOrder
  <1>5. completed \in Nat /\ started \in Nat /\ (\A n \in Node : last_frame[n] \in Nat) /\ \A p \in Pipe : frame[p] \in Nat
    BY ClockTypes
  <1>6. ASSUME NEW n \in Node  PROVE last_frame[n] >= completed'
    <2>1. CASE completed' = completed
      BY <2>1 DEF LastFrames
    <2>2. CASE completed' # completed
      <3>1. PICK p : p = d[2]
        OBVIOUS
      <3>2. completed' = completed + 1 /\ frame[p] = completed' /\ p \notin S!Busy' /\ p \in Pipe
        BY <1>1, <1>3, <2>2, <3>1, HostClock DEF HostOrder
      <3>3. ASSUME NEW l \in LeafNodes  PROVE <<l, p>> \in executed
        <4>1. <<l, p>> \notin running' /\ frame[p] # 0
          BY <1>5, <3>2, Pipes DEF S!Busy
        <4>2. CASE <<l, p>> \in running
          BY <1>2, <4>1, <4>2 DEF Expected, HostQ
        <4>. QED  BY <3>2, <4>1, <4>2 DEF Expected, LeafDone
      <3>4. <<n, p>> \in executed
        BY <3>2, <3>3, AllDone DEF Ready
      <3>5. frame[p] > 0 /\ frame[p] <= last_frame[n]
        BY <1>5, <3>2, <3>4 DEF LastFrames
      <3>. QED  BY <1>5, <3>2, <3>5
    <2>. QED  BY <2>1, <2>2
  <1>7. LastFrames'
    BY <1>2, <1>4, <1>6 DEF LastFrames
  <1>8. TaskFrames'
    BY <1>2 DEF TaskFrames, Working, Releasing, ToTrigger, Pending
  <1>. QED  BY <1>3, <1>4, <1>7, <1>8
-----------------------------------------------------------------------------
(* The other steps. *)

(* Neither an execution nor a node starts or ends. *)
Still == UNCHANGED <<free_q, submitted_count, completed, running, executed, frame, last_frame>>

LEMMA StillOrNot ==
  ASSUME Typed, [Next]_vars
  PROVE  \/ Still
         \/ \E k \in Nat : Starts(k)
         \/ HostCompletes
         \/ \E t \in Target : Complete(t)
  <1>1. ASSUME \/ \E a \in App, q \in GraphParam, r \in Ref : EnqueueReadyRef(a, q, r)
               \/ \E a \in App : AppTrigger(a)
               \/ Dequeue \/ KernelSchedule \/ HostNotifies
               \/ UNCHANGED vars
        PROVE  Still
    BY <1>1 DEF EnqueueReadyRef, AppTrigger, Dequeue, DequeueDoneRef, KernelSchedule, HostNotifies, Still, vars, schedule, graph, history, nodes, data
  <1>2. ASSUME NEW t \in Target, Take(t) \/ Acquire(t)  PROVE Still
    BY Zenon, <1>2 DEF Take, Acquire, Still, schedule, graph, history, data
  <1>3. ASSUME NEW t \in Target, TaskTrigger(t) \/ Release(t)  PROVE Still
    BY Zenon, <1>3 DEF TaskTrigger, Release, Still, schedule, graph, history, nodes, data
  <1>4. ASSUME NEW t \in Target, SendComplete(t) \/ TriggerNext(t)  PROVE Still
    BY <1>4 DEF SendComplete, TriggerNext, Still, schedule, graph, history, nodes, data
  <1>. QED  BY <1>1, <1>2, <1>3, <1>4, Steps, TypedIs

(* Executions start. *)
LEMMA StartsTurn ==
  ASSUME Typed, Expected, Ready, Told, Clock, HostOrder, LastFrames, TaskFrames, NEW k \in Nat, Starts(k)
  PROVE  HostOrder' /\ LastFrames' /\ TaskFrames'
  <1>1. /\ task' = task /\ job_q'["HOST"] = job_q["HOST"]
        /\ \A d \in running : d[2] \notin Taken(k)
        /\ executed' = {d \in executed : d[2] \notin Taken(k)}
        /\ running' = running \cup LeafNodes \X Taken(k)
        /\ last_frame' = last_frame
    BY StartsEffect DEF Starts, data
  <1>2. /\ started' = started + k /\ completed' = completed
        /\ \A p \in Taken(k) : p \in Pipe /\ frame'[p] \in Nat /\ frame'[p] > started /\ p \notin S!Busy
        /\ \A p \in Pipe \ Taken(k) : frame'[p] = frame[p]
    BY StartsFrames
  <1>3. /\ completed \in Nat /\ started \in Nat
        /\ \A n \in Node : last_frame[n] \in Nat
        /\ \A p \in Pipe : frame[p] \in Nat /\ frame[p] <= started
    BY ClockTypes DEF Clock, FrameOf
  <1>4. \A j \in DOMAIN job_q["HOST"] : job_q["HOST"][j][2] \in Pipe \ Taken(k)
    BY <1>1, CallbackDue
  <1>5. LeafTold'
    BY <1>1 DEF HostOrder, LeafTold, Releasing
  <1>6. ToldInOrder'
    <2>. SUFFICES ASSUME NEW j \in DOMAIN job_q["HOST"], NEW p \in Pipe, NEW d, d = job_q["HOST"][j],
                         <<d[1], p>> \in running', frame'[p] < frame'[d[2]]
                  PROVE  \E i \in DOMAIN job_q["HOST"] : i < j /\ job_q["HOST"][i] = <<d[1], p>>
      BY SMTT(30), <1>1 DEF ToldInOrder
    <2>1. d[2] \in Pipe \ Taken(k) /\ frame'[d[2]] = frame[d[2]]
      BY <1>2, <1>4
    <2>2. p \notin Taken(k)
      BY <1>2, <1>3, <2>1
    <2>3. <<d[1], p>> \in running /\ frame[p] < frame[d[2]]
      BY <1>1, <1>2, <2>1, <2>2
    <2>. QED  BY <2>3 DEF HostOrder, ToldInOrder
  <1>7. LeavesInOrder'
    BY <1>1, <1>2, <1>3 DEF LeavesInOrder, HostOrder
  <1>8. LastFrames'
    BY <1>1, <1>2, <1>3 DEF LastFrames
  <1>9. TaskFrames'
    <2>. SUFFICES ASSUME NEW t \in Target, Working(t) \/ Releasing(t) \/ ToTrigger(t) # {}
                  PROVE  frame'[task[t].desc[2]] = frame[task[t].desc[2]]
      BY <1>1 DEF TaskFrames, Working, Releasing, ToTrigger, Pending
    <2>1. PICK d : d = task[t].desc
      OBVIOUS
    <2>2. d[2] \in S!Busy
      BY <2>1, OwnDesc, Underway, TaskBusy DEF Working, Expected, Unexecuted, FrameStarted
    <2>3. d[2] \in Pipe \ Taken(k)
      BY SMTT(30), <1>2, <2>2, ClockTypes
    <2>. QED  BY <1>2, <2>1, <2>3
  <1>. QED  BY <1>5, <1>6, <1>7, <1>8, <1>9 DEF HostOrder

(* A node has run. *)
LEMMA CompleteFrames ==
  ASSUME Typed, Expected, Ready, Clock, HostOrder, LastFrames, TaskFrames, NEW t \in Target, Complete(t), [Next]_vars
  PROVE  Clock' /\ HostOrder' /\ LastFrames' /\ TaskFrames'
  <1>1. PICK d : d = task[t].desc
    OBVIOUS
  <1>2. /\ d \in Desc /\ TargetOf[d[1]] = t /\ Working(t) /\ task[t].at = "execute"
        /\ task'[t].at = "release" /\ task'[t].desc = d
        /\ \A u \in Target \ {t} : task'[u] = task[u]
        /\ executed' = executed \cup {d}
        /\ running' = running /\ frame' = frame /\ job_q' = job_q
        /\ d[1] \in Node /\ d[2] \in Pipe /\ d = <<d[1], d[2]>>
    BY SMTT(30), <1>1, CompleteEffect, NoneIs
  <1>3. UNCHANGED <<free_q, submitted_count, completed>> /\ last_frame' = [last_frame EXCEPT ![d[1]] = frame[d[2]]]
    BY <1>1 DEF Complete, schedule, graph, history
  <1>4. /\ completed \in Nat /\ started \in Nat /\ \A p \in Pipe : frame[p] \in Nat /\ frame[p] <= started
        /\ last_frame \in [Node -> Nat]
    BY ClockTypes, TypedIs DEF Clock, FrameOf, DataTypeOK
  <1>5. frame[d[2]] = last_frame[d[1]] + 1 /\ frame[d[2]] > 0
    BY <1>1, <1>2, <1>4 DEF TaskFrames
  <1>6. last_frame'[d[1]] = frame[d[2]] /\ \A n \in Node \ {d[1]} : last_frame'[n] = last_frame[n]
    BY <1>2, <1>3, <1>4
  <1>7. Clock'
    BY <1>2, <1>3 DEF Clock, FreeOrder, FrameOf, FrameAt, S!Busy, started
  <1>8. HostOrder'
    <2>1. LeafTold'
      BY <1>2 DEF LeafTold, Releasing, HostOrder
    <2>2. ToldInOrder' /\ LeavesInOrder'
      BY <1>2 DEF HostOrder, ToldInOrder, LeavesInOrder
    <2>. QED  BY <2>1, <2>2 DEF HostOrder
  <1>9. LastFrames'
    <2>. SUFFICES ASSUME NEW n \in Node
                  PROVE  /\ last_frame'[n] >= completed /\ last_frame'[n] <= started
                         /\ \A p \in Pipe : frame[p] > 0 => (<<n, p>> \in executed' <=> frame[p] <= last_frame'[n])
      BY <1>2, <1>3 DEF LastFrames, started
    <2>1. last_frame[n] >= completed /\ last_frame[n] <= started /\ last_frame[n] \in Nat
      BY <1>4 DEF LastFrames
    <2>2. CASE n = d[1]
      <3>1. ASSUME NEW p \in Pipe, frame[p] > 0  PROVE <<n, p>> \in executed' <=> frame[p] <= last_frame'[n]
        BY <3>1, <1>2, OneFrame, <2>2, <1>4, <1>5, <1>6, <2>1 DEF LastFrames
      <3>. QED  BY <1>2, <1>4, <1>5, <1>6, <2>1, <2>2, <3>1
    <2>3. CASE n # d[1]
      BY <1>2, <1>6, <2>1, <2>3 DEF LastFrames
    <2>. QED  BY <2>2, <2>3
  <1>10. TaskFrames'
    <2>. SUFFICES ASSUME NEW u \in Target
                  PROVE  /\ Working(u)' => frame[task'[u].desc[2]] = last_frame'[task'[u].desc[1]] + 1
                         /\ Releasing(u)' \/ ToTrigger(u)' # {} => frame[task'[u].desc[2]] = last_frame'[task'[u].desc[1]]
      BY <1>2 DEF TaskFrames
    <2>1. CASE u = t
      BY <1>2, <1>6, <2>1 DEF Working
    <2>2. CASE u # t
      BY <1>2, <2>2, ToTriggerIs, OwnDesc, NoneIs, <1>6 DEF Working, Releasing, ToTrigger,
         Pending, TaskFrames
    <2>. QED  BY <2>1, <2>2
  <1>. QED  BY <1>7, <1>8, <1>9, <1>10

(* The descriptors of one target fit into a job queue, and those that the    *)
(* HOST hears of into its own.                                               *)
Capacity ==
  /\ \A t \in Target : Cardinality({d \in Desc : TargetOf[d[1]] = t}) <= JobQueueSize
  /\ Cardinality(Tellers) <= JobQueueSize

LEMMA DescFinite == IsFiniteSet(Desc) /\ IsFiniteSet(Tellers)
  BY GraphAssumption, TargetAssumption, LeafFacts, Pipes, FS_Product, FS_Subset, FS_Union DEF Desc, Tellers

(* A sequence without doubles that lacks an element of a set is shorter than the set. *)
LEMMA Shorter ==
  ASSUME NEW X, IsFiniteSet(X), NEW s \in Seq(X), IsInjective(s), NEW d \in X, d \notin Range(s)
  PROVE  Len(s) < Cardinality(X)
  BY LenIsCardinality, FS_RemoveElement, FS_Subset, FS_CardinalityType

(* The HOST queue takes the completion. *)
LEMMA HostTakes ==
  ASSUME Capacity, Typed, Told, NEW t \in Target, SendComplete(t), TellsHost(task[t].desc[1])
  PROVE  job_q'["HOST"] = Append(job_q["HOST"], task[t].desc)
  <1>1. PICK d, s : d = task[t].desc /\ s = job_q["HOST"]
    OBVIOUS
  <1>2. /\ d \in Desc /\ Releasing(t) /\ s \in Seq(Desc)
        /\ job_q'["HOST"] = IF Len(s) < JobQueueSize THEN Append(s, d) ELSE s
    BY <1>1, SendEffect DEF Releasing
  <1>3. IsInjective(s) /\ Range(s) \subseteq Tellers /\ d \notin Range(s)
    BY <1>1, <1>2 DEF Told
  <1>4. d \in Tellers
    BY <1>1, <1>2 DEF TellsHost, Tellers, Desc
  <1>5. s \in Seq(Tellers)
    BY <1>2, <1>3, SeqDef, LenProperties DEF Range
  <1>6. Len(s) < Cardinality(Tellers)
    BY <1>3, <1>4, <1>5, DescFinite, Shorter
  <1>7. Cardinality(Tellers) \in Nat /\ Len(s) \in Nat
    BY <1>5, DescFinite, FS_CardinalityType
  <1>. QED  BY <1>1, <1>2, <1>6, <1>7, SizeAssumption DEF Capacity

LEMMA ToldKept ==
  ASSUME ToldInOrder, job_q'["HOST"] = job_q["HOST"], running' = running, frame' = frame
  PROVE  ToldInOrder'
  BY ZenonT(30) DEF ToldInOrder

(* A task that hands on a leaf node tells the HOST after what it told before. *)
LEMMA SendOrder ==
  ASSUME Capacity, Typed, Expected, Ready, Told, Clock, HostOrder, LastFrames, TaskFrames, NEW t \in Target, SendComplete(t)
  PROVE  LeafTold' /\ ToldInOrder'
  <1>1. PICK d, s : d = task[t].desc /\ s = job_q["HOST"]
    OBVIOUS
  <1>2. /\ d \in Desc /\ TargetOf[d[1]] = t /\ task[t].at = "send_complete"
        /\ task'[t].at = "trigger_next"
        /\ \A u \in Target \ {t} : task'[u] = task[u]
        /\ executed' = executed /\ running' = running /\ frame' = frame
        /\ s \in Seq(Desc) /\ job_q'["HOST"] \in {s, Append(s, d)}
        /\ d[1] \in Node /\ d[2] \in Pipe /\ d = <<d[1], d[2]>>
    BY <1>1, SendEffect, NoneIs
  <1>3. running \subseteq LeafNodes \X Pipe /\ \A p \in Pipe : frame[p] \in Nat
    BY TypedIs, SameInvariants, Pipes, ClockTypes DEF SP!Inv, S!TypeOK
  <1>4. \A e \in running : e \in executed => e \in Range(s) \/ e = d \/ \E u \in Target : Releasing(u)' /\ task'[u].desc = e
    BY <1>1, <1>2 DEF HostOrder, LeafTold, Releasing
  <1>5. CASE d[1] \notin LeafNodes /\ job_q'["HOST"] = s
    BY <1>2, <1>3, <1>5, <1>1, <1>4, ToldKept DEF LeafTold, HostOrder
  <1>6. CASE job_q'["HOST"] = Append(s, d)
    <2>1. job_q'["HOST"] = Append(s, d) /\ s \in Seq(Desc)
      BY <1>2, <1>6
    <2>2. PICK n : n = Len(s)
      OBVIOUS
    <2>3. PICK w : w = job_q'["HOST"]
      OBVIOUS
    <2>4. /\ n \in Nat /\ DOMAIN s = 1 .. n /\ DOMAIN w = 1 .. n + 1
          /\ \A i \in 1 .. n : w[i] = s[i]
          /\ w[n + 1] = d /\ Range(w) = Range(s) \cup {d}
      BY <1>2, <2>1, <2>2, <2>3, AppendProperties, Appended
    <2>5. LeafTold'
      BY <1>2, <1>4, <2>3, <2>4 DEF LeafTold
    <2>6. ToldInOrder'
      <3>. SUFFICES ASSUME NEW j \in 1 .. n + 1, NEW p \in Pipe, NEW e, e = w[j],
                           <<e[1], p>> \in running, frame[p] < frame[e[2]]
                    PROVE  \E i \in 1 .. n + 1 : i < j /\ w[i] = <<e[1], p>>
        <4>1. ASSUME NEW j \in DOMAIN job_q'["HOST"], NEW p \in Pipe, NEW e, e = job_q'["HOST"][j],
                     <<e[1], p>> \in running', frame'[p] < frame'[e[2]]
              PROVE  \E i \in DOMAIN job_q'["HOST"] : i < j /\ job_q'["HOST"][i] = <<e[1], p>>
          <5>1. j \in 1 .. n + 1 /\ e = w[j] /\ <<e[1], p>> \in running /\ frame[p] < frame[e[2]]
            BY <1>2, <2>3, <2>4, <4>1
          <5>2. \E i \in 1 .. n + 1 : i < j /\ w[i] = <<e[1], p>>
            BY <5>1
          <5>. QED  BY <2>3, <2>4, <5>2
        <4>. QED  BY Zenon, <4>1 DEF ToldInOrder
      <3>0. \A k \in 1 .. n : \A x \in Pipe :
              <<s[k][1], x>> \in running /\ frame[x] < frame[s[k][2]] =>
                \E i \in 1 .. n : i < k /\ s[i] = <<s[k][1], x>>
        BY <1>1, <2>4 DEF HostOrder, ToldInOrder
      <3>1. CASE j \in 1 .. n
        <4>1. e = s[j]
          BY <2>4, <3>1
        <4>2. PICK i \in 1 .. n : i < j /\ s[i] = <<e[1], p>>
          BY <3>0, <3>1, <4>1
        <4>. QED  BY <2>4, <4>2
      <3>2. CASE j = n + 1
        <4>1. e = d
          BY <2>4, <3>2
        <4>2. PICK c : c = <<d[1], p>>
          OBVIOUS
        <4>3. c \in running /\ c # d /\ frame[p] > 0 /\ frame[p] < frame[d[2]]
          <5>1. p \in S!Busy
            BY <1>3, <4>1, ClockTypes
          <5>2. frame[p] > 0
            BY <1>3, <5>1, ClockTypes DEF Clock, FrameOf
          <5>3. p # d[2]
            BY <1>2, <1>3, <4>1
          <5>. QED  BY <1>2, <4>1, <4>2, <5>2, <5>3
        <4>4. frame[d[2]] = last_frame[d[1]]
          BY <1>1, <1>2 DEF TaskFrames, Releasing
        <4>5. frame[p] <= last_frame[d[1]]
          BY <1>2, <1>3, <4>3, <4>4, ClockTypes
        <4>6. c \in executed
          BY <1>2, <4>2, <4>3, <4>5 DEF LastFrames
        <4>7. \A u \in Target : Releasing(u) => task[u].desc # c
          BY <1>2, <4>2, OwnDesc, <1>1, <4>3 DEF Releasing
        <4>8. c \in Range(s)
          BY <1>1, <4>3, <4>6, <4>7 DEF HostOrder, LeafTold
        <4>9. PICK i \in 1 .. n : s[i] = c
          BY <2>4, <4>8 DEF Range
        <4>. QED  BY <2>4, <3>2, <4>1, <4>2, <4>9
      <3>. QED  BY <2>4, <3>1, <3>2
    <2>. QED  BY <2>5, <2>6
  <1>7. d[1] \in LeafNodes => job_q'["HOST"] = Append(s, d)
    BY <1>1, HostTakes DEF TellsHost
  <1>. QED  BY <1>2, <1>5, <1>6, <1>7

(* A task takes up the execution after the one its node ran last. *)
TakesNext == \A t \in Target : Takes(t) => frame[task'[t].desc[2]] = last_frame[task'[t].desc[1]] + 1

LEMMA StillFrames ==
  ASSUME Capacity, Typed, Expected, Ready, Told, Clock, HostOrder, LastFrames, TaskFrames, TakesNext,
         Still, [Next]_vars, \A t \in Target : ~Complete(t)
  PROVE  Clock' /\ HostOrder' /\ LastFrames' /\ TaskFrames'
  <1>1. /\ UNCHANGED <<free_q, submitted_count, completed>>
        /\ running' = running /\ executed' = executed /\ frame' = frame /\ last_frame' = last_frame
    BY DEF Still
  <1>2. Clock' /\ LastFrames' /\ LeavesInOrder'
    BY <1>1 DEF Clock, FreeOrder, FrameOf, FrameAt, S!Busy, started, LastFrames, HostOrder, LeavesInOrder
  <1>3. Calm \/ HostPops \/ \E t \in Target : SendComplete(t)
    BY <1>1, SameTasks, StartsEffect, CalmOrNot
  <1>4. LeafTold' /\ ToldInOrder'
    <2>1. CASE Calm
      BY <2>1, <1>1, ToldKept DEF Calm, Takes, Releasing, HostOrder, LeafTold
    <2>2. CASE \E t \in Target : SendComplete(t)
      BY <2>2, SendOrder
    <2>. QED  BY <1>3, <2>1, <2>2, HostKeepsOrder DEF HostOrder
  <1>5. TaskFrames'
    BY <1>1, ToTriggerKept, SendEffect, HostEffect, <1>3 DEF TaskFrames, Calm, Takes, Releasing,
       Working, TakesNext
  <1>. QED  BY <1>2, <1>4, <1>5 DEF HostOrder
-----------------------------------------------------------------------------
(* No descriptor is lost. *)

(* A descriptor that has yet to run waits, is in the queue of its target or  *)
(* with its task, or a task has yet to trigger it.                           *)
Accounted(d) ==
  \/ state[d] = "BLOCKED"
  \/ d \in Range(starting)
  \/ d \in Range(job_q[TargetOf[d[1]]])
  \/ Working(TargetOf[d[1]]) /\ task[TargetOf[d[1]]].desc = d
  \/ \E t \in Target : d \in ToTrigger(t)

(* Those whose predecessors have run are. *)
NoneLost ==
  \A d \in Desc : frame[d[2]] > 0 /\ d \notin executed /\ CanNodeExecute(d[1], d[2]) => Accounted(d)

(* The descriptors of a target. *)
OfTarget(t) == {d \in Desc : TargetOf[d[1]] = t}

LEMMA SeqOfSet ==
  ASSUME NEW T, NEW X, NEW s \in Seq(T), Range(s) \subseteq X
  PROVE  s \in Seq(X)
  <1>1. s \in Seq(X)
    BY LenProperties, SeqDef DEF Range
  <1>. QED  BY <1>1, Zenon

LEMMA OfTargetIs ==
  ASSUME Capacity, NEW t \in Target
  PROVE  IsFiniteSet(OfTarget(t)) /\ Cardinality(OfTarget(t)) \in Nat /\ Cardinality(OfTarget(t)) <= JobQueueSize
  BY DescFinite, FS_Subset, FS_CardinalityType DEF OfTarget, Capacity

(* A queue that lacks a descriptor of its target has room for it. *)
LEMMA JobTaken ==
  ASSUME Capacity, Typed, Ready, NEW d \in Desc, d \notin Range(job_q[TargetOf[d[1]]])
  PROVE  Len(job_q[TargetOf[d[1]]]) < JobQueueSize
  <1>1. PICK t, s : t = TargetOf[d[1]] /\ s = job_q[t]
    OBVIOUS
  <1>2. t \in Target
    BY <1>1, Targets, NoneIs
  <1>3. s \in Seq(Desc) /\ Range(s) \subseteq OfTarget(t) /\ IsInjective(s)
    <2>1. s \in Seq(Desc)
      BY <1>1, <1>2, TypedIs DEF DataTypeOK, JobsOK, Jobs
    <2>2. \A i \in DOMAIN s : s[i] \in Desc
      BY <2>1, ElementOfSeq
    <2>. QED  BY <1>1, <1>2, <2>1, <2>2 DEF Typed, JobsOnTarget, OfTarget, Range, Ready, TriggeredOnce
  <1>4. s \in Seq(OfTarget(t)) /\ Len(s) \in Nat
    BY <1>3, SeqOfSet
  <1>5. d \in OfTarget(t)
    BY <1>1 DEF OfTarget
  <1>6. Len(s) < Cardinality(OfTarget(t))
    BY <1>1, <1>2, <1>3, <1>4, <1>5, OfTargetIs, Shorter
  <1>. QED  BY <1>1, <1>2, <1>4, <1>6, OfTargetIs, SizeAssumption

(* A triggered descriptor is in the queue afterwards, and what was is. *)
LEMMA TriggerAdds ==
  ASSUME Capacity, Typed, Ready, NEW d \in Desc, job_q' = Trigger(job_q, d)
  PROVE  /\ \A t \in Target : Range(job_q[t]) \subseteq Range(job_q'[t])
         /\ d \in Range(job_q'[TargetOf[d[1]]])
  <1>1. PICK t : t = TargetOf[d[1]]
    OBVIOUS
  <1>2. /\ t \in Target /\ \A u \in Target \ {t} : job_q'[u] = job_q[u]
        /\ job_q'[t] = IF Len(job_q[t]) < JobQueueSize THEN Append(job_q[t], d) ELSE job_q[t]
        /\ job_q[t] \in Seq(Desc)
    BY TypedIs, <1>1, Triggered DEF DataTypeOK, JobsOK, Jobs
  <1>3. Range(Append(job_q[t], d)) = Range(job_q[t]) \cup {d}
    BY <1>2, Appended
  <1>4. d \notin Range(job_q[t]) => Len(job_q[t]) < JobQueueSize
    BY <1>1, JobTaken
  <1>. QED  BY <1>1, <1>2, <1>3, <1>4

(* What is in a job queue is on a busy id. *)
LEMMA PlacedBusy ==
  ASSUME Typed, Expected, Ready, NEW d \in Desc, IsPlaced(d)
  PROVE  d[2] \in S!Busy /\ d \notin executed /\ frame[d[2]] > 0
  BY Underway DEF Ready, PlacedReady, Expected, FrameStarted

LEMMA JobPlaced ==
  ASSUME NEW t \in Target, NEW d \in Range(job_q[t])
  PROVE  IsPlaced(d)
  BY DEF IsPlaced, Kinds, Of, Holds

(* A step that takes nothing from a queue and leaves the tasks at their work. *)
LEMMA LostQuiet ==
  ASSUME Typed, NoneLost, executed' = executed, frame' = frame, state' = state,
         \A t \in Target : Range(job_q[t]) \subseteq Range(job_q'[t]),
         \A d \in Range(starting) : d \in Range(starting') \/ d \in Range(job_q'[TargetOf[d[1]]]),
         \A t \in Target : Working(t) => Working(t)' /\ task'[t].desc = task[t].desc,
         \A t \in Target : \A d \in ToTrigger(t) : CanNodeExecute(d[1], d[2]) => d \in ToTrigger(t)' \/ d \in Range(job_q'[TargetOf[d[1]]])
  PROVE  NoneLost'
  BY Targets, NoneIs DEF NoneLost, CanNodeExecute, Accounted

(* What a task has yet to trigger while it stays where it is. *)
LEMMA ToTriggerSame ==
  ASSUME NEW t \in Target, task'[t].desc = task[t].desc,
         \/ task'[t] = task[t]
         \/ Releasing(t) /\ Releasing(t)'
  PROVE  ToTrigger(t)' = ToTrigger(t)
  BY DEF ToTrigger, Pending, Releasing

LEMMA ToTriggerNone ==
  ASSUME NEW t \in Target, ~Releasing(t), task[t].at # "trigger_next"
  PROVE  ToTrigger(t) = {}
  BY DEF Pending, Releasing, ToTrigger

LEMMA KernelLost ==
  ASSUME Capacity, Typed, Ready, NoneLost, KernelSchedule
  PROVE  NoneLost'
  BY FirstHead, TypedIs, ToTriggerSame, TriggerAdds, LostQuiet DEF KernelSchedule, nodes,
     DataTypeOK, Working

(* Steps of the application and of the HOST. *)
LEMMA OutsideLost ==
  ASSUME Capacity, Typed, Ready, NoneLost, starting' = starting,
         \/ \E a \in App, q \in GraphParam, r \in Ref : EnqueueReadyRef(a, q, r)
         \/ \E a \in App : AppTrigger(a)
         \/ Dequeue \/ HostPops \/ UNCHANGED vars
  PROVE  NoneLost'
  <1>1. executed' = executed /\ frame' = frame /\ state' = state /\ task' = task
    BY DEF EnqueueReadyRef, AppTrigger, Dequeue, DequeueDoneRef, HostPops, HostCompletes, HostNotifies, nodes, vars, schedule
  <1>2. \A t \in Target : Range(job_q[t]) \subseteq Range(job_q'[t])
    <2>1. ASSUME NEW a \in App, AppTrigger(a)  PROVE \A t \in Target : Range(job_q[t]) \subseteq Range(job_q'[t])
      <3>1. job_q' = Trigger(job_q, Head(app[a])) /\ app[a] # <<>>
        BY <2>1 DEF AppTrigger
      <3>2. Head(app[a]) \in Desc
        BY <3>1, TypedIs DEF DataTypeOK
      <3>. QED  BY <3>1, <3>2, TriggerAdds
    <2>2. ASSUME HostPops  PROVE \A t \in Target : job_q'[t] = job_q[t]
      BY <2>2, TypedIs, Targets DEF HostPops, HostCompletes, HostNotifies, DataTypeOK, JobsOK, Jobs
    <2>3. ASSUME \/ \E a \in App, q \in GraphParam, r \in Ref : EnqueueReadyRef(a, q, r)
                 \/ Dequeue \/ UNCHANGED vars
          PROVE  job_q' = job_q
      BY <2>3 DEF EnqueueReadyRef, Dequeue, DequeueDoneRef, vars
    <2>. QED  BY <2>1, <2>2, <2>3
  <1>3. \A t \in Target : ToTrigger(t)' = ToTrigger(t) /\ (Working(t) => Working(t)')
    BY <1>1, ToTriggerSame DEF Working
  <1>. QED  BY <1>1, <1>2, <1>3, LostQuiet

(* Steps of a task other than to take, to try for a parameter, or to run its node. *)
LEMMA TaskLost ==
  ASSUME Capacity, Typed, Ready, NoneLost, starting' = starting, NEW t \in Target,
         TaskTrigger(t) \/ Release(t) \/ SendComplete(t) \/ TriggerNext(t)
  PROVE  NoneLost'
  <1>0. task \in [Target -> Task] /\ TasksShaped
    BY TypedIs DEF DataTypeOK
  <1>1. executed' = executed /\ frame' = frame /\ state' = state
    BY ZenonT(30) DEF TaskTrigger, Release, SendComplete, TriggerNext, nodes
  <1>2. \A u \in Target \ {t} : task'[u] = task[u]
    BY <1>0, TaskTriggerTask, TaskToIs, ReleaseTask, SendEffect, TriggerNextTask
  <1>3. ~Working(t)
    <2>1. TaskTrigger(t) => task[t].at \in {"release", "send_complete"}
      BY <1>0, TaskTriggerTask
    <2>2. Release(t) \/ SendComplete(t) \/ TriggerNext(t) => task[t].at \in {"release", "send_complete", "trigger_next"}
      BY Zenon DEF Release, SendComplete, TriggerNext, At
    <2>. QED  BY <2>1, <2>2 DEF Working
  <1>4. \A u \in Target : Working(u) => Working(u)' /\ task'[u].desc = task[u].desc
    BY <1>2, <1>3 DEF Working
  <1>5. \A u \in Target \ {t} : ToTrigger(u)' = ToTrigger(u)
    BY <1>2, ToTriggerSame
  <1>6. CASE TaskTrigger(t)
    <2>1. task'[t].at = task[t].at /\ task'[t].desc = task[t].desc /\ Releasing(t) /\ task[t].send # <<>>
      BY <1>0, <1>6, TaskTriggerTask, TaskToIs DEF Releasing
    <2>2. ToTrigger(t)' = ToTrigger(t)
      BY <2>1, ToTriggerSame DEF Releasing
    <2>3. job_q' = Trigger(job_q, Head(task[t].send)) /\ Head(task[t].send) \in Desc
      BY <1>0, <1>6, <2>1, TaskFields DEF TaskTrigger
    <2>. QED  BY <1>1, <1>4, <1>5, <2>2, <2>3, TriggerAdds, LostQuiet
  <1>7. CASE Release(t)
    <2>1. task'[t].desc = task[t].desc /\ Releasing(t) /\ Releasing(t)'
      BY <1>0, <1>7, ReleaseTask, TaskToIs DEF Releasing
    <2>2. ToTrigger(t)' = ToTrigger(t) /\ job_q' = job_q
      BY ZenonT(30), <1>7, <2>1, ToTriggerSame DEF Release
    <2>. QED  BY SMTT(30), <1>1, <1>4, <1>5, <2>2, LostQuiet
  <1>8. CASE SendComplete(t)
    <2>1. /\ task[t].at = "send_complete" /\ task'[t].at = "trigger_next" /\ task'[t].i = 1
          /\ task'[t].desc = task[t].desc /\ task[t].desc \in Desc
      BY <1>8, SendEffect
    <2>2. ToTrigger(t) = OutNodes(task[t].desc[1]) \X {task[t].desc[2]}
      BY <2>1 DEF ToTrigger, Pending, Releasing
    <2>3. ToTrigger(t)' = OutNodes(task[t].desc[1]) \X {task[t].desc[2]}
      <3>1. PICK next : next = Successors(task[t].desc[1])
        OBVIOUS
      <3>2. Range(next) = OutNodes(task[t].desc[1]) /\ DOMAIN next = 1 .. Len(next)
        BY <2>1, <3>1, NoneIs, SuccessorsIs
      <3>3. Pending(t)' = {next[j] : j \in 1 .. Len(next)}
        BY <2>1, <3>1 DEF Pending, Releasing
      <3>. QED  BY <2>1, <3>2, <3>3 DEF ToTrigger, Range
    <2>4. \A u \in Target : job_q'[u] = job_q[u]
      BY <1>8, Targets, TypedIs, <2>1, PutIs DEF SendComplete, DataTypeOK, Jobs
    <2>. QED  BY <1>1, <1>4, <1>5, <2>2, <2>3, <2>4, LostQuiet
  <1>9. CASE TriggerNext(t)
    <2>1. PICK d, n, i, next : d = task[t].desc /\ n = Len(next) /\ i = task[t].i /\ next = Successors(d[1])
      OBVIOUS
    <2>2. /\ d \in Desc /\ i \in Nat \ {0} /\ n \in Nat /\ task[t].at = "trigger_next"
      BY <1>0, <1>9, <2>1, NextTrigger, TriggerNextTask
    <2>3. ToTrigger(t) = {next[j] : j \in i .. n} \X {d[2]}
      BY <2>1, <2>2 DEF ToTrigger, Pending, Releasing
    <2>4. CASE i <= n
      <3>1. PICK e : e = <<next[i], d[2]>>
        OBVIOUS
      <3>2. /\ e \in Desc /\ e[1] = next[i] /\ e[2] = d[2]
            /\ job_q' = IF CanNodeExecute(e[1], e[2]) THEN Trigger(job_q, e) ELSE job_q
        BY <1>9, <2>1, <2>4, <3>1, NextTrigger
      <3>3. /\ \A u \in Target : Range(job_q[u]) \subseteq Range(job_q'[u])
            /\ CanNodeExecute(e[1], e[2]) => e \in Range(job_q'[TargetOf[e[1]]])
        BY <3>2, TriggerAdds
      <3>4. task'[t].at = "trigger_next" /\ task'[t].desc = d /\ task'[t].i = i + 1
        BY <1>0, <1>9, <2>1, <2>4, TriggerNextTask, TaskToIs
      <3>5. ToTrigger(t)' = {next[j] : j \in i + 1 .. n} \X {d[2]}
        BY <2>1, <3>4 DEF ToTrigger, Pending, Releasing
      <3>6. \A j \in i .. n : j = i \/ j \in i + 1 .. n
        BY <2>2
      <3>7. \A c \in ToTrigger(t) : c = e \/ c \in ToTrigger(t)'
        BY <2>3, <3>1, <3>5, <3>6
      <3>8. \A u \in Target : \A c \in ToTrigger(u) : CanNodeExecute(c[1], c[2]) =>
              c \in ToTrigger(u)' \/ c \in Range(job_q'[TargetOf[c[1]]])
        BY <1>5, <3>3, <3>7
      <3>. QED  BY <1>1, <1>4, <3>3, <3>8, LostQuiet
    <2>5. CASE i > n
      <3>1. ToTrigger(t) = {}
        BY <2>2, <2>5, <2>3
      <3>2. \A u \in Target : Range(job_q[u]) \subseteq Range(job_q'[u])
        BY <1>9, <2>1, <2>5, NextTrigger, TriggerAdds
      <3>. QED  BY <1>1, <1>4, <1>5, <3>1, <3>2, LostQuiet
    <2>. QED  BY <2>2, <2>4, <2>5
  <1>. QED  BY <1>6, <1>7, <1>8, <1>9
(* A task takes a descriptor: it works on it, or leaves it blocked. *)
LEMMA TakeEffect ==
  ASSUME Typed, NEW t \in Target, Take(t)
  PROVE  LET d == Head(job_q[t])
         IN  /\ task[t].at = "idle" /\ d \in Desc /\ TargetOf[d[1]] = t /\ d \in Range(job_q[t])
             /\ \A u \in Target \ {t} : job_q'[u] = job_q[u] /\ task'[u] = task[u]
             /\ job_q[t] \in Seq(Desc) /\ job_q[t] # <<>> /\ job_q'[t] = Tail(job_q[t])
             /\ executed' = executed /\ frame' = frame /\ last_frame' = last_frame
             /\ \A e \in Desc \ {d} : state'[e] = state[e]
             /\ \/ d \in executed /\ task' = task /\ state' = state /\ blocked_node_id' = blocked_node_id
                \/ /\ d \notin executed /\ WaitsForPrev(d) /\ task' = task
                   /\ state'[d] = "BLOCKED" /\ blocked_node_id' = [blocked_node_id EXCEPT ![PrevPipe(d)] = d]
                \/ /\ Takes(t) /\ task'[t].at = "acquire" /\ task'[t].desc = d
                   /\ state'[d] \in {"IDLE", state[d]} /\ blocked_node_id' = blocked_node_id
  <1>1. PICK d, s : d = Head(job_q[t]) /\ s = job_q[t]
    OBVIOUS
  <1>2. s # <<>> /\ task[t].at = "idle"
    BY <1>1 DEF Take, At
  <1>3. d \in Desc /\ TargetOf[d[1]] = t /\ d \in Range(s)
    BY <1>1, <1>2, HeadJob
  <1>4. job_q \in [Jobs -> Seq(Desc)] /\ task \in [Target -> Task] /\ TasksShaped /\ state \in [Desc -> {"IDLE", "BLOCKED"}]
    BY TypedIs DEF DataTypeOK, JobsOK
  <1>5. /\ \A u \in Target \ {t} : job_q'[u] = job_q[u]
        /\ s \in Seq(Desc) /\ job_q'[t] = Tail(s)
    BY <1>1, <1>4 DEF Take, Jobs
  <1>6. executed' = executed /\ frame' = frame /\ last_frame' = last_frame
    BY DEF Take, data
  <1>7. CASE d \in executed
    BY SMTT(30), <1>1, <1>7, <1>2, <1>3, <1>5, <1>6 DEF Take
  <1>8. CASE d \notin executed /\ WaitsForPrev(d)
    BY SMTT(30), <1>1, <1>8, <1>3, <1>4, <1>2, <1>5, <1>6 DEF Take
  <1>9. CASE d \notin executed /\ ~WaitsForPrev(d)
    <2>1. /\ blocked_node_id' = blocked_node_id
          /\ state' = [state EXCEPT ![d] = "IDLE"] \/ state' = state
      BY <1>1, <1>9 DEF Take
    <2>2. state'[d] \in {"IDLE", state[d]} /\ \A e \in Desc \ {d} : state'[e] = state[e]
      BY <1>3, <1>4, <2>1
    <2>3. TaskTo(t, "acquire", d, 1, <<>>, <<>>, None)
      BY <1>1, <1>4, <1>9, TakeTask
    <2>4. task'[t].at = "acquire" /\ task'[t].desc = d /\ \A u \in Target \ {t} : task'[u] = task[u]
      BY <1>4, <2>3, TaskToIs
    <2>5. Takes(t)
      BY <1>1, <1>2, <1>3, <1>9, <2>4 DEF Takes
    <2>. QED  BY <1>1, <1>2, <1>3, <1>5, <1>6, <1>9, <2>1, <2>2, <2>4, <2>5
  <1>. QED  BY <1>7, <1>8, <1>9

(* It goes on with its descriptor, or leaves it blocked. *)
LEMMA AcquireEffect ==
  ASSUME Typed, NEW t \in Target, Acquire(t)
  PROVE  LET d == task[t].desc
         IN  /\ task[t].at = "acquire" /\ d \in Desc /\ TargetOf[d[1]] = t
             /\ \A u \in Target \ {t} : task'[u] = task[u]
             /\ UNCHANGED <<job_q, executed, frame, last_frame, blocked_node_id>>
             /\ \A e \in Desc \ {d} : state'[e] = state[e]
             /\ \/ state' = state /\ Working(t)' /\ task'[t].desc = d
                \/ state'[d] = "BLOCKED" /\ task'[t].at = "idle"
  <1>1. PICK d, q : d = task[t].desc /\ q = Param[task[t].desc[1]][task[t].i][1]
    OBVIOUS
  <1>2. task \in [Target -> Task] /\ TasksShaped /\ state \in [Desc -> {"IDLE", "BLOCKED"}]
    BY TypedIs DEF DataTypeOK
  <1>3. task[t].at = "acquire" /\ d \in Desc /\ TargetOf[d[1]] = t
    BY Zenon, <1>1, OwnDesc DEF Acquire, At
  <1>4. UNCHANGED <<job_q, executed, frame, last_frame, blocked_node_id>>
    BY Zenon DEF Acquire, data
  <1>5. CASE data_ref_q[q][d[2]].acquired \/ acquire_q[q] # <<>>
    <2>1. state' = state
      BY Zenon, <1>1, <1>5 DEF Acquire
    <2>2. \E at \in {"execute", "acquire"} : \E i, prm : TaskTo(t, at, d, i, prm, <<>>, None)
      BY Zenon, <1>1, <1>2, <1>5, AcquireTask
    <2>3. task'[t].at \in {"execute", "acquire"} /\ task'[t].desc = d /\ \A u \in Target \ {t} : task'[u] = task[u]
      BY <1>2, <2>2, TaskToIs
    <2>. QED  BY <1>1, <1>3, <1>4, <2>1, <2>3 DEF Working
  <1>6. CASE ~(data_ref_q[q][d[2]].acquired \/ acquire_q[q] # <<>>)
    <2>1. state' = [state EXCEPT ![d] = "BLOCKED"]
      BY Zenon, <1>1, <1>6 DEF Acquire
    <2>2. state'[d] = "BLOCKED" /\ \A e \in Desc \ {d} : state'[e] = state[e]
      BY <1>2, <1>3, <2>1
    <2>3. TaskTo(t, "idle", None, 0, <<>>, <<>>, None)
      BY Zenon, <1>1, <1>2, <1>6, AcquireTask
    <2>4. task'[t].at = "idle" /\ \A u \in Target \ {t} : task'[u] = task[u]
      BY <1>2, <2>3, TaskToIs
    <2>. QED  BY <1>1, <1>3, <1>4, <2>2, <2>4
  <1>. QED  BY <1>5, <1>6

(* The flags of a descriptor that has run. *)
LEMMA CompleteFlags ==
  ASSUME Typed, NEW t \in Target, Complete(t)
  PROVE  LET d == task[t].desc
         IN  /\ state'[d] = "IDLE" /\ \A e \in Desc \ {d} : state'[e] = state[e]
             /\ blocked_node_id' = [blocked_node_id EXCEPT ![d] = None]
             /\ last_frame' = [last_frame EXCEPT ![d[1]] = frame[d[2]]]
  <1>1. PICK d : d = task[t].desc
    OBVIOUS
  <1>2. d \in Desc /\ state \in [Desc -> {"IDLE", "BLOCKED"}]
    BY <1>1, CompleteEffect, TypedIs DEF DataTypeOK
  <1>3. /\ state' = [state EXCEPT ![d] = "IDLE"] /\ blocked_node_id' = [blocked_node_id EXCEPT ![d] = None]
        /\ last_frame' = [last_frame EXCEPT ![d[1]] = frame[d[2]]]
    BY <1>1 DEF Complete
  <1>. QED  BY <1>1, <1>2, <1>3

LEMMA TakeLost ==
  ASSUME Typed, Ready, NoneLost, starting' = starting, NEW t \in Target, Take(t)
  PROVE  NoneLost'
  <1>1. PICK d : d = Head(job_q[t])
    OBVIOUS
  <1>2. /\ d \in Desc /\ TargetOf[d[1]] = t /\ task[t].at = "idle"
        /\ executed' = executed /\ frame' = frame
        /\ \A e \in Desc \ {d} : state'[e] = state[e]
        /\ \A u \in Target \ {t} : job_q'[u] = job_q[u] /\ task'[u] = task[u]
        /\ \/ d \in executed
           \/ state'[d] = "BLOCKED"
           \/ task'[t].at = "acquire" /\ task'[t].desc = d
    BY <1>1, TakeEffect
  <1>3. \A e \in Range(job_q[t]) : e = d \/ e \in Range(job_q'[t])
    BY <1>1, TakeEffect, Removed
  <1>4. ~Working(t) /\ ToTrigger(t) = {}
    BY SMTT(30), <1>2, ToTriggerNone DEF Working, Releasing
  <1>5. \A u \in Target \ {t} : ToTrigger(u)' = ToTrigger(u) /\ (Working(u) => Working(u)')
    BY <1>2, ToTriggerSame DEF Working
  <1>. SUFFICES ASSUME NEW e \in Desc, frame'[e[2]] > 0, e \notin executed', CanNodeExecute(e[1], e[2])'
                PROVE  Accounted(e)'
    BY DEF NoneLost
  <1>6. Accounted(e) /\ TargetOf[e[1]] \in Target
    BY <1>2, Targets, NoneIs DEF NoneLost, CanNodeExecute
  <1>7. CASE e = d
    BY <1>2, <1>7 DEF Accounted, Working
  <1>8. CASE e # d
    BY <1>2, <1>8, <1>3, <1>6, <1>4, <1>5 DEF Accounted
  <1>. QED  BY <1>7, <1>8

LEMMA AcquireLost ==
  ASSUME Typed, NoneLost, starting' = starting, NEW t \in Target, Acquire(t)
  PROVE  NoneLost'
  <1>1. PICK d : d = task[t].desc
    OBVIOUS
  <1>2. /\ d \in Desc /\ task[t].at = "acquire"
        /\ executed' = executed /\ frame' = frame /\ job_q' = job_q
        /\ \A e \in Desc \ {d} : state'[e] = state[e]
        /\ \A u \in Target \ {t} : task'[u] = task[u]
        /\ \/ state' = state /\ Working(t)' /\ task'[t].desc = d
           \/ state'[d] = "BLOCKED"
    BY <1>1, AcquireEffect
  <1>4. ToTrigger(t) = {}
    BY <1>2, ToTriggerNone DEF Releasing
  <1>5. \A u \in Target \ {t} : ToTrigger(u)' = ToTrigger(u) /\ (Working(u) => Working(u)')
    BY <1>2, ToTriggerSame DEF Working
  <1>. SUFFICES ASSUME NEW e \in Desc, frame'[e[2]] > 0, e \notin executed', CanNodeExecute(e[1], e[2])'
                PROVE  Accounted(e)'
    BY DEF NoneLost
  <1>6. Accounted(e) /\ TargetOf[e[1]] \in Target
    BY <1>2, Targets, NoneIs DEF NoneLost, CanNodeExecute
  <1>7. state[e] = "BLOCKED" => state'[e] = "BLOCKED"
    BY <1>2
  <1>8. Working(TargetOf[e[1]]) /\ task[TargetOf[e[1]]].desc = e =>
          (Working(TargetOf[e[1]])' /\ task'[TargetOf[e[1]]].desc = e) \/ state'[e] = "BLOCKED"
    BY <1>1, <1>2, <1>5, <1>6
  <1>9. \A u \in Target : e \in ToTrigger(u) => e \in ToTrigger(u)'
    BY <1>4, <1>5
  <1>. QED  BY <1>2, <1>6, <1>7, <1>8, <1>9 DEF Accounted

LEMMA CompleteLost ==
  ASSUME Typed, NoneLost, starting' = starting, NEW t \in Target, Complete(t)
  PROVE  NoneLost'
  <1>1. PICK d : d = task[t].desc
    OBVIOUS
  <1>2. /\ d \in Desc /\ task[t].at = "execute" /\ task'[t].at = "release" /\ task'[t].desc = d
        /\ executed' = executed \cup {d} /\ frame' = frame /\ job_q' = job_q
        /\ \A e \in Desc \ {d} : state'[e] = state[e]
        /\ \A u \in Target \ {t} : task'[u] = task[u]
    BY <1>1, CompleteEffect, CompleteFlags
  <1>3. ToTrigger(t) = {} /\ ToTrigger(t)' = OutNodes(d[1]) \X {d[2]}
    BY <1>2, ToTriggerNone DEF ToTrigger, Pending, Releasing
  <1>4. \A u \in Target \ {t} : ToTrigger(u)' = ToTrigger(u) /\ (Working(u) => Working(u)')
    BY <1>2, ToTriggerSame DEF Working
  <1>. SUFFICES ASSUME NEW e \in Desc, frame'[e[2]] > 0, e \notin executed', CanNodeExecute(e[1], e[2])'
                PROVE  Accounted(e)'
    BY DEF NoneLost
  <1>5. e # d /\ e \notin executed /\ TargetOf[e[1]] \in Target /\ e[1] \in Node /\ e = <<e[1], e[2]>>
    BY <1>2, Targets, NoneIs
  <1>6. CASE CanNodeExecute(e[1], e[2])
    BY <1>2, <1>5, <1>6, <1>1, <1>4, <1>3 DEF NoneLost, Accounted
  <1>7. CASE ~CanNodeExecute(e[1], e[2])
    BY <1>7, <1>2, <1>5, <1>3 DEF CanNodeExecute, OutNodes, Accounted
  <1>. QED  BY <1>6, <1>7

LEMMA StartsLost ==
  ASSUME Capacity, Typed, Expected, Ready, NoneLost, NEW k \in Nat, Starts(k)
  PROVE  NoneLost'
  <1>1. /\ task' = task /\ state' = state /\ job_q' = job_q /\ starting = <<>>
        /\ executed' = {d \in executed : d[2] \notin Taken(k)}
        /\ \A p \in Pipe \ Taken(k) : frame'[p] = frame[p]
    BY StartsEffect DEF Starts
  <1>2. \A u \in Target : ToTrigger(u)' = ToTrigger(u) /\ (Working(u) => Working(u)')
    BY <1>1, ToTriggerSame DEF Working
  <1>. SUFFICES ASSUME NEW e \in Desc, frame'[e[2]] > 0, e \notin executed', CanNodeExecute(e[1], e[2])'
                PROVE  Accounted(e)'
    BY DEF NoneLost
  <1>3. TargetOf[e[1]] \in Target /\ e[1] \in Node /\ e[2] \in Pipe /\ e = <<e[1], e[2]>>
    BY Targets, NoneIs
  <1>4. \A n \in InNodes(e[1]) : <<n, e[2]>> \in executed'
    BY DEF CanNodeExecute
  <1>5. Range(starting') = HeadNodes \X Taken(k) /\ Range(starting) = {}
    BY <1>1, StartHeads, TypedIs, EmptyHasNone
  <1>6. CASE e[2] \in Taken(k)
    BY <1>1, <1>4, <1>6, <1>3, <1>5 DEF HeadNodes, Accounted
  <1>7. CASE e[2] \notin Taken(k)
    BY <1>1, <1>3, <1>4, <1>7, <1>2, <1>5 DEF NoneLost, CanNodeExecute, Accounted
  <1>. QED  BY <1>6, <1>7

LEMMA LostKept ==
  ASSUME Capacity, Typed, Expected, Ready, NoneLost, [Next]_vars
  PROVE  NoneLost'
  <1>1. ASSUME starting' = starting  PROVE NoneLost' \/ KernelSchedule \/ \E k \in Nat : Starts(k)
    BY <1>1, Steps, TypedIs, OutsideLost, TaskLost, TakeLost, AcquireLost, CompleteLost DEF HostPops
  <1>. QED  BY <1>1, LaunchKept, TypedIs, KernelLost, StartsLost

-----------------------------------------------------------------------------
(* Descriptors that were left aside. *)

(* Neither in a job queue nor with the task that works on it. *)
Aside == {"blocked", "behind", "app", "send", "retrigger"}
IsAside(d) == \E k \in Aside : \E x \in Of(k) : d \in Holds(k, x)

(* One that was left aside is marked blocked, and one that is marked has yet to run. *)
AsideBlocked ==
  \A d \in Desc : /\ IsAside(d) => state[d] = "BLOCKED"
                  /\ state[d] = "BLOCKED" => d \notin executed /\ frame[d[2]] > 0

LEMMA AsideIs ==
  ASSUME TriggeredOnce, NEW d, NEW t \in Target, d \in Holds("job", t) \/ d \in Holds("task", t)
  PROVE  ~IsAside(d)
  BY OnceIs, Apart DEF Aside, Kinds, Of, IsAside

(* None is left aside in a move from one such place to another, or to a job queue. *)
LEMMA AsideKept ==
  ASSUME NEW d, IsAside(d)', NEW X, NEW l, NEW y, Gains(X, l, y),
         l \in Aside => \E k \in Aside : \E x \in Of(k) : X \subseteq Holds(k, x)
  PROVE  IsAside(d)
  <1>1. PICK m \in Aside : \E z \in Of(m) : d \in Holds(m, z)'
    BY DEF IsAside, Aside, Of
  <1>2. PICK z \in Of(m) : d \in Holds(m, z)'
    BY <1>1
  <1>3. d \in Holds(m, z) \/ (m = l /\ d \in X)
    BY <1>2 DEF Gains, Aside, Kinds
  <1>. QED  BY <1>3 DEF IsAside

LEMMA AsideMoved ==
  ASSUME NEW d, IsAside(d)', NEW X, NEW k, NEW x, NEW l, NEW y, Moves(X, k, x, l, y), l \in Aside => k \in Aside
  PROVE  IsAside(d)
  <1>1. Gains(X, l, y) /\ X \subseteq Holds(k, x) /\ x \in Of(k)
    BY DEF Moves
  <1>. QED  BY <1>1, AsideKept

LEMMA AsideNone ==
  ASSUME NEW d, IsAside(d)', GainsNone
  PROVE  IsAside(d)
  <1>1. Gains({}, "none", "none") /\ "none" \notin Aside
    BY DEF GainsNone, Aside
  <1>. QED  BY <1>1, AsideKept

LEMMA AsideSet == {"app", "send", "blocked", "behind", "retrigger"} \subseteq Aside /\ "job" \notin Aside /\ "start" \notin Aside /\ "task" \notin Aside
  BY DEF Aside

(* What is set aside by a task that takes a descriptor, *)
LEMMA TakeAside ==
  ASSUME Typed, NEW t \in Target, Take(t), NEW d, IsAside(d)'
  PROVE  IsAside(d) \/ (d = Head(job_q[t]) /\ d \notin executed /\ WaitsForPrev(d))
  <1>1. PICK c : c = Head(job_q[t])
    OBVIOUS
  <1>2. CASE c \in executed
    BY <1>1, <1>2, TakeMoves, AsideNone
  <1>3. CASE c \notin executed /\ ~WaitsForPrev(c)
    BY AsideSet, <1>1, <1>3, TakeMoves, AsideMoved
  <1>4. CASE c \notin executed /\ WaitsForPrev(c)
    BY <1>1, <1>4, TakeMoves DEF Moves, IsAside, Aside, Of, Gains, Kinds
  <1>. QED  BY <1>2, <1>3, <1>4

(* or that tries for a parameter. *)
LEMMA AcquireAside ==
  ASSUME Typed, NEW t \in Target, Acquire(t), NEW d, IsAside(d)'
  PROVE  IsAside(d) \/ (d = task[t].desc /\ (TriggeredOnce => d \notin Holds("task", t)'))
  <1>1. PICK c, q : c = task[t].desc /\ q = Param[task[t].desc[1]][task[t].i][1]
    OBVIOUS
  <1>2. GainsNone \/ Moves({c}, "task", t, "blocked", q)
    BY Zenon, <1>1, AcquireMoves
  <1>3. ASSUME Moves({c}, "task", t, "blocked", q), ~IsAside(d)
        PROVE  d = c /\ (TriggeredOnce => c \notin Holds("task", t)')
    BY <1>3 DEF Moves, IsAside, Aside, Of, Gains, Kinds
  <1>. QED  BY <1>1, <1>2, <1>3, AsideNone

(* No other step leaves a descriptor aside. *)
LEMMA OthersAside ==
  ASSUME Typed,
         \/ \E a \in App, q \in GraphParam, r \in Ref : EnqueueReadyRef(a, q, r)
         \/ \E a \in App : AppTrigger(a)
         \/ \E k \in Nat : Starts(k)
         \/ Dequeue \/ KernelSchedule \/ HostPops
         \/ \E t \in Target : Complete(t) \/ TaskTrigger(t) \/ Release(t) \/ SendComplete(t) \/ TriggerNext(t)
         \/ UNCHANGED vars,
         NEW d, IsAside(d)'
  PROVE  IsAside(d)
  <1>1. ASSUME NEW a \in App, NEW q \in GraphParam, NEW r \in Ref, EnqueueReadyRef(a, q, r) PROVE IsAside(d)
    BY AsideSet, <1>1, EnqueueMoves, AsideMoved
  <1>2. ASSUME NEW a \in App, AppTrigger(a) PROVE IsAside(d)
    BY AsideSet, <1>2, AppTriggerMoves, AsideMoved
  <1>3. ASSUME NEW k \in Nat, Starts(k) PROVE IsAside(d)
    BY AsideSet, <1>3, StartsGains, AsideKept
  <1>4. ASSUME Dequeue \/ HostPops PROVE IsAside(d)
    BY <1>4, QuietGains, AsideNone DEF HostPops
  <1>5. ASSUME KernelSchedule PROVE IsAside(d)
    BY AsideSet, <1>5, KernelMoves, AsideMoved
  <1>7. ASSUME NEW t \in Target, Complete(t) PROVE IsAside(d)
    BY AsideSet, <1>7, CompleteMoves, AsideMoved
  <1>8. ASSUME NEW t \in Target, TaskTrigger(t) PROVE IsAside(d)
    BY AsideSet, <1>8, TaskTriggerMoves, AsideMoved
  <1>9. ASSUME NEW t \in Target, Release(t) PROVE IsAside(d)
    BY AsideSet, <1>9, ReleaseMoves, AsideNone, AsideMoved
  <1>10. ASSUME NEW t \in Target, SendComplete(t) PROVE IsAside(d)
    BY SMTT(30), <1>10, SendCompleteGains, AsideNone
  <1>11. ASSUME NEW t \in Target, TriggerNext(t) PROVE IsAside(d)
    BY <1>11, TriggerNextMoves, AsideSet, AsideNone, AsideKept, AsideMoved
  <1>12. ASSUME UNCHANGED vars PROVE IsAside(d)
    BY Zenon, <1>12 DEF IsAside, Holds, Of, Working, vars, nodes, refs, launch
  <1>. QED  BY <1>1, <1>2, <1>3, <1>4, <1>5, <1>7, <1>8, <1>9, <1>10, <1>11, <1>12

(* Steps that mark no descriptor. *)
LEMMA StillMarked ==
  ASSUME \/ \E a \in App, q \in GraphParam, r \in Ref : EnqueueReadyRef(a, q, r)
         \/ \E a \in App : AppTrigger(a)
         \/ Dequeue \/ KernelSchedule \/ HostPops
         \/ \E t \in Target : TaskTrigger(t) \/ Release(t) \/ SendComplete(t) \/ TriggerNext(t)
         \/ UNCHANGED vars
  PROVE  UNCHANGED <<state, blocked_node_id, executed, frame, last_frame>>
  <1>1. ASSUME NEW t \in Target, TaskTrigger(t) \/ Release(t) \/ SendComplete(t) \/ TriggerNext(t)
        PROVE  UNCHANGED <<nodes, frame, data>>
    BY ZenonT(30), <1>1 DEF TaskTrigger, Release, SendComplete, TriggerNext
  <1>2. ASSUME \/ \E a \in App, q \in GraphParam, r \in Ref : EnqueueReadyRef(a, q, r)
               \/ \E a \in App : AppTrigger(a)
               \/ Dequeue \/ KernelSchedule \/ HostPops \/ UNCHANGED vars
        PROVE  UNCHANGED <<nodes, frame, last_frame>>
    BY <1>2 DEF EnqueueReadyRef, AppTrigger, Dequeue, DequeueDoneRef, KernelSchedule, HostPops, HostCompletes, HostNotifies, vars, data
  <1>. QED  BY <1>1, <1>2 DEF nodes, data

(* What is placed has yet to run, in an execution that started. *)
LEMMA PlacedIs ==
  ASSUME Expected, Ready, NEW d \in Desc, IsPlaced(d)
  PROVE  d \notin executed /\ frame[d[2]] > 0
  BY DEF Expected, FrameStarted, Ready, PlacedReady

LEMMA AsideBlockedKept ==
  ASSUME Typed, Expected, Ready, AsideBlocked, [Next]_vars
  PROVE  AsideBlocked'
  <1>0. TriggeredOnce
    BY DEF Ready
  <1>1. ASSUME NEW t \in Target, Take(t), NEW d \in Desc
        PROVE  /\ IsAside(d)' => state'[d] = "BLOCKED"
               /\ state'[d] = "BLOCKED" => d \notin executed' /\ frame'[d[2]] > 0
    <2>1. PICK c : c = Head(job_q[t])
      OBVIOUS
    <2>2. /\ c \in Desc /\ c \in Range(job_q[t]) /\ executed' = executed /\ frame' = frame
          /\ \A e \in Desc \ {c} : state'[e] = state[e]
          /\ c \notin executed /\ WaitsForPrev(c) => state'[c] = "BLOCKED"
      BY <1>1, <2>1, TakeEffect DEF Takes
    <2>3. c \notin executed /\ frame[c[2]] > 0
      BY <2>2, JobPlaced, PlacedIs
    <2>4. ~IsAside(c)
      BY <1>0, <2>2, AsideIs DEF Holds
    <2>5. IsAside(d)' => IsAside(d) \/ (d = c /\ state'[c] = "BLOCKED")
      BY <1>1, <2>1, <2>2, TakeAside
    <2>6. CASE d = c
      BY <2>2, <2>3, <2>4, <2>5, <2>6
    <2>7. CASE d # c
      BY <1>1, <2>2, <2>5, <2>7 DEF AsideBlocked
    <2>. QED  BY <2>6, <2>7
  <1>2. ASSUME NEW t \in Target, Acquire(t), NEW d \in Desc
        PROVE  /\ IsAside(d)' => state'[d] = "BLOCKED"
               /\ state'[d] = "BLOCKED" => d \notin executed' /\ frame'[d[2]] > 0
    BY <1>2, AcquireEffect, <1>0, AsideIs, AcquireAside DEF Working, Holds, Expected,
       Unexecuted, FrameStarted, AsideBlocked
  <1>3. ASSUME NEW t \in Target, Complete(t), NEW d \in Desc
        PROVE  /\ IsAside(d)' => state'[d] = "BLOCKED"
               /\ state'[d] = "BLOCKED" => d \notin executed' /\ frame'[d[2]] > 0
    BY SMTT(30), <1>3, CompleteEffect, CompleteFlags, <1>0, AsideIs, OthersAside DEF Holds, AsideBlocked
  <1>4. ASSUME NEW k \in Nat, Starts(k), NEW d \in Desc
        PROVE  /\ IsAside(d)' => state'[d] = "BLOCKED"
               /\ state'[d] = "BLOCKED" => d \notin executed' /\ frame'[d[2]] > 0
    BY <1>4, StartsEffect, OthersAside, NoneIs DEF Starts, AsideBlocked
  <1>5. ASSUME \/ \E a \in App, q \in GraphParam, r \in Ref : EnqueueReadyRef(a, q, r)
               \/ \E a \in App : AppTrigger(a)
               \/ Dequeue \/ KernelSchedule \/ HostPops
               \/ \E t \in Target : TaskTrigger(t) \/ Release(t) \/ SendComplete(t) \/ TriggerNext(t)
               \/ UNCHANGED vars
        PROVE  AsideBlocked'
    BY <1>5, StillMarked, OthersAside DEF AsideBlocked
  <1>. QED  BY <1>1, <1>2, <1>3, <1>4, <1>5, Steps, TypedIs DEF AsideBlocked, HostPops
-----------------------------------------------------------------------------
(* Behind its predecessor. *)

(* The execution of a descriptor comes after the next one of its node. *)
Ahead(d) == frame[d[2]] > last_frame[d[1]] + 1

(* A blocked descriptor that is ahead of its turn waits for its predecessor, *)
(* which triggers it when it has run.                                        *)
Behind == \A d \in Desc : state[d] = "BLOCKED" /\ Ahead(d) => blocked_node_id[PrevPipe(d)] = d

(* Its predecessor is on the execution before. *)
LEMMA PrevFrame ==
  ASSUME Typed, Clock, LastFrames, NEW d \in Desc, Ahead(d)
  PROVE  /\ PrevPipe(d) \in Desc /\ PrevPipe(d)[1] = d[1]
         /\ frame[PrevPipe(d)[2]] \in Nat /\ frame[d[2]] = frame[PrevPipe(d)[2]] + 1
         /\ frame[PrevPipe(d)[2]] > last_frame[d[1]]
  <1>1. PICK f, b, c : f = frame[d[2]] /\ b = PrevPipe(d) /\ c = last_frame[d[1]]
    OBVIOUS
  <1>2. d[1] \in Node /\ d[2] \in Pipe /\ b \in Desc /\ b[1] = d[1] /\ b[2] \in Pipe
    BY <1>1, NoneIs, PrevPipeIs
  <1>3. /\ f \in Nat /\ f <= started /\ started \in Nat /\ completed \in Nat
        /\ c \in Nat /\ c >= completed /\ f > c + 1
    BY <1>1, <1>2, ClockTypes DEF Clock, FrameOf, LastFrames, Ahead
  <1>4. PICK x \in Nat : f = x + 2
    BY <1>3
  <1>5. (x + 1) % Depth = d[2]
    <2>1. (f - 1) % Depth = d[2]
      BY <1>1, <1>2, <1>3 DEF Clock, FrameOf
    <2>2. f - 1 = x + 1
      BY <1>4
    <2>. QED  BY <2>1, <2>2
  <1>6. x % Depth = b[2]
    BY <1>1, <1>5, PrevOf
  <1>7. frame[b[2]] = x + 1
    BY <1>3, <1>4, <1>6 DEF Clock, FrameAt
  <1>. QED  BY <1>1, <1>2, <1>3, <1>4, <1>7

LEMMA BehindKept ==
  ASSUME Typed, Expected, Ready, AsideBlocked, Clock, LastFrames, TaskFrames, Behind, [Next]_vars
  PROVE  Behind'
  <1>0. \A d \in Desc : d[1] \in Node /\ d[2] \in Pipe /\ PrevPipe(d) \in Desc
    BY NoneIs, PrevPipeIs
  <1>1. blocked_node_id \in [Desc -> Desc \cup {None}] /\ last_frame \in [Node -> Nat] /\ \A p \in Pipe : frame[p] \in Nat
    BY TypedIs DEF DataTypeOK
  <1>2. ASSUME NEW t \in Target, Take(t)  PROVE Behind'
    BY <1>2, TakeEffect, PrevInjective, <1>0, <1>1 DEF Behind, Ahead
  <1>3. ASSUME NEW t \in Target, Acquire(t)  PROVE Behind'
    BY <1>3, AcquireEffect, <1>0, <1>1 DEF TaskFrames, Working, Ahead, Behind
  <1>4. ASSUME NEW t \in Target, Complete(t)  PROVE Behind'
    BY <1>4, CompleteEffect, CompleteFlags, <1>0, <1>1, PrevFrame DEF TaskFrames, Behind, Ahead
  <1>5. ASSUME NEW k \in Nat, Starts(k)  PROVE Behind'
    <2>1. UNCHANGED <<state, blocked_node_id, last_frame>>
      BY <1>5 DEF Starts, data
    <2>2. ASSUME NEW d \in Desc, state[d] = "BLOCKED"  PROVE frame'[d[2]] = frame[d[2]]
      BY <2>2, Underway, <1>0, <1>5, StartsFrames DEF AsideBlocked
    <2>. QED  BY <2>1, <2>2 DEF Behind, Ahead
  <1>6. ASSUME UNCHANGED <<state, blocked_node_id, executed, frame, last_frame>>  PROVE Behind'
    BY <1>6 DEF Behind, Ahead
  <1>. QED  BY <1>2, <1>3, <1>4, <1>5, <1>6, Steps, TypedIs, StillMarked DEF HostPops

-----------------------------------------------------------------------------
(* In the job queue of its target. *)

(* A descriptor that is there for the first time comes after the earlier     *)
(* executions of its node.                                                   *)
Sorted(s, st, fr) ==
  \A i, j \in DOMAIN s : i < j /\ s[i][1] = s[j][1] /\ st[s[j]] = "IDLE" => fr[s[i][2]] < fr[s[j][2]]
JobsInOrder == \A t \in Target : Sorted(job_q[t], state, frame)

(* The head nodes that are to be triggered are in order, and the latest ones. *)
StartsInOrder ==
  /\ Sorted(starting, [d \in Desc |-> "IDLE"], frame)
  /\ \A d \in Range(starting), e \in Desc :
       e[1] = d[1] /\ frame[e[2]] >= frame[d[2]] => e \in Range(starting)

(* At the end of the queue goes one that was blocked, or the latest execution. *)
LEMMA AppendSorted ==
  ASSUME NEW s \in Seq(Desc), NEW st, NEW fr, Sorted(s, st, fr), NEW d \in Desc,
         st[d] = "IDLE" => \A e \in Range(s) : e[1] = d[1] => fr[e[2]] < fr[d[2]]
  PROVE  Sorted(Append(s, d), st, fr)
  BY AppendProperties DEF Range, Sorted

(* No order is lost in the rest of a queue. *)
LEMMA TailSorted ==
  ASSUME NEW s \in Seq(Desc), s # <<>>, NEW st, NEW fr, Sorted(s, st, fr)
  PROVE  Sorted(Tail(s), st, fr)
  <1>1. PICK w, n : w = Tail(s) /\ n = Len(s)
    OBVIOUS
  <1>2. /\ n \in Nat \ {0} /\ DOMAIN s = 1 .. n /\ DOMAIN w = 1 .. n - 1
        /\ \A i \in 1 .. n - 1 : w[i] = s[i + 1] /\ i + 1 \in 1 .. n
    BY <1>1, HeadTailProperties
  <1>3. ASSUME NEW i \in 1 .. n - 1, NEW j \in 1 .. n - 1, i < j, w[i][1] = w[j][1], st[w[j]] = "IDLE"
        PROVE  fr[w[i][2]] < fr[w[j][2]]
    <2>1. i + 1 < j + 1 /\ i + 1 \in DOMAIN s /\ j + 1 \in DOMAIN s
      BY <1>2, <1>3
    <2>2. w[i] = s[i + 1] /\ w[j] = s[j + 1]
      BY <1>2
    <2>. QED  BY <1>3, <2>1, <2>2 DEF Sorted
  <1>. QED  BY <1>1, <1>2, <1>3 DEF Sorted

(* Other marks and other executions leave a queue in order that do not concern it. *)
LEMMA SameSorted ==
  ASSUME NEW s, NEW st, NEW fr, Sorted(s, st, fr), NEW st1, NEW fr1,
         \A e \in Range(s) : (st1[e] = "IDLE" => st[e] = "IDLE") /\ fr1[e[2]] = fr[e[2]]
  PROVE  Sorted(s, st1, fr1)
  BY DEF Sorted, Range
LEMMA TriggerSorted ==
  ASSUME Typed, JobsInOrder, UNCHANGED <<state, frame>>, NEW d \in Desc, job_q' = Trigger(job_q, d),
         state[d] = "IDLE" => \A e \in Range(job_q[TargetOf[d[1]]]) : e[1] = d[1] => frame[e[2]] < frame[d[2]]
  PROVE  JobsInOrder'
  <1>1. PICK t, s : t = TargetOf[d[1]] /\ s = job_q[t]
    OBVIOUS
  <1>2. /\ t \in Target /\ \A u \in Target \ {t} : job_q'[u] = job_q[u]
        /\ job_q'[t] = Append(s, d) \/ job_q'[t] = s
        /\ s \in Seq(Desc) /\ Sorted(s, state, frame)
    BY TypedIs, <1>1, Triggered DEF DataTypeOK, JobsOK, Jobs, JobsInOrder
  <1>3. Sorted(Append(s, d), state, frame)
    BY <1>1, <1>2, AppendSorted
  <1>. QED  BY <1>2, <1>3 DEF JobsInOrder

(* A successor is triggered in the execution that its predecessor ran last. *)
LEMMA NextSorted ==
  ASSUME Typed, Expected, Ready, Clock, LastFrames, TaskFrames,
         NEW t \in Target, NEW d \in ToTrigger(t), NEW e \in Range(job_q[TargetOf[d[1]]]), e[1] = d[1]
  PROVE  frame[e[2]] < frame[d[2]]
  <1>1. PICK c : c = task[t].desc
    OBVIOUS
  <1>2. d \in Desc /\ c[2] = d[2] /\ c[1] \in InNodes(d[1]) /\ c[1] \in Node /\ d[2] \in Pipe /\ d = <<d[1], d[2]>>
    BY <1>1, ToTriggerIs, NoneIs
  <1>3. TargetOf[d[1]] \in Target /\ e \in Desc
    BY <1>2, Targets, NoneIs, TypedIs, ElementOfSeq DEF DataTypeOK, JobsOK, Jobs, Range
  <1>4. IsPlaced(e) /\ e[2] \in Pipe /\ e = <<e[1], e[2]>> /\ frame[e[2]] > 0
    BY <1>3, JobPlaced, PlacedIs, NoneIs
  <1>5. <<c[1], e[2]>> \in executed
    BY <1>2, <1>3, <1>4 DEF Ready, PlacedReady, CanNodeExecute
  <1>6. frame[e[2]] <= last_frame[c[1]]
    BY <1>2, <1>4, <1>5 DEF LastFrames
  <1>7. frame[d[2]] = last_frame[c[1]]
    BY <1>1, <1>2 DEF TaskFrames
  <1>8. ~IsPlaced(d)
    BY DEF Ready, TriggerFresh
  <1>9. frame[e[2]] # frame[d[2]]
    BY <1>2, <1>4, <1>8, OneFrame
  <1>10. frame[e[2]] \in Nat /\ frame[d[2]] \in Nat
    BY <1>2, <1>4, ClockTypes
  <1>. QED  BY <1>6, <1>7, <1>9, <1>10

LEMMA StartsSorted ==
  ASSUME Typed, Expected, Ready, JobsInOrder, NEW k \in Nat, Starts(k)
  PROVE  JobsInOrder'
  <1>. SUFFICES ASSUME NEW t \in Target PROVE Sorted(job_q[t], state, frame')
    BY DEF Starts, JobsInOrder
  <1>1. job_q[t] \in Seq(Desc)
    BY TypedIs DEF DataTypeOK, JobsOK, Jobs
  <1>2. ASSUME NEW e \in Range(job_q[t])  PROVE frame'[e[2]] = frame[e[2]]
    BY <1>1, RangeOfSeq, NoneIs, JobPlaced, PlacedBusy, StartsFrames
  <1>. QED  BY <1>2, SameSorted DEF JobsInOrder

(* The executions that start are the latest. *)
LEMMA StartsFollow ==
  ASSUME Typed, Clock, NEW k \in Nat, Starts(k)
  PROVE  StartsInOrder'
  <1>1. PICK ds : ds = Scheduled(k)
    OBVIOUS
  <1>2. /\ S!TypeOK /\ S!PipesPartitioned /\ k \in 0 .. Len(free_q) /\ starting' = ds
        /\ started \in Nat /\ \A p \in Pipe : frame[p] <= started
    BY <1>1, TypedIs, SameInvariants, ClockTypes DEF SP!Inv, Starts, Clock, FrameOf
  <1>3. /\ ds \in Seq(Desc) /\ IsInjective(ds) /\ Range(ds) = HeadNodes \X Taken(k)
        /\ \A i, j \in DOMAIN ds : i < j => \E a, b \in 1 .. k : a <= b /\ ds[i][2] = free_q[a] /\ ds[j][2] = free_q[b]
    BY <1>1, <1>2, ScheduledIs
  <1>4. ASSUME NEW i \in DOMAIN ds, NEW j \in DOMAIN ds, i < j, ds[i][1] = ds[j][1]
        PROVE  frame'[ds[i][2]] < frame'[ds[j][2]]
    <2>1. PICK a, b \in 1 .. k : a <= b /\ ds[i][2] = free_q[a] /\ ds[j][2] = free_q[b]
      BY <1>3, <1>4
    <2>2. ds[i] = <<ds[i][1], ds[i][2]>> /\ ds[j] = <<ds[j][1], ds[j][2]>> /\ i # j
      BY <1>3, <1>4, LenProperties DEF Range
    <2>3. a # b
      BY <1>3, <1>4, <2>1, <2>2 DEF IsInjective
    <2>. QED  BY <1>2, <2>1, <2>3, StartsFrames
  <1>5. ASSUME NEW d \in Range(ds), NEW e \in Desc, e[1] = d[1], frame'[e[2]] >= frame'[d[2]]
        PROVE  e \in Range(ds)
    <2>1. d[1] \in HeadNodes /\ d[2] \in Taken(k) /\ e = <<e[1], e[2]>> /\ e[2] \in Pipe
      BY <1>3, NoneIs
    <2>2. frame'[d[2]] \in Nat /\ frame'[d[2]] > started
      BY <2>1, StartsFrames
    <2>3. e[2] \in Taken(k)
      <3>1. \A p \in Pipe \ Taken(k) : frame'[p] = frame[p] /\ frame[p] \in Nat /\ frame[p] <= started
        BY <1>2, StartsFrames, ClockTypes
      <3>. QED  BY <1>2, <1>5, <2>1, <2>2, <3>1
    <2>. QED  BY <1>3, <1>5, <2>1, <2>3
  <1>. QED  BY <1>2, <1>4, <1>5 DEF StartsInOrder, Sorted

LEMMA JobsInOrderKept ==
  ASSUME Capacity, Typed, Expected, Ready, AsideBlocked, Clock, LastFrames, TaskFrames, JobsInOrder, StartsInOrder, [Next]_vars
  PROVE  JobsInOrder'
  <1>0. TriggeredOnce /\ \A t \in Target : job_q[t] \in Seq(Desc)
    BY TypedIs DEF Ready, DataTypeOK, JobsOK, Jobs
  <1>1. ASSUME NEW t \in Target, Take(t)  PROVE JobsInOrder'
    <2>1. PICK c : c = Head(job_q[t])
      OBVIOUS
    <2>2. /\ c \in Desc /\ c \in Range(job_q[t]) /\ frame' = frame
          /\ job_q[t] # <<>> /\ job_q'[t] = Tail(job_q[t]) /\ \A u \in Target \ {t} : job_q'[u] = job_q[u]
          /\ \A e \in Desc \ {c} : state'[e] = state[e]
      BY <1>1, <2>1, TakeEffect
    <2>3. ASSUME NEW u \in Target
          PROVE  Sorted(job_q'[u], state, frame) /\ \A e \in Range(job_q'[u]) : e \in Desc \ {c}
      <3>1. CASE u = t
        BY <1>0, <2>1, <2>2, Removed, TailSorted, RangeOfSeq, <3>1 DEF TriggeredOnce,
           JobsInOrder
      <3>2. CASE u # t
        <4>1. c \notin Range(job_q[u])
          <5>1. Disjoint /\ "job" \in Kinds /\ t \in Of("job") /\ u \in Of("job")
            BY <1>0, OnceIs DEF Kinds, Of
          <5>2. c \notin Holds("job", u)
            BY <2>2, <3>2, <5>1, Apart DEF Holds
          <5>. QED  BY <5>2 DEF Holds
        <4>2. \A e \in Range(job_q[u]) : e \in Desc
          BY <1>0, RangeOfSeq
        <4>. QED  BY <2>2, <3>2, <4>1, <4>2 DEF JobsInOrder
      <3>. QED  BY <3>1, <3>2
    <2>4. \A u \in Target : Sorted(job_q'[u], state', frame')
      BY <2>2, <2>3, SameSorted
    <2>. QED  BY <2>4 DEF JobsInOrder
  <1>2. ASSUME NEW t \in Target, Acquire(t) \/ Complete(t)  PROVE JobsInOrder'
    BY <1>2, AcquireEffect, CompleteEffect, CompleteFlags, <1>0, OnceIs, Apart, RangeOfSeq,
       SameSorted DEF Working, Kinds, Of, Holds, JobsInOrder
  <1>3. ASSUME NEW k \in Nat, Starts(k)  PROVE JobsInOrder'
    BY <1>3, StartsSorted
  (* One that was left aside is marked. *)
  <1>4. ASSUME NEW d \in Desc, IsAside(d), job_q' = Trigger(job_q, d), UNCHANGED <<state, frame>>
        PROVE  JobsInOrder'
    BY <1>4, TriggerSorted DEF AsideBlocked
  <1>5. ASSUME NEW a \in App, AppTrigger(a)  PROVE JobsInOrder'
    <2>1. PICK d : d = Head(app[a])
      OBVIOUS
    <2>2. job_q' = Trigger(job_q, d) /\ app[a] # <<>> /\ UNCHANGED <<state, frame>>
      BY <1>5, <2>1 DEF AppTrigger, nodes
    <2>3. d \in Desc /\ d \in Range(app[a])
      BY <2>1, <2>2, Removed, TypedIs DEF DataTypeOK
    <2>4. IsAside(d)
      BY <2>3 DEF IsAside, Aside, Of, Holds
    <2>. QED  BY <1>4, <2>2, <2>3, <2>4
  <1>6. ASSUME NEW t \in Target, TaskTrigger(t)  PROVE JobsInOrder'
    <2>1. PICK d : d = Head(task[t].send)
      OBVIOUS
    <2>2. job_q' = Trigger(job_q, d) /\ task[t].send # <<>> /\ UNCHANGED <<state, frame>>
      BY SMTT(30), <1>6, <2>1 DEF TaskTrigger, nodes
    <2>3. d \in Desc /\ d \in Range(task[t].send)
      BY SMTT(30), <2>1, <2>2, Removed, TypedIs, TaskFields DEF DataTypeOK
    <2>4. IsAside(d)
      BY <2>3 DEF IsAside, Aside, Of, Holds
    <2>. QED  BY SMTT(30), <1>4, <2>2, <2>3, <2>4
  <1>7. ASSUME NEW t \in Target, TriggerNext(t)  PROVE JobsInOrder'
    <2>0. UNCHANGED <<state, frame>>
      BY <1>7 DEF TriggerNext, nodes
    <2>1. PICK c, n, i, next : c = task[t].desc /\ n = Len(next) /\ i = task[t].i /\ next = Successors(c[1])
      OBVIOUS
    <2>2. /\ c \in Desc /\ i \in Nat \ {0} /\ n \in Nat /\ task[t].at = "trigger_next"
      BY SMTT(30), <1>7, <2>1, NextTrigger DEF TriggerNext, At
    <2>3. CASE i <= n
      <3>1. PICK d : d = <<next[i], c[2]>>
        OBVIOUS
      <3>2. d \in Desc /\ (job_q' = Trigger(job_q, d) \/ job_q' = job_q)
        BY <1>7, <2>1, <2>3, <3>1, NextTrigger
      <3>3. d \in ToTrigger(t)
        BY <2>1, <2>2, <2>3, <3>1 DEF ToTrigger, Pending, Releasing
      <3>4. \A e \in Range(job_q[TargetOf[d[1]]]) : e[1] = d[1] => frame[e[2]] < frame[d[2]]
        BY <3>3, NextSorted
      <3>5. job_q' = job_q => JobsInOrder'
        BY SMTT(30), <2>0 DEF JobsInOrder
      <3>. QED  BY SMTT(30), <2>0, <3>2, <3>4, <3>5, TriggerSorted
    <2>4. CASE i > n
      <3>1. PICK d : d = task[t].retrigger
        OBVIOUS
      <3>2. d \in Desc \cup {None} /\ job_q' = IF d # None THEN Trigger(job_q, d) ELSE job_q
        BY <1>7, <2>1, <2>4, <3>1, NextTrigger
      <3>3. d # None => IsAside(d)
        BY <3>1 DEF IsAside, Aside, Of, Holds
      <3>4. job_q' = job_q => JobsInOrder'
        BY <2>0 DEF JobsInOrder
      <3>. QED  BY <1>4, <2>0, <3>2, <3>3, <3>4
    <2>. QED  BY SMTT(30), <2>2, <2>3, <2>4
  <1>8. ASSUME UNCHANGED <<state, frame>>, \A t \in Target : job_q'[t] = job_q[t]  PROVE JobsInOrder'
    BY <1>8 DEF JobsInOrder
  <1>9. ASSUME \/ \E a \in App, q \in GraphParam, r \in Ref : EnqueueReadyRef(a, q, r)
               \/ Dequeue \/ HostPops \/ UNCHANGED vars
               \/ \E t \in Target : Release(t) \/ SendComplete(t)
        PROVE  UNCHANGED <<state, frame>> /\ \A t \in Target : job_q'[t] = job_q[t]
    <2>1. UNCHANGED <<state, frame>>
      BY <1>9, StillMarked
    <2>2. \/ job_q' = job_q
          \/ job_q' = [job_q EXCEPT !["HOST"] = Tail(@)]
          \/ \E t \in Target : SendComplete(t)
      BY ZenonT(30), <1>9 DEF EnqueueReadyRef, Dequeue, DequeueDoneRef, HostPops, HostCompletes, HostNotifies, Release, vars
    <2>3. job_q \in [Jobs -> Seq(Desc)] /\ "HOST" \notin Target
      BY Targets, TypedIs DEF DataTypeOK, JobsOK
    <2>4. ASSUME NEW t \in Target, SendComplete(t)  PROVE \A u \in Target : job_q'[u] = job_q[u]
      <3>1. job_q' = job_q \/ job_q' = Put(job_q, "HOST", task[t].desc)
        BY <2>4 DEF SendComplete
      <3>2. task[t].desc \in Desc /\ JobsOK(job_q) /\ "HOST" \in Jobs /\ \A u \in Target : u \in Jobs \ {"HOST"}
        BY <2>4, Targets, SendEffect, TypedIs DEF DataTypeOK, Jobs
      <3>3. \A u \in Target : Put(job_q, "HOST", task[t].desc)[u] = job_q[u]
        BY <3>2, PutIs
      <3>. QED  BY <3>1, <3>3
    <2>. QED  BY <2>1, <2>2, <2>3, <2>4 DEF Jobs
  <1>10. ASSUME KernelSchedule  PROVE JobsInOrder'
    <2>1. PICK d : d = Head(starting)
      OBVIOUS
    <2>2. d \in Desc /\ d \in Range(starting) /\ job_q' = Trigger(job_q, d) /\ UNCHANGED <<state, frame>>
      BY <1>10, <2>1, FirstHead, TypedIs DEF DataTypeOK, KernelSchedule, nodes
    <2>3. ASSUME NEW e \in Range(job_q[TargetOf[d[1]]]), e[1] = d[1]  PROVE frame[e[2]] < frame[d[2]]
      <3>1. TargetOf[d[1]] \in Target /\ e \in Desc /\ d[2] \in Pipe /\ e[2] \in Pipe
        BY <1>0, <2>2, RangeOfSeq, Targets, NoneIs
      <3>2. e \notin Range(starting)
        BY <1>0, <2>2, <3>1, OnceIs, Apart DEF Kinds, Of, Holds
      <3>. QED  BY <2>2, <2>3, <3>1, <3>2, ClockTypes DEF StartsInOrder
    <2>. QED  BY <2>2, <2>3, TriggerSorted
  <1>. QED  BY <1>1, <1>2, <1>3, <1>5, <1>6, <1>7, <1>8, <1>9, <1>10, Steps, TypedIs DEF HostPops

LEMMA StartsInOrderKept ==
  ASSUME Typed, Ready, Clock, StartsInOrder, [Next]_vars, frame' = frame \/ \E k \in Nat : Starts(k)
  PROVE  StartsInOrder'
  <1>1. CASE frame' = frame /\ starting' = starting
    BY <1>1 DEF StartsInOrder
  <1>2. CASE KernelSchedule
    <2>1. PICK s : s = starting
      OBVIOUS
    <2>2. s \in Seq(Desc) /\ s # <<>> /\ starting' = Tail(s) /\ frame' = frame /\ IsInjective(s)
      BY <1>2, <2>1, TypedIs DEF KernelSchedule, DataTypeOK, Ready, TriggeredOnce
    <2>3. Sorted(s, [d \in Desc |-> "IDLE"], frame)
      BY <2>1 DEF StartsInOrder
    <2>4. Sorted(Tail(s), [d \in Desc |-> "IDLE"], frame)
      BY <2>2, <2>3, TailSorted
    <2>5. ASSUME NEW d \in Range(Tail(s)), NEW e \in Desc, e[1] = d[1], frame[e[2]] >= frame[d[2]]
          PROVE  e \in Range(Tail(s))
      <3>1. d \in Range(s) /\ Range(s) = Range(Tail(s)) \cup {s[1]} /\ 1 \in DOMAIN s /\ d # s[1]
        BY <2>2, Removed, HeadTailProperties, LenProperties
      <3>2. PICK j \in DOMAIN s : d = s[j] /\ 1 < j
        BY <2>2, <3>1, LenProperties DEF Range
      <3>3. d \in Desc /\ d[2] \in Pipe /\ s[1] \in Desc /\ s[1][2] \in Pipe
        BY <2>2, <3>1, <3>2, ElementOfSeq, LenProperties, NoneIs
      <3>4. s[1][1] = d[1] => frame[s[1][2]] < frame[d[2]]
        BY <2>3, <3>1, <3>2, <3>3 DEF Sorted
      <3>5. e \in Range(s)
        BY <2>1, <2>5, <3>1 DEF StartsInOrder
      <3>. QED  BY <2>5, <3>1, <3>3, <3>4, <3>5, ClockTypes
    <2>. QED  BY <2>2, <2>4, <2>5 DEF StartsInOrder
  <1>3. CASE \E k \in Nat : Starts(k)
    BY <1>3, StartsFollow
  <1>. QED  BY <1>1, <1>2, <1>3, LaunchKept, TypedIs
-----------------------------------------------------------------------------
(* Executions in their order. *)

(* The descriptors of each node run in the order of their executions. *)
InTurn ==
  /\ Clock /\ HostOrder /\ LastFrames /\ TaskFrames
  /\ NoneLost /\ AsideBlocked /\ Behind /\ JobsInOrder /\ StartsInOrder

(* What a task takes up is the execution after the one its node ran last: of *)
(* one further ahead the predecessor is ready as well, and blocked, in front *)
(* in the queue, or with the task.                                           *)
LEMMA TakesInTurn ==
  ASSUME Typed, Expected, Ready, InTurn
  PROVE  TakesNext
  <1>. SUFFICES ASSUME NEW t \in Target, Takes(t)
                PROVE  frame[task'[t].desc[2]] = last_frame[task'[t].desc[1]] + 1
    BY DEF TakesNext
  <1>1. PICK d, b : d = Head(job_q[t]) /\ b = PrevPipe(d)
    OBVIOUS
  <1>2. /\ task[t].at = "idle" /\ task'[t].desc = d /\ d \in Range(job_q[t]) /\ d \notin executed
        /\ ~WaitsForPrev(d) /\ job_q[t] \in Seq(Desc) /\ job_q[t] # <<>>
        /\ d \in Desc /\ TargetOf[d[1]] = t
    BY <1>1, HeadJob, TypedIs DEF Takes, Take, DataTypeOK, JobsOK, Jobs
  <1>3. d[1] \in Node /\ d[2] \in Pipe /\ d = <<d[1], d[2]>> /\ IsPlaced(d) /\ frame[d[2]] > 0
    BY <1>2, JobPlaced, PlacedIs, NoneIs
  <1>4. frame[d[2]] \in Nat /\ last_frame[d[1]] \in Nat /\ frame[d[2]] > last_frame[d[1]]
    BY <1>2, <1>3, ClockTypes DEF InTurn, LastFrames
  <1>5. SUFFICES ASSUME Ahead(d) PROVE FALSE
    BY <1>2, <1>4 DEF Ahead
  <1>6. /\ b \in Desc /\ b[1] = d[1] /\ b[2] \in Pipe /\ b = <<d[1], b[2]>>
        /\ frame[b[2]] \in Nat /\ frame[d[2]] = frame[b[2]] + 1 /\ frame[b[2]] > last_frame[d[1]]
    BY <1>1, <1>2, <1>5, PrevFrame, NoneIs DEF InTurn
  <1>7. b \notin executed /\ frame[b[2]] > 0 /\ b # d /\ b[2] # d[2]
    BY SMTT(30), <1>3, <1>4, <1>6 DEF InTurn, LastFrames
  <1>8. \A n \in InNodes(d[1]) : n \in Node /\ frame[d[2]] <= last_frame[n]
    <2>1. \A n \in InNodes(d[1]) : n \in Node /\ <<n, d[2]>> \in executed
      BY <1>2, <1>3 DEF Ready, PlacedReady, CanNodeExecute, InNodes, Producers
    <2>. QED  BY <1>3, <2>1 DEF InTurn, LastFrames
  <1>9. CanNodeExecute(b[1], b[2])
    BY SMTT(30), <1>6, <1>8, ClockTypes, <1>7 DEF CanNodeExecute, InTurn, LastFrames
  <1>10. Accounted(b)
    BY <1>6, <1>7, <1>9 DEF InTurn, NoneLost
  <1>11. state[b] # "BLOCKED"
    <2>. SUFFICES ASSUME state[b] = "BLOCKED" PROVE FALSE
      OBVIOUS
    <2>1. Depth > 1
      BY SMTT(30), SizeAssumption, <1>3, <1>6, <1>7 DEF Pipe
    <2>2. state[d] # "IDLE"
      BY <1>1, <1>2, <2>1 DEF WaitsForPrev
    <2>3. state[d] = "BLOCKED"
      BY SMTT(30), <1>2, <2>2, TypedIs DEF DataTypeOK
    <2>4. blocked_node_id[b] = d
      BY <1>1, <1>2, <1>5, <2>3 DEF InTurn, Behind
    <2>5. d # None
      BY <1>2, NoneIs
    <2>6. IsAside(d)
      BY <1>6, <2>4, <2>5 DEF IsAside, Aside, Of, Holds
    <2>7. ~IsAside(d)
      BY <1>2, AsideIs DEF Ready, Holds
    <2>. QED  BY <2>6, <2>7
  <1>12. b \notin Range(job_q[t])
    <2>. SUFFICES ASSUME b \in Range(job_q[t]) PROVE FALSE
      OBVIOUS
    <2>1. PICK s, n : s = job_q[t] /\ n = Len(s)
      OBVIOUS
    <2>2. n \in Nat \ {0} /\ DOMAIN s = 1 .. n /\ s[1] = d
      BY <1>1, <1>2, <2>1, HeadTailProperties
    <2>3. PICK j \in 1 .. n : s[j] = b
      BY <2>1, <2>2 DEF Range
    <2>4. 1 \in 1 .. n /\ 1 < j
      BY <1>7, <2>2, <2>3
    <2>5. state[b] = "IDLE"
      BY <1>6, <1>11, TypedIs DEF DataTypeOK
    <2>6. frame[d[2]] < frame[b[2]]
      BY ZenonT(30), <1>2, <1>6, <2>1, <2>2, <2>3, <2>4, <2>5 DEF InTurn, JobsInOrder, Sorted
    <2>. QED  BY <1>6, <2>6
  <1>13. ~Working(t) /\ b \notin Range(starting)
    <2>1. d \notin Range(starting)
      BY <1>2, OnceIs, Apart DEF Ready, Kinds, Of, Holds
    <2>. QED  BY <1>2, <1>4, <1>6, <2>1 DEF Working, InTurn, StartsInOrder
  <1>14. PICK u \in Target : b \in ToTrigger(u)
    BY <1>2, <1>6, <1>10, <1>11, <1>12, <1>13 DEF Accounted
  <1>15. PICK c : c = task[u].desc
    OBVIOUS
  <1>16. c[1] \in InNodes(d[1]) /\ c[2] = b[2]
    BY SMTT(30), <1>6, <1>14, <1>15, ToTriggerIs
  <1>17. frame[b[2]] = last_frame[c[1]]
    BY <1>14, <1>15, <1>16 DEF InTurn, TaskFrames
  <1>18. frame[d[2]] <= last_frame[c[1]]
    BY <1>8, <1>16
  <1>. QED  BY <1>6, <1>17, <1>18

LEMMA InTurnKept ==
  ASSUME Capacity, Typed, Typed', Expected, Ready, Told, InTurn, [Next]_vars
  PROVE  InTurn'
  <1>1. Clock /\ HostOrder /\ LastFrames /\ TaskFrames /\ NoneLost /\ AsideBlocked /\ Behind /\ JobsInOrder /\ StartsInOrder
    BY DEF InTurn
  <1>2. Clock' /\ HostOrder' /\ LastFrames' /\ TaskFrames'
    BY <1>1, StartsClock, StartsTurn, HostFrames, CompleteFrames, TakesInTurn, StillFrames,
       StillOrNot
  <1>3. NoneLost'
    BY <1>1, LostKept
  <1>4. AsideBlocked'
    BY <1>1, AsideBlockedKept
  <1>5. Behind'
    BY <1>1, BehindKept
  <1>6. JobsInOrder'
    BY <1>1, JobsInOrderKept
  <1>7. StartsInOrder'
    BY <1>1, StillOrNot, HostStep, CompleteEffect, StartsInOrderKept DEF Still
  <1>. QED  BY SMTT(30), <1>2, <1>3, <1>4, <1>5, <1>6, <1>7 DEF InTurn

LEMMA InitInTurn ==
  ASSUME Init, Typed
  PROVE  InTurn
  <1>1. Clock
    BY InitClock
  <1>2. /\ running = {} /\ executed = {} /\ job_q = [t \in Jobs |-> <<>>] /\ task = [t \in Target |-> TaskIdle]
        /\ completed = 0 /\ started = 0
    BY DEF Init, S!Init, Jobs, started
  <1>3. (\A p \in Pipe : frame[p] = 0) /\ (\A n \in Node : last_frame[n] = 0) /\ \A d \in Desc : state[d] = "IDLE"
    BY DEF Init
  <1>4. job_q["HOST"] = <<>> /\ \A t \in Target : job_q[t] = <<>>
    BY <1>2 DEF Jobs
  <1>5. \A t \in Target : task[t].at = "idle" /\ ToTrigger(t) = {} /\ ~Releasing(t) /\ ~Working(t)
    BY <1>2, ToTriggerNone DEF TaskIdle, Releasing, Working
  <1>6. HostOrder
    BY <1>2, <1>4 DEF HostOrder, LeafTold, ToldInOrder, LeavesInOrder
  <1>7. LastFrames
    BY <1>2, <1>3 DEF LastFrames
  <1>8. TaskFrames
    BY <1>5 DEF TaskFrames
  <1>9. NoneLost
    BY <1>3, NoneIs DEF NoneLost
  <1>10. AsideBlocked
    BY <1>3, InitPlaced DEF IsAside, IsPlaced, Aside, Kinds, AsideBlocked
  <1>11. Behind
    BY <1>3 DEF Behind
  <1>12. JobsInOrder
    BY <1>4 DEF JobsInOrder, Sorted
  <1>13. StartsInOrder
    BY EmptyHasNone DEF Init, StartsInOrder, Sorted
  <1>. QED  BY SMTT(30), <1>1, <1>6, <1>7, <1>8, <1>9, <1>10, <1>11, <1>12, <1>13 DEF InTurn

(* The nodes take their turns. *)
LEMMA InTurnInv ==
  ASSUME SamePredTarget, Capacity
  PROVE  Spec => []InTurn
  <1>1. Init /\ Typed => InTurn
    BY InitInTurn
  <1>2. Typed /\ Typed' /\ Expected /\ Ready /\ Told /\ InTurn /\ [Next]_vars => InTurn'
    BY InTurnKept
  <1>. QED  BY <1>1, <1>2, TypedInv, ExpectedInv, ReadyInv, ToldInv, PTL DEF Spec

(* With room in the job queues for all descriptors, each node runs the       *)
(* executions one after the other in the order in which they were started    *)
(* (prev_pipe_node_id and blocked_node_id, vx_target.c:542), whatever blocks *)
(* and unblocks its descriptors.                                             *)
THEOREM RunsInTurn ==
  ASSUME SamePredTarget, Capacity
  PROVE  Spec => []RunsInOrder
  <1>1. InTurn => RunsInOrder
    BY DEF InTurn, TaskFrames, RunsInOrder, Executing, At, Working
  <1>. QED  BY <1>1, InTurnInv, PTL

-----------------------------------------------------------------------------
(* What the application feeds. *)

(* Inputs that no node of the graph produces. *)
Sources == {q \in GraphParam : Producers(q) = {}}

(* References of one that nodes have acquired so far. *)
Drawn(q) == fed[q] - Len(acquire_q[q])

(* The references in the queue are for the executions to come. *)
QueuedNext(q) == \A i \in 1 .. Len(acquire_q[q]) : content[acquire_q[q][i]] = Drawn(q) + i

(* Of the executions up to that number an entry holds the reference, or a    *)
(* consumer has run; the others have none yet.                               *)
DrawnFor(q) ==
  \A p \in Pipe :
    /\ data_ref_q[q][p].acquired => frame[p] <= Drawn(q) /\ content[data_ref_q[q][p].ref] = frame[p]
    /\ frame[p] > 0 /\ ~data_ref_q[q][p].acquired /\ (\A c \in Consumers(q) : <<c, p>> \notin executed) =>
         frame[p] > Drawn(q)

(* References are drawn in the order of the executions, each for its own. *)
DrawnInTurn ==
  \A q \in Sources :
    /\ Drawn(q) <= started /\ \A n \in Consumers(q) : last_frame[n] <= Drawn(q)
    /\ QueuedNext(q) /\ DrawnFor(q)

LEMMA SourceIs ==
  ASSUME Typed, NEW q \in Sources
  PROVE  /\ q \in GraphParam /\ q \in DataRefQ /\ Producers(q) = {} /\ Consumers(q) \subseteq Node
         /\ acquire_q[q] \in Seq(Ref) /\ Len(acquire_q[q]) \in Nat /\ fed[q] \in Nat /\ Drawn(q) \in Int
         /\ \A i \in 1 .. Len(acquire_q[q]) : acquire_q[q][i] \in Ref /\ acquire_q[q][i] \in Range(acquire_q[q])
  <1>1. q \in GraphParam /\ q \in DataRefQ /\ Producers(q) = {}
    BY RefAssumption DEF Sources
  <1>2. acquire_q[q] \in Seq(Ref) /\ fed[q] \in Nat
    BY <1>1, TypedIs DEF DataTypeOK
  <1>3. /\ Len(acquire_q[q]) \in Nat /\ DOMAIN acquire_q[q] = 1 .. Len(acquire_q[q])
        /\ \A i \in 1 .. Len(acquire_q[q]) : acquire_q[q][i] \in Ref
    BY <1>2, LenProperties
  <1>4. Drawn(q) \in Int
    BY <1>2, <1>3 DEF Drawn
  <1>5. Consumers(q) \subseteq Node /\ \A i \in 1 .. Len(acquire_q[q]) : acquire_q[q][i] \in Range(acquire_q[q])
    BY Zenon, <1>3 DEF Range, Consumers
  <1>. QED  BY <1>1, <1>2, <1>3, <1>4, <1>5

(* A step that draws no reference, nor writes to one that was. *)
LEMMA DrawnKept ==
  ASSUME Typed, NEW q \in Sources,
         Drawn(q) <= started, \A n \in Consumers(q) : last_frame[n] <= Drawn(q), QueuedNext(q), DrawnFor(q),
         fed'[q] = fed[q], acquire_q'[q] = acquire_q[q], started' \in Nat, started' >= started,
         \A i \in 1 .. Len(acquire_q[q]) : content'[acquire_q[q][i]] = content[acquire_q[q][i]],
         \A n \in Consumers(q) : last_frame'[n] = last_frame[n] \/ last_frame'[n] <= Drawn(q),
         \A p \in Pipe : data_ref_q'[q][p].acquired =>
           /\ data_ref_q[q][p].acquired /\ data_ref_q'[q][p].ref = data_ref_q[q][p].ref
           /\ content'[data_ref_q[q][p].ref] = content[data_ref_q[q][p].ref] /\ frame'[p] = frame[p],
         \A p \in Pipe : frame'[p] > 0 /\ ~data_ref_q'[q][p].acquired /\ (\A c \in Consumers(q) : <<c, p>> \notin executed') =>
           frame'[p] > Drawn(q)
  PROVE  /\ Drawn(q)' <= started' /\ \A n \in Consumers(q) : last_frame'[n] <= Drawn(q)'
         /\ QueuedNext(q)' /\ DrawnFor(q)'
  <1>1. Drawn(q)' = Drawn(q)
    BY DEF Drawn
  <1>2. Drawn(q) \in Int /\ started \in Nat
    BY SourceIs, ClockTypes
  <1>3. Drawn(q)' <= started' /\ \A n \in Consumers(q) : last_frame'[n] <= Drawn(q)'
    BY <1>1, <1>2
  <1>4. QueuedNext(q)'
    BY <1>1 DEF QueuedNext
  <1>5. DrawnFor(q)'
    <2>1. ASSUME NEW p \in Pipe, data_ref_q'[q][p].acquired
          PROVE  frame'[p] <= Drawn(q) /\ content'[data_ref_q'[q][p].ref] = frame'[p]
      BY <2>1 DEF DrawnFor
    <2>. QED  BY ZenonT(30), <1>1, <2>1 DEF DrawnFor, Consumers
  <1>. QED  BY <1>3, <1>4, <1>5

(* The data of queue and entries are not touched while nothing is written to *)
(* a reference that is in one.                                               *)
LEMMA DrawnQuiet ==
  ASSUME Typed, Typed', DrawnInTurn,
         UNCHANGED <<data_ref_q, executed, frame, content, fed, acquire_q, last_frame>>, started' = started
  PROVE  DrawnInTurn'
  <1>1. ASSUME NEW q \in Sources
        PROVE  /\ Drawn(q)' <= started' /\ \A n \in Consumers(q) : last_frame'[n] <= Drawn(q)'
               /\ QueuedNext(q)' /\ DrawnFor(q)'
    BY ClockTypes, <1>1, DrawnKept DEF DrawnInTurn, DrawnFor
  <1>. QED  BY <1>1 DEF DrawnInTurn, Sources, Consumers, Producers

(* What is enqueued is for the execution after those that were fed. *)
LEMMA EnqueueDrawn ==
  ASSUME Typed, RefsPlaced, DrawnInTurn, NEW a \in App, NEW q \in GraphParam, NEW r \in Ref, EnqueueReadyRef(a, q, r)
  PROVE  DrawnInTurn'
  <1>1. /\ r \in owned /\ r \in Range(Buffers[q]) /\ content' = [content EXCEPT ![r] = fed[q] + 1]
        /\ fed' = [fed EXCEPT ![q] = @ + 1] /\ acquire_q' = [acquire_q EXCEPT ![q] = Append(@, r)]
        /\ UNCHANGED <<data_ref_q, executed, frame, last_frame>> /\ started' = started
    BY DEF EnqueueReadyRef, nodes, graph, history, started
  <1>2. q \in DataRefQ /\ \A s \in GraphParam : s \in DataRefQ
    BY RefAssumption
  <1>3. /\ acquire_q'[q] = Append(acquire_q[q], r) /\ fed'[q] = fed[q] + 1 /\ content'[r] = fed[q] + 1
        /\ \A s \in GraphParam : s # q => acquire_q'[s] = acquire_q[s] /\ fed'[s] = fed[s]
        /\ \A x \in Ref : x # r => content'[x] = content[x]
    BY <1>1, <1>2, TypedIs DEF DataTypeOK
  <1>4. OnePlace /\ OwnBuffers /\ started \in Nat
    BY ClockTypes DEF RefsPlaced
  <1>5. \A s \in DataRefQ : r \notin Range(acquire_q[s])
    BY <1>1, <1>2, <1>4, OwnerOf DEF OwnBuffers, IsAt, OnePlace, Locations
  <1>6. ASSUME NEW s \in Sources
        PROVE  /\ \A i \in 1 .. Len(acquire_q[s]) : content'[acquire_q[s][i]] = content[acquire_q[s][i]]
               /\ \A p \in Pipe : data_ref_q[s][p].acquired =>
                    content'[data_ref_q[s][p].ref] = content[data_ref_q[s][p].ref]
    BY SMTT(30), <1>1, <1>3, <1>4, <1>5, SourceIs, EntryAlone, TypedIs DEF EntriesNamed
  <1>7. ASSUME NEW s \in Sources, s # q
        PROVE  /\ Drawn(s)' <= started' /\ \A n \in Consumers(s) : last_frame'[n] <= Drawn(s)'
               /\ QueuedNext(s)' /\ DrawnFor(s)'
    BY SourceIs, <1>1, <1>3, <1>4, <1>6, <1>7, DrawnKept DEF DrawnInTurn, DrawnFor
  <1>8. ASSUME q \in Sources
        PROVE  /\ Drawn(q)' <= started' /\ \A n \in Consumers(q) : last_frame'[n] <= Drawn(q)'
               /\ QueuedNext(q)' /\ DrawnFor(q)'
    <2>1. PICK s, l : s = acquire_q[q] /\ l = Len(s) /\ s \in Seq(Ref) /\ l \in Nat /\ fed[q] \in Nat
      BY <1>8, SourceIs
    <2>2. /\ Len(Append(s, r)) = l + 1 /\ Append(s, r)[l + 1] = r
          /\ \A i \in 1 .. l : Append(s, r)[i] = s[i]
      BY <2>1
    <2>3. Drawn(q)' = Drawn(q) /\ Drawn(q) = fed[q] - l
      BY SMTT(30), <1>3, <2>1, <2>2 DEF Drawn
    <2>4. QueuedNext(q)'
      BY <1>6, <1>8, <2>1, <1>3, <2>3, <2>2 DEF DrawnInTurn, QueuedNext
    <2>5. DrawnFor(q)'
      <3>1. DrawnFor(q)
        BY <1>8 DEF DrawnInTurn
      <3>2. ASSUME NEW p \in Pipe, data_ref_q[q][p].acquired
            PROVE  frame[p] <= Drawn(q) /\ content'[data_ref_q[q][p].ref] = frame[p]
        BY <1>6, <1>8, <3>1, <3>2 DEF DrawnFor
      <3>. QED  BY <1>1, <2>3, <3>1, <3>2 DEF DrawnFor, Consumers
    <2>. QED  BY <1>1, <1>8, <2>3, <2>4, <2>5 DEF DrawnInTurn
  <1>. QED  BY <1>7, <1>8 DEF DrawnInTurn, Sources, Consumers, Producers

(* A consumer that has run is done with the entry, or it is still acquired. *)
LEMMA RanHolds ==
  ASSUME Typed, RefsPlaced, NEW q \in DataRefQ, NEW p \in Pipe, NEW c \in Consumers(q), <<c, p>> \in executed
  PROVE  c \in Done(q, p) \/ data_ref_q[q][p].acquired
  <1>. SUFFICES ASSUME c \notin Done(q, p) PROVE data_ref_q[q][p].acquired
    OBVIOUS
  <1>1. PICK t : t = TargetOf[c] /\ t \in Target /\ c \in Node
    BY ParamOf, Targets
  <1>2. task[t].desc = <<c, p>> /\ q \in ToRelease(t)
    BY <1>1 DEF Done, Released
  <1>3. task[t].at = "release" /\ \E j \in task[t].i .. Len(Param[c]) : q = Param[c][j][1]
    BY <1>2 DEF ToRelease
  <1>4. Held(t) = task[t].i .. Len(Param[c])
    BY <1>1, <1>2, <1>3, TypedIs DEF TasksShaped, Shaped, Held, Working
  <1>5. PICK j \in Held(t) : q = Param[c][j][1]
    BY <1>3, <1>4
  <1>6. PICK d : d = task[t].desc /\ d[1] = c /\ d[2] = p
    BY <1>2
  <1>. QED  BY Zenon, <1>1, <1>5, <1>6 DEF RefsPlaced, EntryHeld

(* The execution that draws a reference is the next one: its node has run    *)
(* the one before, and thereby drawn the reference before.                   *)
LEMMA AcquireDrawn ==
  ASSUME Typed, Typed', Expected, Ready, RefsPlaced, Clock, TaskFrames, DrawnInTurn, NEW t \in Target, Acquire(t)
  PROVE  DrawnInTurn'
  <1>1. PICK d, q, i, prm : Acquiring(t, d, q, i, prm)
    BY ZenonT(30) DEF Acquire, Acquiring, At
  <1>2. UNCHANGED <<content, executed, frame, fed, last_frame>> /\ started' = started /\ started \in Nat
    BY Zenon, ClockTypes DEF Acquire, data, schedule, graph, history, started
  <1>3. CASE data_ref_q[q][d[2]].acquired \/ acquire_q[q] = <<>>
    <2>1. d = task[t].desc /\ q = Param[d[1]][task[t].i][1]
      BY Zenon, <1>1 DEF Acquiring
    <2>2. data_ref_q' = data_ref_q /\ acquire_q' = acquire_q
      <3>1. CASE data_ref_q[q][d[2]].acquired
        BY Zenon, <2>1, <3>1 DEF Acquire
      <3>2. CASE ~data_ref_q[q][d[2]].acquired /\ acquire_q[q] = <<>>
        BY Zenon, <2>1, <3>2 DEF Acquire
      <3>. QED  BY <1>3, <3>1, <3>2
    <2>. QED  BY <1>2, <2>2, DrawnQuiet
  <1>4. CASE ~data_ref_q[q][d[2]].acquired /\ acquire_q[q] # <<>>
    <2>1. PICK n, p, r : n = d[1] /\ p = d[2] /\ AcquiresRef(t, d, q, prm, r)
      BY <1>1, <1>4, AcquireFreshIs
    <2>2. n \in Node /\ p \in Pipe /\ q \in DataRefQ /\ i \in 1 .. Len(Param[n]) /\ q = Param[n][i][1]
          /\ Working(t) /\ d = task[t].desc
      BY SMTT(30), <1>1, <2>1, AcquiringIs DEF Acquiring, Working
    <2>3. /\ data_ref_q'[q][p].acquired /\ data_ref_q'[q][p].ref = r
          /\ \A s \in DataRefQ, o \in Pipe : s # q \/ o # p => data_ref_q'[s][o] = data_ref_q[s][o]
          /\ acquire_q'[q] = Tail(acquire_q[q]) /\ r = Head(acquire_q[q])
          /\ \A s \in DataRefQ : s # q => acquire_q'[s] = acquire_q[s]
      BY Zenon, <2>1, <2>2, TypedIs DEF AcquiresRef, DataTypeOK
    <2>4. ASSUME NEW s \in Sources, s # q
          PROVE  /\ Drawn(s)' <= started' /\ \A m \in Consumers(s) : last_frame'[m] <= Drawn(s)'
                 /\ QueuedNext(s)' /\ DrawnFor(s)'
      BY SMTT(30), SourceIs, <2>3, <2>4, <1>2, DrawnKept DEF DrawnInTurn, DrawnFor
    <2>5. ASSUME q \in Sources
          PROVE  /\ Drawn(q)' <= started' /\ \A m \in Consumers(q) : last_frame'[m] <= Drawn(q)'
                 /\ QueuedNext(q)' /\ DrawnFor(q)'
      <3>1. /\ Drawn(q) <= started /\ \A m \in Consumers(q) : last_frame[m] <= Drawn(q)
            /\ QueuedNext(q) /\ DrawnFor(q)
        BY <2>5 DEF DrawnInTurn
      <3>2. n \in Consumers(q)
        BY <2>2, <2>5, UserOf, SourceIs
      <3>3. Done(q, p) = {} /\ frame[p] > 0
        BY SMTT(30), <1>1, <1>4, <2>1, NoneDone
      <3>4. \A c \in Consumers(q) : <<c, p>> \notin executed
        BY ZenonT(30), <1>4, <2>1, <2>2, <3>3, RanHolds
      <3>5. frame[p] > Drawn(q)
        BY ZenonT(30), <1>4, <2>1, <2>2, <3>1, <3>3, <3>4 DEF DrawnFor
      <3>6. frame[p] = last_frame[n] + 1
        BY <2>1, <2>2 DEF TaskFrames
      <3>7. frame[p] \in Nat /\ last_frame[n] \in Nat /\ Drawn(q) \in Int /\ frame[p] <= started
        BY <2>2, <2>5, SourceIs, ClockTypes DEF Clock, FrameOf
      <3>8. frame[p] = Drawn(q) + 1
        BY <3>1, <3>2, <3>5, <3>6, <3>7
      <3>9. PICK s, l : s = acquire_q[q] /\ l = Len(s) /\ s \in Seq(Ref) /\ l \in Nat /\ fed[q] \in Nat
        BY <2>5, SourceIs
      <3>10. /\ l > 0 /\ Len(Tail(s)) = l - 1 /\ Head(s) = s[1] /\ \A j \in 1 .. l - 1 : Tail(s)[j] = s[j + 1]
        BY <1>4, <3>9
      <3>11. Drawn(q)' = Drawn(q) + 1
        BY <1>2, <2>3, <3>9, <3>10 DEF Drawn
      <3>12. content[r] = frame[p]
        BY SMTT(30), <3>9, <3>10, <2>3, <3>1, <3>8 DEF QueuedNext
      <3>13. QueuedNext(q)'
        <4>1. ASSUME NEW j \in 1 .. l - 1 PROVE content[Tail(s)[j]] = Drawn(q) + 1 + j
          <5>1. j + 1 \in 1 .. l /\ Tail(s)[j] = s[j + 1]
            BY <3>9, <3>10
          <5>2. content[s[j + 1]] = Drawn(q) + (j + 1)
            BY <3>9, <3>1, <5>1 DEF QueuedNext
          <5>. QED  BY <3>7, <3>9, <5>1, <5>2
        <4>. QED  BY SMTT(30), <1>2, <2>3, <3>9, <3>10, <3>11, <4>1 DEF QueuedNext
      <3>14. ASSUME NEW o \in Pipe
             PROVE  /\ data_ref_q'[q][o].acquired => frame[o] <= Drawn(q) + 1 /\ content[data_ref_q'[q][o].ref] = frame[o]
                    /\ frame[o] > 0 /\ ~data_ref_q'[q][o].acquired /\ (\A c \in Consumers(q) : <<c, o>> \notin executed) =>
                         frame[o] > Drawn(q) + 1
        <4>1. CASE o = p
          BY <2>3, <3>7, <3>8, <3>12, <4>1
        <4>2. CASE o # p
          <5>1. data_ref_q'[q][o] = data_ref_q[q][o] /\ frame[o] \in Nat
            BY <2>2, <2>3, <4>2, ClockTypes
          <5>2. frame[o] # frame[p]
            BY <2>2, <3>3, <4>2, OneFrame
          <5>. QED  BY <3>1, <3>7, <3>8, <5>1, <5>2 DEF DrawnFor
        <4>. QED  BY <4>1, <4>2
      <3>15. DrawnFor(q)'
        BY <1>2, <3>11, <3>14 DEF DrawnFor, Consumers
      <3>16. Drawn(q)' <= started' /\ \A m \in Consumers(q) : last_frame'[m] <= Drawn(q)'
        BY <2>5, SourceIs, ClockTypes, <1>2, <3>1, <3>7, <3>8, <3>11
      <3>. QED  BY <3>13, <3>15, <3>16
    <2>. QED  BY <2>4, <2>5 DEF DrawnInTurn, Sources, Consumers, Producers
  <1>. QED  BY Zenon, <1>3, <1>4

(* A kernel writes no reference that the application feeds, and has drawn    *)
(* those of its execution.                                                   *)
LEMMA CompleteDrawn ==
  ASSUME Typed, Typed', RefsPlaced, DrawnInTurn, NEW t \in Target, Complete(t)
  PROVE  DrawnInTurn'
  <1>1. PICK d, n, p, prm : /\ d = task[t].desc /\ n = d[1] /\ p = d[2] /\ prm = task[t].prm
                            /\ n \in Node /\ p \in Pipe /\ d = <<n, p>>
    BY CompleteEffect, NoneIs
  <1>2. PICK outputs : outputs = {prm[i] : i \in {j \in DOMAIN Param[n] : ~Param[n][j][2]}}
    OBVIOUS
  <1>3. /\ content' = [r \in Ref |-> IF r \in outputs THEN frame[p] ELSE content[r]]
        /\ executed' = executed \cup {d} /\ last_frame' = [last_frame EXCEPT ![n] = frame[p]]
        /\ UNCHANGED <<data_ref_q, acquire_q, frame, fed>> /\ started' = started /\ started \in Nat
    BY <1>1, <1>2, ClockTypes DEF Complete, refs, schedule, graph, history, started
  <1>4. DOMAIN Param[n] = 1 .. Len(Param[n]) /\ Held(t) = 1 .. Len(Param[n])
    BY SMTT(30), <1>1, CompleteEffect, TypedIs, Parameters DEF TasksShaped, Shaped, Held, Working
  <1>5. ASSUME NEW i \in 1 .. Len(Param[n]), NEW q, q = Param[n][i][1]
        PROVE  q \in DataRefQ /\ data_ref_q[q][p].acquired /\ data_ref_q[q][p].ref = prm[i]
    BY ZenonT(30), <1>1, <1>4, <1>5, UserOf DEF RefsPlaced, EntryHeld
  <1>6. ASSUME NEW s \in Sources, NEW r \in outputs, r \in Range(Buffers[s]) PROVE FALSE
    <2>1. PICK i \in 1 .. Len(Param[n]) : ~Param[n][i][2] /\ r = prm[i]
      BY <1>2, <1>4
    <2>2. PICK q : q = Param[n][i][1] /\ n \in Producers(q)
      BY <1>1, <2>1, UserOf
    <2>3. q \in DataRefQ /\ r \in Range(Buffers[q])
      BY SMTT(30), <1>5, <2>1, <2>2, <1>1 DEF RefsPlaced, OwnBuffers
    <2>. QED  BY <1>6, <2>2, <2>3, SourceIs, OwnerOf
  <1>7. ASSUME NEW s \in Sources
        PROVE  /\ Drawn(s)' <= started' /\ \A m \in Consumers(s) : last_frame'[m] <= Drawn(s)'
               /\ QueuedNext(s)' /\ DrawnFor(s)'
    <2>1. s \in DataRefQ /\ Consumers(s) \subseteq Node
      BY SourceIs
    <2>2. \A x \in Ref : x \in Range(Buffers[s]) => content'[x] = content[x]
      BY <1>3, <1>6
    <2>3. \A i \in 1 .. Len(acquire_q[s]) : content'[acquire_q[s][i]] = content[acquire_q[s][i]]
      BY <2>1, <2>2, SourceIs DEF RefsPlaced, OwnBuffers
    <2>4. \A o \in Pipe : data_ref_q[s][o].acquired => content'[data_ref_q[s][o].ref] = content[data_ref_q[s][o].ref]
      BY <2>1, <2>2, TypedIs DEF RefsPlaced, OwnBuffers, EntriesNamed
    <2>5. ASSUME NEW m \in Consumers(s) PROVE last_frame'[m] = last_frame[m] \/ last_frame'[m] <= Drawn(s)
      <3>1. last_frame'[m] = IF m = n THEN frame[p] ELSE last_frame[m]
        BY <1>3, <2>1, TypedIs DEF DataTypeOK
      <3>2. CASE m = n
        <4>1. data_ref_q[s][p].acquired
          BY <1>5, <3>2, ParamOf
        <4>2. DrawnFor(s)
          BY DEF DrawnInTurn
        <4>. QED  BY <1>1, <3>1, <3>2, <4>1, <4>2 DEF DrawnFor
      <3>. QED  BY <3>1, <3>2
    <2>6. \A o \in Pipe : frame'[o] > 0 /\ ~data_ref_q'[s][o].acquired /\ (\A c \in Consumers(s) : <<c, o>> \notin executed') =>
            frame'[o] > Drawn(s)
      BY <1>3 DEF DrawnInTurn, DrawnFor
    <2>7. /\ Drawn(s) <= started /\ QueuedNext(s) /\ DrawnFor(s)
          /\ \A m \in Consumers(s) : last_frame[m] <= Drawn(s)
      BY DEF DrawnInTurn
    <2>8. fed' = fed /\ acquire_q' = acquire_q /\ data_ref_q' = data_ref_q /\ frame' = frame /\ started' \in Nat /\ started' >= started
      BY <1>3
    <2>. QED  BY <2>3, <2>4, <2>5, <2>6, <2>7, <2>8, DrawnKept
  <1>. QED  BY <1>7 DEF DrawnInTurn, Sources, Consumers, Producers

(* A consumer that gives an entry back has run. *)
LEMMA ReleaseDrawn ==
  ASSUME Typed, Typed', Expected, Ready, RefsPlaced, DrawnInTurn, NEW t \in Target, Release(t)
  PROVE  DrawnInTurn'
  <1>1. PICK d, q, i, prm, r : Releases(t, d, q, i, prm, r)
    BY Zenon DEF Release, Releases, At
  <1>2. UNCHANGED <<content, executed, frame, fed, last_frame>> /\ started' = started /\ started \in Nat
    BY Zenon, ClockTypes DEF Release, data, nodes, schedule, graph, history, started
  <1>3. /\ d = <<d[1], d[2]>> /\ d[2] \in Pipe /\ q \in DataRefQ /\ d \in executed
        /\ data_ref_q[q][d[2]].acquired /\ data_ref_q[q][d[2]].ref = r
        /\ d[1] \in Consumers(q) \/ d[1] \in Producers(q)
    BY <1>1, ReleasesIs
  <1>4. /\ data_ref_q'[q][d[2]].ref = r
        /\ \A s \in DataRefQ, o \in Pipe : s # q \/ o # d[2] => data_ref_q'[s][o] = data_ref_q[s][o]
        /\ \A s \in GraphParam : s \in DataRefQ => acquire_q'[s] = acquire_q[s]
    BY <1>1, ReleaseEffect
  <1>5. ASSUME NEW s \in Sources
        PROVE  /\ Drawn(s)' <= started' /\ \A m \in Consumers(s) : last_frame'[m] <= Drawn(s)'
               /\ QueuedNext(s)' /\ DrawnFor(s)'
    BY SourceIs, <1>3, <1>4, <1>2, DrawnKept DEF DrawnInTurn, DrawnFor
  <1>. QED  BY Zenon, <1>5 DEF DrawnInTurn, Sources, Consumers, Producers

(* The executions that start have drawn nothing. *)
LEMMA StartsDrawn ==
  ASSUME Typed, Expected, Ready, RefsPlaced, DrawnInTurn, NEW k \in Nat, Starts(k)
  PROVE  DrawnInTurn'
  <1>1. UNCHANGED <<data_ref_q, content, acquire_q, fed, last_frame>>
    BY DEF Starts, refs, data
  <1>2. /\ \A d \in running : d[2] \notin Taken(k)
        /\ executed' = {d \in executed : d[2] \notin Taken(k)}
    BY StartsEffect
  <1>3. /\ started' = started + k /\ started \in Nat
        /\ \A p \in Taken(k) : frame'[p] \in Nat /\ frame'[p] > started
        /\ \A p \in Pipe \ Taken(k) : frame'[p] = frame[p]
    BY StartsFrames, ClockTypes
  <1>4. ASSUME NEW q \in DataRefQ, NEW p \in Pipe, data_ref_q[q][p].acquired PROVE p \notin Taken(k)
    BY <1>2, <1>4, NoEntryIdle
  <1>5. ASSUME NEW s \in Sources
        PROVE  /\ Drawn(s)' <= started' /\ \A m \in Consumers(s) : last_frame'[m] <= Drawn(s)'
               /\ QueuedNext(s)' /\ DrawnFor(s)'
    <2>1. s \in DataRefQ /\ Drawn(s) \in Int /\ Drawn(s) <= started
      BY SourceIs DEF DrawnInTurn
    <2>2. ASSUME NEW o \in Pipe, frame'[o] > 0, ~data_ref_q[s][o].acquired, \A c \in Consumers(s) : <<c, o>> \notin executed'
          PROVE  frame'[o] > Drawn(s)
      BY <1>3, <2>1, <1>2, <2>2 DEF DrawnInTurn, DrawnFor
    <2>3. \A o \in Pipe : data_ref_q[s][o].acquired => frame'[o] = frame[o]
      BY <1>3, <1>4, <2>1
    <2>4. started' \in Nat /\ started' >= started
      BY <1>3
    <2>. QED  BY <1>1, <2>2, <2>3, <2>4, DrawnKept DEF DrawnInTurn
  <1>. QED  BY <1>5 DEF DrawnInTurn, Sources, Consumers, Producers

(* References are drawn in turn. *)
LEMMA DrawnInv ==
  ASSUME SamePredTarget, Capacity
  PROVE  Spec => []DrawnInTurn
  <1>1. Init => DrawnInTurn
    <2>. SUFFICES ASSUME Init, NEW q \in Sources
                  PROVE  /\ Drawn(q) <= started /\ \A n \in Consumers(q) : last_frame[n] <= Drawn(q)
                         /\ QueuedNext(q) /\ DrawnFor(q)
      BY DEF DrawnInTurn
    <2>1. q \in GraphParam /\ q \in DataRefQ
      BY RefAssumption DEF Sources
    <2>2. fed[q] = 0 /\ Len(acquire_q[q]) = 0 /\ \A p \in Pipe : ~data_ref_q[q][p].acquired /\ frame[p] = 0
      BY <2>1 DEF Init, Empty
    <2>3. started = 0
      BY DEF Init, S!Init, started
    <2>4. \A n \in Consumers(q) : last_frame[n] = 0
      BY DEF Init, Consumers
    <2>5. Drawn(q) = 0
      BY <2>2 DEF Drawn
    <2>. QED  BY <2>2, <2>3, <2>4, <2>5 DEF QueuedNext, DrawnFor
  <1>2. Typed /\ Typed' /\ Expected /\ Ready /\ RefsPlaced /\ InTurn /\ DrawnInTurn /\ [Next]_vars => DrawnInTurn'
    <2>. SUFFICES ASSUME Typed, Typed', Expected, Ready, RefsPlaced, InTurn, DrawnInTurn, [Next]_vars PROVE DrawnInTurn'
      OBVIOUS
    <2>1. Clock /\ TaskFrames /\ SP!Inv
      BY DEF InTurn, Typed
    <2>2. CASE (\E a \in App : AppTrigger(a)) \/ Dequeue \/ KernelSchedule \/ HostNotifies \/ UNCHANGED vars
      <3>1. UNCHANGED <<data_ref_q, executed, frame, content, fed, acquire_q, last_frame>> /\ started' = started
        BY <2>2 DEF AppTrigger, Dequeue, DequeueDoneRef, KernelSchedule, HostNotifies, vars, nodes, refs, data, schedule, graph, history, started
      <3>. QED  BY <3>1, DrawnQuiet
    <2>3. CASE HostCompletes
      BY <2>3, HostStep, ClockTypes, DrawnQuiet DEF HostCompletes, nodes, refs, data, started
    <2>4. CASE \E t \in Target : Take(t) \/ TaskTrigger(t) \/ SendComplete(t) \/ TriggerNext(t)
      <3>1. UNCHANGED <<data_ref_q, executed, frame, content, fed, acquire_q, last_frame>> /\ started' = started
        BY <2>4 DEF Take, TaskTrigger, SendComplete, TriggerNext, nodes, refs, data, schedule, graph, history, started
      <3>. QED  BY SMTT(30), <3>1, DrawnQuiet
    <2>. QED  BY <2>1, <2>2, <2>3, <2>4, Steps, EnqueueDrawn, StartsDrawn, AcquireDrawn, CompleteDrawn, ReleaseDrawn
  <1>. QED  BY <1>1, <1>2, TypedInv, ExpectedInv, ReadyInv, RefsInv, InTurnInv, PTL DEF Spec

(* Verification makes a queue for the data that a node writes; there is none *)
(* for other data but at graph parameters (vx_graph_verify.c:1647).          *)
QueuesProduced == \A q \in DataRefQ \ GraphParam : Producers(q) # {}

(* While a kernel runs, each of its inputs holds the data of its execution,  *)
(* written by another node or enqueued by the application, and nothing over  *)
(* it: with room in the job queues, as above.                                *)
THEOREM InputsStayIntact ==
  ASSUME SamePredTarget, Capacity, QueuesProduced
  PROVE  Spec => []InputsIntact
  <1>1. Typed /\ RefsPlaced /\ DrawnInTurn /\ ProducedIntact => InputsIntact
    <2>. SUFFICES ASSUME Typed, RefsPlaced, DrawnInTurn, ProducedIntact, NEW t \in Executing,
                         NEW i \in DOMAIN Param[task[t].desc[1]], NEW d, d = task[t].desc, NEW q, q = Param[d[1]][i][1],
                         Param[d[1]][i][2]
                  PROVE  content[task[t].prm[i]] = frame[d[2]]
      BY DEF InputsIntact
    <2>1. CASE Producers(q) # {}
      BY SMTT(30), <2>1 DEF ProducedIntact
    <2>2. CASE Producers(q) = {}
      <3>1. t \in Target /\ task[t].at = "execute"
        BY DEF Executing, At
      <3>2. /\ d[1] \in Node /\ d[2] \in Pipe /\ Len(task[t].prm) = Len(Param[d[1]])
            /\ i \in 1 .. Len(Param[d[1]])
        BY SMTT(30), <3>1, OwnDesc, NoneIs, Parameters, TypedIs DEF TasksShaped, Shaped
      <3>3. i \in Held(t)
        BY <3>1, <3>2 DEF Held, Working
      <3>4. data_ref_q[q][d[2]].acquired /\ data_ref_q[q][d[2]].ref = task[t].prm[i]
        BY ZenonT(30), <3>1, <3>3 DEF RefsPlaced, EntryHeld
      <3>5. q \in Sources
        BY <2>2, <3>2, UserOf DEF Sources, QueuesProduced
      <3>6. DrawnFor(q)
        BY <3>5 DEF DrawnInTurn
      <3>. QED  BY Zenon, <3>2, <3>4, <3>6 DEF DrawnFor
    <2>. QED  BY <2>1, <2>2
  <1>. QED  BY <1>1, TypedInv, RefsInv, DrawnInv, ProducedInputsIntact, PTL
===============================================================================

--------------------------- MODULE GraphSchedule ---------------------------
(***************************************************************************)
(* Scheduling of a verified graph: vx_graph_pipeline.c, vx_graph.c and the *)
(* node completion handler of vx_target.c.  Application threads schedule   *)
(* and wait; the HOST target task handles the completions of leaf nodes.   *)
(* Both lock the graph, but not over everything they do: the HOST task     *)
(* takes the pending requests under the lock and schedules them after it   *)
(* let go, vxScheduleGraph and vxWaitGraph look at the graph state before  *)
(* they lock, and an ABANDON returned by a callback is recorded after the  *)
(* completion it belongs to.                                               *)
(*                                                                         *)
(* Between the scheduling of a pipeline id and the completion of its leaf  *)
(* nodes lies the execution of the graph, which this module leaves open:   *)
(* the leaf nodes of the ids that run complete in any order.               *)
(***************************************************************************)
EXTENDS Naturals, Sequences, FiniteSets

CONSTANTS
  Caller,         \* application threads
  Depth,          \* graph->pipeline_depth
  Leaf,           \* leaf nodes
  Mode,           \* graph->schedule_mode
  FreeQSize,      \* TIVX_GRAPH_MAX_PIPELINE_DEPTH, the size of free_q
  LeafAbandons,   \* whether the callback of a leaf node may return ABANDON
  InnerAbandons,  \* whether that of another node may
  Timeouts,       \* whether a timeout is set on the graph
  MaxRequests     \* bound of the model: graph executions ever requested

ASSUME DepthAssumption == Depth \in Nat \ {0} /\ FreeQSize \in Nat /\ Depth <= FreeQSize
ASSUME LeafAssumption == IsFiniteSet(Leaf) /\ Leaf # {}
ASSUME ModeAssumption == Mode \in {"NORMAL", "QUEUE_AUTO", "QUEUE_MANUAL"}
ASSUME BoundAssumption == MaxRequests \in Nat
ASSUME SwitchAssumption == {LeafAbandons, InnerAbandons, Timeouts} \subseteq BOOLEAN

Pipe == 0 .. Depth - 1
NumLeafNodes == Cardinality(Leaf)

VARIABLES
  free_q,                     \* pipeline ids that do not run, oldest first
  submitted_count,            \* graph->submitted_count
  schedule_pending_count,     \* graph->schedule_pending_count
  graph_state,                \* graph->state
  desc_state,                 \* obj_desc[p]->state
  complete_leaf_nodes,        \* obj_desc[p]->complete_leaf_nodes
  all_graph_completed_event,  \* is_set of the event
  running,     \* <<l, p>>: leaf l has yet to complete for pipeline id p
  host,        \* the HOST task: how far it is with a completion, what it holds
  pc,          \* the application threads: where each is in its call
  num,         \* how many executions the call of a thread is to schedule
  fresh,       \* the thread scheduled since it last waited
  ret,         \* status of the latest call of each thread
  requested,   \* history: graph executions the callers were promised
  completed,   \* history: graph executions that completed
  goal,        \* history: `requested' when the thread began to wait
  abandoned,   \* history: a callback of the current run of p said ABANDON
  last_abandoned  \* history: `abandoned' of the execution completed last

graph == <<free_q, submitted_count, schedule_pending_count, graph_state,
           desc_state, complete_leaf_nodes, all_graph_completed_event, running>>
history == <<requested, completed, goal, abandoned, last_abandoned>>
callers == <<pc, num, fresh, ret>>
vars == <<graph, host, callers, history>>

HostIdle == [at |-> "idle", count |-> 0, abandon |-> {}]

(* The pipeline ids with a leaf node that has yet to complete. *)
Busy == {p \in Pipe : \E l \in Leaf : <<l, p>> \in running}

Smaller(m, n) == IF m <= n THEN m ELSE n

Init ==
  /\ free_q = [i \in 1 .. Depth |-> i - 1]
  /\ submitted_count = 0 /\ schedule_pending_count = 0
  /\ graph_state = "VERIFIED"
  /\ desc_state = [p \in Pipe |-> "VERIFIED"]
  /\ complete_leaf_nodes = [p \in Pipe |-> 0]
  /\ all_graph_completed_event = FALSE
  /\ running = {}
  /\ host = HostIdle
  /\ pc = [c \in Caller |-> "idle"]
  /\ num = [c \in Caller |-> 0]
  /\ fresh = [c \in Caller |-> FALSE]
  /\ ret = [c \in Caller |-> "SUCCESS"]
  /\ requested = 0 /\ completed = 0
  /\ goal = [c \in Caller |-> 0]
  /\ abandoned = [p \in Pipe |-> FALSE]
  /\ last_abandoned = FALSE

-----------------------------------------------------------------------------
(***************************************************************************)
(* ownGraphScheduleGraph, all of it under the graph lock: start as many of *)
(* the n requests and of the pending ones as there are free pipeline ids.  *)
(* The rest stays pending in the queueing modes; in the normal mode it is  *)
(* an error whose status no caller looks at.                               *)
(***************************************************************************)
Started(n) == Smaller(n + schedule_pending_count, Len(free_q))

(* What stays pending. *)
StillPending_AsNormal(n) == schedule_pending_count
StillPending(n) == IF Mode = "NORMAL" THEN schedule_pending_count
                   ELSE n + schedule_pending_count - Started(n)

(* A graph is about to be submitted: the event no longer holds. *)
EventAfterStart_NotCleared(k) == all_graph_completed_event
EventAfterStart(k) == k = 0 /\ all_graph_completed_event

ScheduleGraph(n) ==
  LET k == Started(n)
      taken == {free_q[i] : i \in 1 .. k}
  IN /\ free_q' = SubSeq(free_q, k + 1, Len(free_q))
     /\ submitted_count' = submitted_count + k
     /\ schedule_pending_count' = StillPending(n)
     /\ graph_state' = IF k > 0 THEN "RUNNING" ELSE graph_state
     /\ desc_state' = [p \in Pipe |-> IF p \in taken THEN "RUNNING" ELSE desc_state[p]]
     /\ all_graph_completed_event' = EventAfterStart(k)
     /\ running' = running \cup Leaf \X taken
     /\ abandoned' = [p \in Pipe |-> p \notin taken /\ abandoned[p]]
     /\ UNCHANGED complete_leaf_nodes

(* The executions a call with n adds: in the normal mode those that start. *)
Promised(n) == IF Mode = "NORMAL" THEN Started(n) ELSE n

-----------------------------------------------------------------------------
(* The application threads. *)

(* How many executions one call asks for: one; what the queues of the graph *)
(* parameters have ready; the references one call enqueues at parameter 0.  *)
Batch == CASE Mode = "NORMAL" -> {1}
           [] Mode = "QUEUE_MANUAL" -> 0 .. Depth + 1
           [] Mode = "QUEUE_AUTO" -> 1 .. 2

Returns(c, status) ==
  /\ pc' = [pc EXCEPT ![c] = "idle"]
  /\ ret' = [ret EXCEPT ![c] = status]

(***************************************************************************)
(* vxScheduleGraph up to the lock.  It looks at the graph state without    *)
(* the lock; in a state it does not schedule from, or with nothing to      *)
(* schedule, it prints a message and returns success.                      *)
(* vxGraphParameterEnqueueReadyRef does not look at the state.             *)
(***************************************************************************)
ScheduleCall(c) ==
  /\ pc[c] = "idle" /\ requested < MaxRequests
  /\ \/ /\ Mode = "QUEUE_AUTO" \/ graph_state \in {"VERIFIED", "COMPLETED", "ABANDONED"}
        /\ \E n \in Batch \ {0} : num' = [num EXCEPT ![c] = n]
        /\ pc' = [pc EXCEPT ![c] = "schedule"]
        /\ UNCHANGED ret
     \/ /\ Mode # "QUEUE_AUTO"
        /\ 0 \in Batch \/ graph_state = "RUNNING"
        /\ Returns(c, "SUCCESS")
        /\ UNCHANGED num
  /\ UNCHANGED <<graph, host, fresh, history>>

(* The critical section of either call, and its return. *)
Schedule(c) ==
  /\ pc[c] = "schedule"
  /\ ScheduleGraph(num[c])
  /\ requested' = requested + Promised(num[c])
  /\ Returns(c, "SUCCESS")
  /\ fresh' = [fresh EXCEPT ![c] = TRUE]
  /\ num' = [num EXCEPT ![c] = 0]
  /\ UNCHANGED <<host, completed, goal, last_abandoned>>

(***************************************************************************)
(* vxWaitGraph.  A thread waits for executions it scheduled, the call's    *)
(* precondition in vx_api.h; on a graph that never ran the call fails.     *)
(***************************************************************************)
WaitCall(c) ==
  /\ pc[c] = "idle"
  /\ \/ /\ graph_state \in {"RUNNING", "COMPLETED", "ABANDONED"} /\ fresh[c]
        /\ pc' = [pc EXCEPT ![c] = "waiting"]
        /\ goal' = [goal EXCEPT ![c] = requested]
        /\ UNCHANGED ret
     \/ /\ graph_state = "VERIFIED"
        /\ Returns(c, "NOT_SUPPORTED")
        /\ UNCHANGED goal
  /\ fresh' = [fresh EXCEPT ![c] = FALSE]
  /\ UNCHANGED <<graph, host, num, requested, completed, abandoned, last_abandoned>>

(* tivxEventWait: one waiter takes the event. *)
WaitEvent(c) ==
  /\ pc[c] = "waiting" /\ all_graph_completed_event
  /\ all_graph_completed_event' = FALSE
  /\ pc' = [pc EXCEPT ![c] = "woken"]
  /\ UNCHANGED <<free_q, submitted_count, schedule_pending_count, graph_state,
                 desc_state, complete_leaf_nodes, running>>
  /\ UNCHANGED <<host, num, fresh, ret, history>>

(* With a timeout set on the graph the wait may end without the event. *)
WaitTimeout(c) ==
  /\ Timeouts
  /\ pc[c] = "waiting"
  /\ Returns(c, "EVENT_TIMEOUT")
  /\ fresh' = [fresh EXCEPT ![c] = TRUE]
  /\ UNCHANGED <<graph, host, num, history>>

(* Awake, it looks at the graph state, again without the lock. *)
WaitReturn(c) ==
  /\ pc[c] = "woken"
  /\ Returns(c, IF graph_state = "ABANDONED" THEN "ABANDONED" ELSE "SUCCESS")
  /\ UNCHANGED <<graph, host, num, fresh, history>>

-----------------------------------------------------------------------------
(***************************************************************************)
(* The HOST task, one completion after the other.  The action a callback   *)
(* returned is recorded once everything else about it is done.             *)
(***************************************************************************)
LeafActions == {"CONTINUE"} \cup IF LeafAbandons THEN {"ABANDON"} ELSE {}

ToAbandon(p, action) == IF action = "ABANDON" THEN {p} ELSE {}

(* ownCheckGraphCompleted for a leaf node that is not the last one of its id. *)
CountLeaf(l, p, action) ==
  /\ host.at = "idle" /\ <<l, p>> \in running
  /\ complete_leaf_nodes[p] + 1 # NumLeafNodes
  /\ running' = running \ {<<l, p>>}
  /\ complete_leaf_nodes' = [complete_leaf_nodes EXCEPT ![p] = @ + 1]
  /\ host' = [at |-> IF action = "ABANDON" THEN "abandon" ELSE "idle",
              count |-> 0, abandon |-> ToAbandon(p, action)]
  /\ UNCHANGED <<free_q, submitted_count, schedule_pending_count, graph_state,
                 desc_state, all_graph_completed_event>>

LeafCompletes(l, p, action) ==
  /\ CountLeaf(l, p, action)
  /\ abandoned' = [abandoned EXCEPT ![p] = @ \/ action = "ABANDON"]
  /\ UNCHANGED <<callers, requested, completed, goal, last_abandoned>>

(* The next run of the pipeline id counts its leaf nodes from zero. *)
LeafCountAfterRun_NotReset(p) == complete_leaf_nodes[p] + 1
LeafCountAfterRun(p) == 0

(* The pending requests the HOST task takes along when it lets the lock go. *)
TakenOver_None(submitted) == 0
TakenOver(submitted) == schedule_pending_count

LeftPending_NotReset(count) == schedule_pending_count
LeftPending(count) == schedule_pending_count - count

(* Whether everything that was requested has completed. *)
AllCompleted_BeforeDecrement(submitted, count) == submitted_count = 0 /\ count = 0
AllCompleted(submitted, count) == submitted = 0 /\ count = 0

(* An execution that a callback abandoned keeps that state. *)
StateAfterRun_Completed(p) == "COMPLETED"
StateAfterRun(p) == IF desc_state[p] = "RUNNING" THEN "COMPLETED" ELSE desc_state[p]

(* ownGraphEnqueueFreeObjDesc: a full queue would refuse the id. *)
FreePipe_Lost(p) == IF Len(free_q) < Depth - 1 THEN Append(free_q, p) ELSE free_q
FreePipe(p) == IF Len(free_q) < FreeQSize THEN Append(free_q, p) ELSE free_q

(* ownCheckGraphCompleted for the last leaf node: what it does to the graph. *)
CompleteGraph(l, p, action) ==
  /\ host.at = "idle" /\ <<l, p>> \in running
  /\ complete_leaf_nodes[p] + 1 = NumLeafNodes
  /\ LET submitted == submitted_count - 1
         count == TakenOver(submitted)
         state == StateAfterRun(p)
     IN /\ submitted_count' = submitted
        /\ schedule_pending_count' = LeftPending(count)
        /\ desc_state' = [desc_state EXCEPT ![p] = state]
        /\ graph_state' = IF submitted = 0 THEN state ELSE graph_state
        /\ all_graph_completed_event' = (AllCompleted(submitted, count) \/ all_graph_completed_event)
        /\ host' = [at |-> IF count > 0 THEN "reschedule"
                           ELSE IF action = "ABANDON" THEN "abandon" ELSE "idle",
                    count |-> count, abandon |-> ToAbandon(p, action)]
  /\ free_q' = FreePipe(p)
  /\ complete_leaf_nodes' = [complete_leaf_nodes EXCEPT ![p] = LeafCountAfterRun(p)]
  /\ running' = running \ {<<l, p>>}

(* The execution is complete. *)
GraphCompletes(l, p, action) ==
  /\ CompleteGraph(l, p, action)
  /\ completed' = completed + 1
  /\ abandoned' = [abandoned EXCEPT ![p] = @ \/ action = "ABANDON"]
  /\ last_abandoned' = abandoned'[p]
  /\ UNCHANGED <<callers, requested, goal>>

(* After it let the lock go: schedule what was pending. *)
Reschedule ==
  /\ host.at = "reschedule"
  /\ ScheduleGraph(host.count)
  /\ host' = [host EXCEPT !.at = IF host.abandon # {} THEN "abandon" ELSE "idle",
                          !.count = 0]
  /\ UNCHANGED <<callers, requested, completed, goal, last_abandoned>>

(* ownTargetSetGraphStateAbandon, without the lock. *)
SetAbandon ==
  /\ host.at = "abandon"
  /\ desc_state' = [p \in Pipe |-> IF p \in host.abandon THEN "ABANDONED" ELSE desc_state[p]]
  /\ host' = HostIdle
  /\ UNCHANGED <<free_q, submitted_count, schedule_pending_count, graph_state,
                 complete_leaf_nodes, all_graph_completed_event, running>>
  /\ UNCHANGED <<callers, history>>

(* The callback of a node that is not a leaf ends in ABANDON: the leaf nodes *)
(* that depend on the node have yet to complete.                             *)
InnerAbandon(p) ==
  /\ InnerAbandons
  /\ host.at = "idle" /\ p \in Busy
  /\ desc_state' = [desc_state EXCEPT ![p] = "ABANDONED"]
  /\ abandoned' = [abandoned EXCEPT ![p] = TRUE]
  /\ UNCHANGED <<free_q, submitted_count, schedule_pending_count, graph_state,
                 complete_leaf_nodes, all_graph_completed_event, running>>
  /\ UNCHANGED <<host, callers, requested, completed, goal, last_abandoned>>

-----------------------------------------------------------------------------

CallerStep(c) ==
  \/ ScheduleCall(c) \/ Schedule(c)
  \/ WaitCall(c) \/ WaitEvent(c) \/ WaitTimeout(c) \/ WaitReturn(c)

HostTask ==
  \/ \E l \in Leaf, p \in Pipe, action \in LeafActions :
       LeafCompletes(l, p, action) \/ GraphCompletes(l, p, action)
  \/ Reschedule \/ SetAbandon

Next == HostTask \/ (\E c \in Caller : CallerStep(c)) \/ (\E p \in Pipe : InnerAbandon(p))

Spec == Init /\ [][Next]_vars

(***************************************************************************)
(* The HOST task waits on its queue only when it is empty, and the nodes   *)
(* that run complete; a thread inside a call goes on with it.              *)
(***************************************************************************)
Fairness ==
  /\ WF_vars(HostTask)
  /\ \A c \in Caller : WF_vars(Schedule(c)) /\ WF_vars(WaitEvent(c)) /\ WF_vars(WaitReturn(c))

FairSpec == Spec /\ Fairness

-----------------------------------------------------------------------------

States == {"VERIFIED", "RUNNING", "COMPLETED", "ABANDONED"}
Statuses == {"SUCCESS", "NOT_SUPPORTED", "EVENT_TIMEOUT", "ABANDONED"}

(* Types and ranges; no more leaf nodes have completed than there are. *)
TypeOK ==
  /\ free_q \in Seq(Pipe)
  /\ submitted_count \in Nat /\ schedule_pending_count \in Nat
  /\ graph_state \in States
  /\ desc_state \in [Pipe -> States]
  /\ complete_leaf_nodes \in [Pipe -> 0 .. NumLeafNodes - 1]
  /\ all_graph_completed_event \in BOOLEAN
  /\ running \subseteq Leaf \X Pipe
  /\ host \in [at : {"idle", "reschedule", "abandon"}, count : Nat, abandon : SUBSET Pipe]
  /\ pc \in [Caller -> {"idle", "schedule", "waiting", "woken"}]
  /\ num \in [Caller -> Nat]
  /\ fresh \in [Caller -> BOOLEAN]
  /\ ret \in [Caller -> Statuses]
  /\ requested \in Nat /\ completed \in Nat
  /\ goal \in [Caller -> Nat]
  /\ abandoned \in [Pipe -> BOOLEAN] /\ last_abandoned \in BOOLEAN

(***************************************************************************)
(* A pipeline id is either free, and then once in free_q, or it runs: an   *)
(* id given out twice would run two executions on the same node            *)
(* descriptors, one that is in neither place is lost for good.             *)
(***************************************************************************)
PipesPartitioned ==
  /\ \A i, j \in 1 .. Len(free_q) : free_q[i] = free_q[j] => i = j
  /\ {free_q[i] : i \in 1 .. Len(free_q)} = Pipe \ Busy
  /\ Len(free_q) + submitted_count = Depth

(***************************************************************************)
(* No request is lost or executed twice, across the hand-over of pending   *)
(* requests from the graph to the HOST task and back while other threads   *)
(* schedule: each is completed, runs, is pending, or is in the HOST task's *)
(* hands.                                                                  *)
(***************************************************************************)
RequestsConserved ==
  requested = completed + submitted_count + schedule_pending_count + host.count

(***************************************************************************)
(* Requests stay pending only while an execution runs whose completion     *)
(* will look at them again; nothing else ever does.                        *)
(***************************************************************************)
PendingHasCarrier == schedule_pending_count > 0 => submitted_count > 0

(***************************************************************************)
(* A thread that vxWaitGraph let through finds every execution complete    *)
(* that was requested before it began to wait: "vxWaitGraph returns only   *)
(* when the last scheduled execution completes" (vx_api.h:979-981).        *)
(***************************************************************************)
WaitCoversRequests == \A c \in Caller : pc[c] = "woken" => completed >= goal[c]

(***************************************************************************)
(* With one thread that schedules and waits, a wait that ends tells        *)
(* whether a callback abandoned the execution that completed last:         *)
(* VX_ERROR_GRAPH_ABANDONED "Indicates that the graph is stopped due to an *)
(* error or a callback that abandoned execution" (vx_types.h:382).         *)
(***************************************************************************)
AbandonReported ==
  [][\A c \in Caller : pc[c] = "woken" /\ pc'[c] = "idle" =>
       (ret'[c] = "ABANDONED" <=> last_abandoned)]_vars

(***************************************************************************)
(* Every execution requested completes, also those that had to stay        *)
(* pending.  The requests are bounded here, so that each of them completes *)
(* exactly if the completions always catch up with the requests.           *)
(***************************************************************************)
RequestsComplete == requested > completed ~> requested = completed

(* A thread alone with the graph that waits for what it scheduled gets to    *)
(* the end of its wait: no completion event is missed or cleared for good.   *)
WaitEnds == \A c \in Caller : pc[c] = "waiting" ~> pc[c] # "waiting"
=============================================================================

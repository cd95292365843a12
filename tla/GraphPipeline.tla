--------------------------- MODULE GraphPipeline ---------------------------
(***************************************************************************)
(* Execution of a pipelined graph: the target tasks of vx_target.c run the *)
(* nodes, vx_target_acquire_parameters.c takes their parameters from the   *)
(* data reference queues and gives them back, vx_data_ref_queue.c feeds    *)
(* the queues from the application, and GraphSchedule starts executions    *)
(* and counts completions.                                                 *)
(*                                                                         *)
(* A node has one descriptor per pipeline id.  A target task handles one   *)
(* descriptor after the other; a descriptor that finds its predecessor in  *)
(* the pipeline or a queue blocked is left aside, and whoever unblocks it  *)
(* puts it into the job queue of its target again.  A step is what happens *)
(* under one lock, or one access to memory that other tasks use.           *)
(***************************************************************************)
EXTENDS Naturals, Sequences, FiniteSets, SequencesExt

CONSTANTS
  Node, Target,   \* nodes; target tasks that run nodes
  Notified,       \* nodes with a callback or a registered event
  TargetOf,       \* the target of each node
  DataRefQ,       \* data references of the graph that have a queue
  GraphParam,     \* those that are graph parameters with queueing enabled
  Param,          \* the queued parameters of each node, in order: data
                  \* reference and whether it is an input
  Param0,         \* the graph parameter whose enqueue schedules the graph
  Ref,            \* references (buffers)
  Buffers,        \* the buffers of each data reference, in order
  App, Depth, FreeQSize,  \* as in GraphSchedule
  JobQueueSize,   \* TIVX_TARGET_MAX_JOB_QUEUE_DEPTH
  MaxBlocked,     \* TIVX_OBJ_DESC_QUEUE_MAX_BLOCKED_NODES
  MaxRequests     \* bound of the model: graph executions ever requested

ASSUME SizeAssumption ==
  /\ Depth \in Nat \ {0} /\ FreeQSize \in Nat /\ Depth <= FreeQSize
  /\ JobQueueSize \in Nat /\ MaxBlocked \in Nat /\ MaxRequests \in Nat

VARIABLES
  free_q, submitted_count, schedule_pending_count, graph_state, desc_state,
  complete_leaf_nodes, all_graph_completed_event, running, host, pc, num,
  fresh, ret, requested, completed, goal, abandoned, last_abandoned,
  executed,   \* node descriptors with TIVX_NODE_FLAG_IS_EXECUTED
  state,      \* node_obj_desc->state
  blocked_node_id,  \* node_obj_desc->blocked_node_id
  data_ref_q, \* per data reference and pipeline id: acquired, ref, done count
  ref_done,   \* in_node_done_cnt of each reference
  acquire_q,  \* queue that nodes acquire a data reference from
  release_q,  \* queue they release it to, when the application takes it back
  blocked_on, \* node descriptors blocked on the acquire queue
  job_q,      \* job queue of each target
  task,       \* per target task: where it is with which descriptor
  app,        \* per application thread: descriptors it has yet to trigger
  starting,   \* descriptors of head nodes that ownGraphScheduleGraph has
              \* yet to trigger; until then it keeps the graph lock
  starter,    \* the thread that was in ownGraphScheduleGraph last
  owned,      \* references the application holds
  frame,      \* history: number of the execution on each pipeline id
  content,    \* history: number of the execution whose data a buffer holds
  fed,        \* history: references enqueued at each graph parameter
  last_frame  \* history: number of the execution each node ran last

Pipe == 0 .. Depth - 1
Desc == Node \X Pipe
None == <<"none">>

Consumers(q) == {n \in Node : \E i \in DOMAIN Param[n] : Param[n][i] = <<q, TRUE>>}
Producers(q) == {n \in Node : \E i \in DOMAIN Param[n] : Param[n][i] = <<q, FALSE>>}
InNodes(n) == UNION {Producers(q) : q \in {r \in DataRefQ : n \in Consumers(r)}}
OutNodes(n) == {m \in Node : n \in InNodes(m)}
HeadNodes == {n \in Node : InNodes(n) = {}}
LeafNodes == {n \in Node : OutNodes(n) = {}}

(***************************************************************************)
(* vxVerifyGraph refuses a reference with two writers                      *)
(* (vx_graph_verify.c:800) and a cycle (:1918).  A node of the model has a *)
(* parameter with a queue and no reference at two of its parameters.       *)
(***************************************************************************)
ASSUME GraphAssumption ==
  /\ IsFiniteSet(Node) /\ Node # {}
  /\ Param \in [Node -> Seq(DataRefQ \X BOOLEAN)]
  /\ \A n \in Node :
       /\ Param[n] # <<>>
       /\ \A i, j \in DOMAIN Param[n] : Param[n][i][1] = Param[n][j][1] => i = j
  /\ \A q \in DataRefQ : \A m, n \in Producers(q) : m = n
  /\ \A X \in SUBSET Node : X # {} => \E n \in X : OutNodes(n) \cap X = {}

(* The HOST runs no node of the graph. *)
ASSUME TargetAssumption ==
  /\ TargetOf \in [Node -> Target] /\ "HOST" \notin Target
  /\ Notified \subseteq Node

(* The buffers of different data references are different. *)
ASSUME RefAssumption ==
  /\ GraphParam \subseteq DataRefQ /\ Param0 \in GraphParam
  /\ Buffers \in [DataRefQ -> Seq(Ref)]
  /\ \A q \in DataRefQ : IsInjective(Buffers[q])
  /\ \A p, q \in DataRefQ : p # q => Range(Buffers[p]) \cap Range(Buffers[q]) = {}

S == INSTANCE GraphSchedule WITH
       Caller <- App, Leaf <- LeafNodes, Mode <- "QUEUE_AUTO",
       LeafAbandons <- FALSE, InnerAbandons <- FALSE, Timeouts <- FALSE

(* The variables of GraphSchedule. *)
graph == <<free_q, submitted_count, schedule_pending_count, graph_state,
           desc_state, complete_leaf_nodes, all_graph_completed_event, running>>
history == <<requested, completed, goal, abandoned, last_abandoned>>
schedule == <<graph, host, pc, num, fresh, ret, history>>

nodes == <<executed, state, blocked_node_id>>
refs == <<data_ref_q, ref_done, acquire_q, release_q, blocked_on>>
data == <<content, fed, last_frame>>
launch == <<starting, starter>>
vars == <<schedule, nodes, refs, job_q, task, app, launch, owned, frame, data>>

TaskIdle == [at |-> "idle", desc |-> None, i |-> 0, prm |-> <<>>, send |-> <<>>, retrigger |-> None]
Empty == [acquired |-> FALSE, ref |-> "none", done |-> 0]

Init ==
  /\ S!Init
  /\ executed = {}
  /\ state = [d \in Desc |-> "IDLE"]
  /\ blocked_node_id = [d \in Desc |-> None]
  /\ data_ref_q = [q \in DataRefQ |-> [p \in Pipe |-> Empty]]
  /\ ref_done = [r \in Ref |-> 0]
  /\ acquire_q = [q \in DataRefQ |-> IF q \in GraphParam THEN <<>> ELSE Buffers[q]]
  /\ release_q = [q \in GraphParam |-> <<>>]
  /\ blocked_on = [q \in DataRefQ |-> <<>>]
  /\ job_q = [t \in Target \cup {"HOST"} |-> <<>>]
  /\ task = [t \in Target |-> TaskIdle]
  /\ app = [a \in App |-> <<>>]
  /\ starting = <<>> /\ starter = "HOST"
  /\ owned = UNION {Range(Buffers[q]) : q \in GraphParam}
  /\ frame = [p \in Pipe |-> 0]
  /\ content = [r \in Ref |-> 0]
  /\ fed = [q \in GraphParam |-> 0]
  /\ last_frame = [n \in Node |-> 0]

(* ownTargetQueueObjDesc: a full queue refuses the descriptor. *)
Put(jobs, t, d) ==
  IF Len(jobs[t]) < JobQueueSize THEN [jobs EXCEPT ![t] = Append(@, d)] ELSE jobs

(* ownTargetTriggerNode *)
Trigger(jobs, d) == Put(jobs, TargetOf[d[1]], d)

-----------------------------------------------------------------------------
(* The application. *)

Unlocked == starting = <<>>

(* A thread in ownGraphScheduleGraph does nothing else. *)
MayGoOn(x) == Unlocked \/ starter # x

(* ownObjDescQueueExtractBlockedNodes, of the nodes blocked on q. *)
Extract_Kept(q) == blocked_on
Extract(q) == [blocked_on EXCEPT ![q] = <<>>]

(* ownDataRefQueueEnqueueReadyRef under the queue lock; the nodes blocked on *)
(* the queue are triggered afterwards.                                       *)
EnqueueReadyRef(a, q, r) ==
  /\ pc[a] = "idle" /\ app[a] = <<>> /\ MayGoOn(a)
  /\ r \in owned \cap Range(Buffers[q])
  /\ q = Param0 => requested < MaxRequests
  /\ owned' = owned \ {r}
  /\ acquire_q' = [acquire_q EXCEPT ![q] = Append(@, r)]
  /\ app' = [app EXCEPT ![a] = blocked_on[q]]
  /\ blocked_on' = Extract(q)
  /\ IF q = Param0
     THEN pc' = [pc EXCEPT ![a] = "schedule"] /\ num' = [num EXCEPT ![a] = 1]
     ELSE UNCHANGED <<pc, num>>
  /\ fed' = [fed EXCEPT ![q] = @ + 1]
  /\ content' = [content EXCEPT ![r] = fed[q] + 1]
  /\ UNCHANGED <<graph, host, fresh, ret, history>>
  /\ UNCHANGED <<nodes, data_ref_q, ref_done, release_q, job_q, task, launch, frame, last_frame>>

AppTrigger(a) ==
  /\ app[a] # <<>>
  /\ job_q' = Trigger(job_q, Head(app[a]))
  /\ app' = [app EXCEPT ![a] = Tail(@)]
  /\ UNCHANGED <<schedule, nodes, refs, task, launch, owned, frame, data>>

(* The head nodes, in the order they are scheduled. *)
Heads == SetToSeq(HeadNodes)

(* Their descriptors when the first k free pipeline ids start. *)
Scheduled(k) ==
  LET heads == Heads
  IN [j \in 1 .. k * Len(heads) |->
        <<heads[((j - 1) % Len(heads)) + 1], free_q[((j - 1) \div Len(heads)) + 1]>>]

(* What starting executions does to the nodes: ownGraphClearState for each   *)
(* pipeline id that is taken, which nobody looks at before its head nodes    *)
(* are triggered, one ownNodeKernelSchedule after the other.                 *)
StartNodes(x, n) ==
  LET k == S!Started(n)
      taken == {free_q[i] : i \in 1 .. k}
  IN /\ executed' = {d \in executed : d[2] \notin taken}
     /\ starting' = Scheduled(k) /\ starter' = x
     /\ frame' = [p \in Pipe |->
                    IF p \in taken
                    THEN completed + submitted_count + CHOOSE i \in 1 .. k : free_q[i] = p
                    ELSE frame[p]]

ScheduleAfterEnqueue(a) ==
  /\ app[a] = <<>> /\ Unlocked
  /\ S!Schedule(a)
  /\ StartNodes(a, num[a])
  /\ UNCHANGED <<state, blocked_node_id, refs, job_q, task, app, owned, data>>

(* ownNodeKernelSchedule, under the graph lock. *)
KernelSchedule ==
  /\ starting # <<>>
  /\ job_q' = Trigger(job_q, Head(starting))
  /\ starting' = Tail(starting)
  /\ UNCHANGED <<schedule, nodes, refs, task, app, starter, owned, frame, data>>

(* ownDataRefQueueDequeueDoneRef *)
DequeueDoneRef(q) ==
  /\ release_q[q] # <<>>
  /\ owned' = owned \cup {Head(release_q[q])}
  /\ release_q' = [release_q EXCEPT ![q] = Tail(@)]
  /\ UNCHANGED <<schedule, nodes, data_ref_q, ref_done, acquire_q, blocked_on>>
  /\ UNCHANGED <<job_q, task, app, launch, frame, data>>

-----------------------------------------------------------------------------
(* The HOST task: completions of nodes, in the order they reach its queue. *)

(* That of a leaf node counts, under the graph lock. *)
HostCompletes ==
  /\ host.at = "idle" /\ job_q["HOST"] # <<>> /\ Unlocked
  /\ LET d == Head(job_q["HOST"])
     IN S!LeafCompletes(d[1], d[2], "CONTINUE") \/ S!GraphCompletes(d[1], d[2], "CONTINUE")
  /\ job_q' = [job_q EXCEPT !["HOST"] = Tail(@)]
  /\ UNCHANGED <<nodes, refs, task, app, launch, owned, frame, data>>

(* That of another node only has its callback run and its event sent. *)
HostNotifies ==
  /\ host.at = "idle" /\ job_q["HOST"] # <<>> /\ MayGoOn("HOST")
  /\ Head(job_q["HOST"])[1] \notin LeafNodes
  /\ job_q' = [job_q EXCEPT !["HOST"] = Tail(@)]
  /\ UNCHANGED <<schedule, nodes, refs, task, app, launch, owned, frame, data>>

HostReschedules ==
  /\ Unlocked
  /\ S!Reschedule
  /\ StartNodes("HOST", host.count)
  /\ UNCHANGED <<state, blocked_node_id, refs, job_q, task, app, owned, data>>

-----------------------------------------------------------------------------
(* The target tasks. *)

(* prev_pipe_node_id; a node that is not pipelined has no predecessor *)
PrevPipe(d) == <<d[1], (d[2] + Depth - 1) % Depth>>

(* A descriptor that is taken for the first time, behind a blocked one. *)
WaitsForPrev_Never(d) == FALSE
WaitsForPrev(d) == Depth > 1 /\ state[d] = "IDLE" /\ state[PrevPipe(d)] # "IDLE"

At(t, at) == task[t].at = at

(***************************************************************************)
(* A task takes a descriptor.  It ignores one that executed already, and   *)
(* leaves one aside whose predecessor in the pipeline is blocked.          *)
(***************************************************************************)
Take(t) ==
  /\ At(t, "idle") /\ job_q[t] # <<>>
  /\ job_q' = [job_q EXCEPT ![t] = Tail(@)]
  /\ LET d == Head(job_q[t])
         start == [TaskIdle EXCEPT !.at = "acquire", !.desc = d, !.i = 1]
     IN \/ /\ d \in executed
           /\ UNCHANGED <<state, blocked_node_id, task>>
        \/ /\ d \notin executed /\ WaitsForPrev(d)
           /\ state' = [state EXCEPT ![d] = "BLOCKED"]
           /\ blocked_node_id' = [blocked_node_id EXCEPT ![PrevPipe(d)] = d]
           /\ UNCHANGED task
        \/ /\ d \notin executed /\ ~WaitsForPrev(d)
           /\ state' = IF Depth > 1 THEN [state EXCEPT ![d] = "IDLE"] ELSE state
           /\ task' = [task EXCEPT ![t] = start]
           /\ UNCHANGED blocked_node_id
  /\ UNCHANGED <<schedule, executed, refs, app, launch, owned, frame, data>>

(***************************************************************************)
(* ownTargetNodeDescAcquireParameter, one parameter after the other, until *)
(* one is not to be had.                                                   *)
(***************************************************************************)
Acquire(t) ==
  /\ At(t, "acquire")
  /\ LET d == task[t].desc
         q == Param[d[1]][task[t].i][1]
         entry == data_ref_q[q][d[2]]
         last == task[t].i = Len(Param[d[1]])
         Got(r) == [task EXCEPT ![t].at = IF last THEN "execute" ELSE "acquire",
                                ![t].i = @ + 1, ![t].prm = Append(@, r)]
     IN \/ /\ entry.acquired
           /\ task' = Got(entry.ref)
           /\ UNCHANGED <<state, data_ref_q, ref_done, acquire_q, blocked_on>>
        \/ /\ ~entry.acquired /\ acquire_q[q] # <<>>
           /\ LET r == Head(acquire_q[q])
              IN /\ data_ref_q' = [data_ref_q EXCEPT ![q][d[2]] =
                                     [acquired |-> TRUE, ref |-> r, done |-> 0]]
                 /\ ref_done' = [ref_done EXCEPT ![r] = 0]
                 /\ task' = Got(r)
           /\ acquire_q' = [acquire_q EXCEPT ![q] = Tail(@)]
           /\ UNCHANGED <<state, blocked_on>>
        \/ /\ ~entry.acquired /\ acquire_q[q] = <<>>
           /\ blocked_on' = [blocked_on EXCEPT ![q] =
                               IF Len(@) < MaxBlocked THEN Append(@, d) ELSE @]
           /\ state' = [state EXCEPT ![d] = "BLOCKED"]
           /\ task' = [task EXCEPT ![t] = TaskIdle]
           /\ UNCHANGED <<data_ref_q, ref_done, acquire_q>>
  /\ UNCHANGED <<schedule, executed, blocked_node_id, release_q, job_q, app, launch, owned,
                 frame, data>>

(* The descriptor that waits behind this one in the pipeline. *)
Retrigger_Never(d) == None
Retrigger(d) == blocked_node_id[d]

(* The kernel has run: its outputs hold the data of this execution.          *)
(* ownTargetNodeDescNodeMarkComplete                                         *)
Complete(t) ==
  /\ At(t, "execute")
  /\ LET d == task[t].desc
         outputs == {task[t].prm[i] : i \in {j \in DOMAIN Param[d[1]] : ~Param[d[1]][j][2]}}
     IN /\ content' = [r \in Ref |-> IF r \in outputs THEN frame[d[2]] ELSE content[r]]
        /\ last_frame' = [last_frame EXCEPT ![d[1]] = frame[d[2]]]
        /\ executed' = executed \cup {d}
        /\ state' = [state EXCEPT ![d] = "IDLE"]
        /\ blocked_node_id' = [blocked_node_id EXCEPT ![d] = None]
        /\ task' = [task EXCEPT ![t].at = "release", ![t].i = 1, ![t].retrigger = Retrigger(d)]
  /\ UNCHANGED <<schedule, refs, job_q, app, launch, owned, frame, fed>>

(* The nodes blocked on a queue that was fed, one after the other.           *)
TaskTrigger(t) ==
  /\ task[t].send # <<>>
  /\ job_q' = Trigger(job_q, Head(task[t].send))
  /\ task' = [task EXCEPT ![t].send = Tail(@)]
  /\ UNCHANGED <<schedule, nodes, refs, app, launch, owned, frame, data>>

(* The reference is free for others once the last consumer is done with it. *)
LastUser_First(count, users) == count >= 1
LastUser(count, users) == count = users

StaysAcquired_Always(entry, release) == entry.acquired
StaysAcquired(entry, release) == entry.acquired /\ ~release

(***************************************************************************)
(* ownTargetNodeDescReleaseParameter: an input counts down the consumers,  *)
(* once in the entry of the pipeline id and once in the reference itself;  *)
(* the last one gives the reference back.  An output goes back when no     *)
(* node consumes it.                                                       *)
(***************************************************************************)
Release(t) ==
  /\ At(t, "release") /\ task[t].send = <<>>
  /\ LET d == task[t].desc
         q == Param[d[1]][task[t].i][1]
         r == task[t].prm[task[t].i]
         input == Param[d[1]][task[t].i][2]
         users == Cardinality(Consumers(q))
         entry == data_ref_q[q][d[2]]
         release == IF input THEN LastUser(entry.done + 1, users) ELSE users = 0
         to_queue == IF input THEN LastUser(ref_done[r] + 1, users) ELSE users = 0
         last == task[t].i = Len(Param[d[1]])
     IN /\ data_ref_q' = [data_ref_q EXCEPT ![q][d[2]] =
                            [acquired |-> StaysAcquired(entry, release),
                             ref |-> IF input \/ users = 0 THEN entry.ref ELSE r,
                             done |-> IF input THEN entry.done + 1 ELSE entry.done]]
        /\ ref_done' = [ref_done EXCEPT ![r] = IF to_queue THEN 0 ELSE IF input THEN @ + 1 ELSE @]
        /\ IF to_queue /\ q \notin GraphParam
           THEN /\ acquire_q' = [acquire_q EXCEPT ![q] = Append(@, r)]
                /\ blocked_on' = Extract(q)
           ELSE UNCHANGED <<acquire_q, blocked_on>>
        /\ release_q' = IF to_queue /\ q \in GraphParam
                        THEN [release_q EXCEPT ![q] = Append(@, r)] ELSE release_q
        /\ task' = [task EXCEPT ![t].at = IF last THEN "send_complete" ELSE "release",
                                ![t].i = @ + 1,
                                ![t].send = IF to_queue /\ q \notin GraphParam
                                            THEN blocked_on[q] ELSE <<>>]
  /\ UNCHANGED <<schedule, nodes, job_q, app, launch, owned, frame, data>>

(* ownTargetNodeDescSendComplete: the HOST is told of leaf nodes, and of     *)
(* those with TIVX_NODE_FLAG_IS_USER_CALLBACK.                               *)
TellsHost(n) == n \in LeafNodes \cup Notified

SendComplete(t) ==
  /\ At(t, "send_complete") /\ task[t].send = <<>>
  /\ job_q' = IF TellsHost(task[t].desc[1]) THEN Put(job_q, "HOST", task[t].desc) ELSE job_q
  /\ task' = [task EXCEPT ![t].at = "trigger_next", ![t].i = 1]
  /\ UNCHANGED <<schedule, nodes, refs, app, launch, owned, frame, data>>

(***************************************************************************)
(* ownTargetNodeDescCanNodeExecute reads one flag after the other.  One    *)
(* that is not set decides when it is read; and as none is cleared before  *)
(* the execution is complete, those found set are all set at the last.     *)
(* That the other predecessor, on another target, lets the execution       *)
(* complete and start anew in between is left out.                         *)
(***************************************************************************)
CanNodeExecute_Any(m, p) == \E n \in InNodes(m) : <<n, p>> \in executed
CanNodeExecute(m, p) == \A n \in InNodes(m) : <<n, p>> \in executed

(* The successors of a node, in the order they are triggered. *)
NextNodes == [n \in Node |-> SetToSeq(OutNodes(n))]
Successors(n) == NextNodes[n]

(* ownTargetNodeDescTriggerNextNodes, one successor after the other, and at  *)
(* the end the descriptor of the next pipeline id that waits for this one.   *)
TriggerNext(t) ==
  /\ At(t, "trigger_next")
  /\ LET d == task[t].desc
         next == Successors(d[1])
         i == task[t].i
     IN \/ /\ i <= Len(next)
           /\ job_q' = IF CanNodeExecute(next[i], d[2]) THEN Trigger(job_q, <<next[i], d[2]>>) ELSE job_q
           /\ task' = [task EXCEPT ![t].i = @ + 1]
        \/ /\ i > Len(next)
           /\ job_q' = IF task[t].retrigger # None THEN Trigger(job_q, task[t].retrigger) ELSE job_q
           /\ task' = [task EXCEPT ![t] = TaskIdle]
  /\ UNCHANGED <<schedule, nodes, refs, app, launch, owned, frame, data>>

-----------------------------------------------------------------------------

TargetTask(t) ==
  \/ Take(t) \/ Acquire(t) \/ Complete(t) \/ TaskTrigger(t)
  \/ Release(t) \/ SendComplete(t) \/ TriggerNext(t)

Host == HostCompletes \/ HostNotifies \/ HostReschedules

AppStep(a) ==
  \/ \E q \in GraphParam, r \in Ref : EnqueueReadyRef(a, q, r)
  \/ AppTrigger(a) \/ ScheduleAfterEnqueue(a)

Dequeue == \E q \in GraphParam : DequeueDoneRef(q)

Next ==
  \/ \E t \in Target : TargetTask(t)
  \/ Host
  \/ \E a \in App : AppStep(a)
  \/ KernelSchedule
  \/ Dequeue

Spec == Init /\ [][Next]_vars

(* Tasks run as long as they have work, kernels end, and the application     *)
(* takes references back and enqueues them again.                            *)
Fairness ==
  /\ \A t \in Target : WF_vars(TargetTask(t))
  /\ WF_vars(Host)
  /\ \A a \in App : WF_vars(AppStep(a))
  /\ WF_vars(KernelSchedule)
  /\ WF_vars(Dequeue)

FairSpec == Spec /\ Fairness

-----------------------------------------------------------------------------

Entry == [acquired : BOOLEAN, ref : Ref \cup {"none"}, done : Nat]
Task ==
  [at : {"idle", "acquire", "execute", "release", "send_complete", "trigger_next"},
   desc : Desc \cup {None}, i : Nat, prm : Seq(Ref), send : Seq(Desc),
   retrigger : Desc \cup {None}]

(* Types of the node descriptors, queues and tasks. *)
TypeOK ==
  /\ S!TypeOK
  /\ executed \subseteq Desc
  /\ state \in [Desc -> {"IDLE", "BLOCKED"}]
  /\ blocked_node_id \in [Desc -> Desc \cup {None}]
  /\ data_ref_q \in [DataRefQ -> [Pipe -> Entry]]
  /\ ref_done \in [Ref -> Nat]
  /\ acquire_q \in [DataRefQ -> Seq(Ref)] /\ release_q \in [GraphParam -> Seq(Ref)]
  /\ blocked_on \in [DataRefQ -> Seq(Desc)]
  /\ job_q \in [Target \cup {"HOST"} -> Seq(Desc)]
  /\ \A t \in Target \cup {"HOST"} : Len(job_q[t]) <= JobQueueSize
  /\ task \in [Target -> Task]
  /\ app \in [App -> Seq(Desc)] /\ starting \in Seq(Desc)
  /\ owned \subseteq Ref
  /\ frame \in [Pipe -> Nat] /\ content \in [Ref -> Nat]
  /\ fed \in [GraphParam -> Nat] /\ last_frame \in [Node -> Nat]

(* How often an element is in a sequence. *)
Occurrences(s, e) == Cardinality({i \in DOMAIN s : s[i] = e})

(***************************************************************************)
(* A reference is in one place: with the application, in a queue, or       *)
(* acquired by an execution.  Two executions that hold one buffer would    *)
(* overwrite each other's data; one in no place starves the pipeline.      *)
(***************************************************************************)
RefInOnePlace ==
  \A q \in DataRefQ : \A r \in Range(Buffers[q]) :
    1 = (IF r \in owned THEN 1 ELSE 0)
        + Occurrences(acquire_q[q], r)
        + (IF q \in GraphParam THEN Occurrences(release_q[q], r) ELSE 0)
        + Cardinality({p \in Pipe : data_ref_q[q][p].acquired /\ data_ref_q[q][p].ref = r})

(* The tasks that run a kernel. *)
Executing == {t \in Target : At(t, "execute")}

(***************************************************************************)
(* While a kernel runs, each of its inputs holds the data of the execution *)
(* it belongs to: what a predecessor wrote there in this execution, or     *)
(* what the application enqueued for it, and nothing written over it.      *)
(***************************************************************************)
InputsIntact ==
  \A t \in Executing :
    LET d == task[t].desc
    IN \A i \in DOMAIN Param[d[1]] :
         Param[d[1]][i][2] => content[task[t].prm[i]] = frame[d[2]]

(***************************************************************************)
(* A node runs the executions in the order they were started: "previous    *)
(* node in pipeline is blocked, so block this pipeline node until previous *)
(* pipeline completes" (vx_target.c:542).                                  *)
(***************************************************************************)
RunsInOrder ==
  \A t \in Executing : LET d == task[t].desc IN frame[d[2]] = last_frame[d[1]] + 1

(* The HOST hears of the completion of a leaf node once for each execution,  *)
(* also when it hears of other nodes in between.                             *)
LeafToldOnce ==
  \A i, j \in DOMAIN job_q["HOST"] :
    job_q["HOST"][i][1] \in LeafNodes =>
      /\ job_q["HOST"][i] \in running
      /\ job_q["HOST"][i] = job_q["HOST"][j] => i = j

(***************************************************************************)
(* The HOST runs the callback of a node, and sends its event, before the   *)
(* execution it belongs to is complete: "first we let any node events to   *)
(* go thru before sending graph events" (vx_target.c:1073).  What the      *)
(* callback abandons is this execution and not a later one of its id.      *)
(***************************************************************************)
CallbackInTime == \A d \in Range(job_q["HOST"]) : d[2] \in S!Busy

(***************************************************************************)
(* No completion reaches the HOST twice, or when its execution is over.    *)
(***************************************************************************)
CompletionExpected == LeafToldOnce /\ CallbackInTime

(***************************************************************************)
(* The places of a descriptor between its trigger and the end of its       *)
(* kernel: a job queue, the blocked list of a queue, behind its            *)
(* predecessor in the pipeline, with the task that runs it, or on the way  *)
(* from one of these to the next in the hands of a thread or task.         *)
(***************************************************************************)
Kinds == {"job", "blocked", "behind", "task", "app", "start", "send", "retrigger"}

Of(kind) ==
  CASE kind \in {"job", "task", "send", "retrigger"} -> Target
    [] kind = "blocked" -> DataRefQ
    [] kind = "behind" -> Desc
    [] kind = "app" -> App
    [] kind = "start" -> {"graph"}

Working(t) == task[t].at \in {"acquire", "execute"}

(* The descriptors in one place. *)
Holds(kind, x) ==
  CASE kind = "job" -> Range(job_q[x])
    [] kind = "blocked" -> Range(blocked_on[x])
    [] kind = "behind" -> {blocked_node_id[x]} \ {None}
    [] kind = "task" -> IF Working(x) THEN {task[x].desc} ELSE {}
    [] kind = "app" -> Range(app[x])
    [] kind = "start" -> Range(starting)
    [] kind = "send" -> Range(task[x].send)
    [] kind = "retrigger" -> {task[x].retrigger} \ {None}

(***************************************************************************)
(* A descriptor is in one place at a time, and there once.  One that is    *)
(* triggered twice may run ahead of its turn.                              *)
(***************************************************************************)
TriggeredOnce ==
  /\ \A t \in Target : IsInjective(job_q[t]) /\ IsInjective(task[t].send)
  /\ \A a \in App : IsInjective(app[a])
  /\ \A q \in DataRefQ : IsInjective(blocked_on[q])
  /\ IsInjective(starting)
  /\ \A k \in Kinds : \A x \in Of(k) : \A d \in Holds(k, x) :
       \A l \in Kinds : \A y \in Of(l) : d \in Holds(l, y) => k = l /\ x = y

(* Every execution that was requested completes.                             *)
RequestsComplete == S!RequestsComplete
=============================================================================

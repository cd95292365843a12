---------------------------- MODULE GraphStream ----------------------------
(***************************************************************************)
(* Streaming of a graph (vx_graph_stream.c): a task of the graph schedules *)
(* it again and again between vxStartGraphStreaming and                    *)
(* vxStopGraphStreaming.  The task lives on a queue of events: what the    *)
(* application asks for, and what tells it to go on.  Without pipelining   *)
(* it waits for each execution and sends itself RUN; with pipelining the   *)
(* HOST task sends STREAMING_EVENT when the trigger node has completed.    *)
(* GraphSchedule is what happens to the graph.                             *)
(*                                                                         *)
(* Its waits for the graph end with the event or, when TIVX_GRAPH_TIMEOUT  *)
(* is set, by the timeout; what follows is the same, whatever still runs.  *)
(***************************************************************************)
EXTENDS Naturals, Sequences, FiniteSets

CONSTANTS
  Waiter,          \* threads that call vxWaitGraph while the graph streams
  Depth,           \* largest pipeline depth
  FreeQSize, Leaf, \* as in GraphSchedule
  EventQueueSize,  \* TIVX_EVENT_QUEUE_MAX_SIZE
  MaxTimeouts      \* bound of the model: waits of the task, and of the release,
                   \* that end by the timeout; 0 if TIVX_GRAPH_TIMEOUT is not set

ASSUME DepthAssumption == Depth \in Nat \ {0} /\ FreeQSize \in Nat /\ Depth <= FreeQSize

ASSUME LeafAssumption == IsFiniteSet(Leaf) /\ Leaf # {}
ASSUME TimeoutAssumption == MaxTimeouts \in Nat

(* Enough for what is ever in the queue at once; the code has 256.           *)
ASSUME EventQueueAssumption == EventQueueSize \in Nat /\ EventQueueSize >= 4

VARIABLES
  free_q, submitted_count, schedule_pending_count, graph_state, desc_state,
  complete_leaf_nodes, all_graph_completed_event, running, host,  \* as in GraphSchedule
  pipeline_depth,  \* graph->pipeline_depth
  trigger,         \* the leaf nodes that wait for the trigger node, or itself
  trigger_is_leaf, \* whether it is itself a leaf node
  untriggered,     \* pipeline ids whose trigger node has yet to complete
  notify,          \* the HOST task is about to send the event of a leaf
  event_q,         \* graph->event_queue, the events that are ready
  stream_state,    \* `state' of the streaming task
  task,            \* where the streaming task is
  executions,      \* graph->streaming_executions, modulo 2
  is_streaming, stop_done, delete_done,  \* fields of the graph
  app,             \* where the application is that starts and stops
  waiter,          \* where the other threads are
  taken,           \* history: another thread took the latest completion
  timeouts         \* history: waits that ended by the timeout

Pipe == 0 .. Depth - 1

(* A graph that streams keeps what it cannot schedule pending, as in the     *)
(* queueing modes (vx_graph_pipeline.c:805-806).                             *)
S == INSTANCE GraphSchedule WITH
       Caller <- Waiter, Mode <- "QUEUE_AUTO", MaxRequests <- 0,
       LeafAbandons <- FALSE, InnerAbandons <- FALSE, Timeouts <- FALSE,
       pc <- <<>>, num <- <<>>, fresh <- <<>>, ret <- <<>>, goal <- <<>>,
       requested <- 0, completed <- 0,
       abandoned <- [p \in Pipe |-> FALSE], last_abandoned <- FALSE

graph == <<free_q, submitted_count, schedule_pending_count, graph_state,
           desc_state, complete_leaf_nodes, all_graph_completed_event, running>>
setup == <<pipeline_depth, trigger, trigger_is_leaf>>
stream == <<stream_state, task, executions>>
control == <<is_streaming, stop_done, delete_done, app>>
vars == <<graph, host, setup, untriggered, notify, event_q, stream, control, waiter, taken, timeouts>>

Pipelining == pipeline_depth > 1

Events == {"START", "STOP", "DELETE", "RUN", "STREAMING_EVENT"}

(* What happens after the graph was released is not modelled.                *)
Exists == app # "released"

(* ownGraphAllocForStreaming, when the graph is verified.                    *)
Init ==
  /\ pipeline_depth \in 1 .. Depth
  /\ trigger \in (SUBSET Leaf) \ {{}} /\ trigger_is_leaf \in BOOLEAN
  /\ trigger_is_leaf => \E l \in Leaf : trigger = {l}
  /\ free_q = [i \in 1 .. pipeline_depth |-> i - 1]
  /\ submitted_count = 0 /\ schedule_pending_count = 0
  /\ graph_state = "VERIFIED" /\ desc_state = [p \in Pipe |-> "VERIFIED"]
  /\ complete_leaf_nodes = [p \in Pipe |-> 0] /\ all_graph_completed_event = FALSE
  /\ running = {} /\ host = S!HostIdle
  /\ untriggered = {} /\ notify = FALSE
  /\ event_q = <<>>
  /\ stream_state = "IDLE" /\ task = "get" /\ executions = 0
  /\ is_streaming = FALSE /\ stop_done = FALSE /\ delete_done = FALSE
  /\ app = "idle"
  /\ waiter = [w \in Waiter |-> "idle"]
  /\ taken = FALSE /\ timeouts = 0

-----------------------------------------------------------------------------

(* ownEventQueueAddEvent: without a free element the event is dropped.       *)
Add(q, event) == IF Len(q) < EventQueueSize THEN Append(q, event) ELSE q

(* The execution feeds STREAMING_EVENT back when its trigger node completes. *)
Schedule(n) ==
  /\ S!ScheduleGraph(n)
  /\ untriggered' = IF Pipelining THEN untriggered \cup {free_q[i] : i \in 1 .. S!Started(n)}
                    ELSE untriggered

NextExecution == executions' = (executions + 1) % 2

(***************************************************************************)
(* The streaming task, one transition of its state machine after the       *)
(* other; the event at the head of the queue selects it.                   *)
(***************************************************************************)
Obtains(event) ==
  /\ Exists /\ task = "get" /\ event_q # <<>> /\ Head(event_q) = event

StartIdle ==
  /\ Obtains("START") /\ stream_state = "IDLE"
  /\ stream_state' = "RUNNING"
  /\ IF Pipelining
     THEN /\ event_q' = Tail(event_q)
          /\ NextExecution
          /\ IF graph_state \in {"VERIFIED", "COMPLETED", "ABANDONED"}
             THEN Schedule(1) ELSE UNCHANGED <<graph, untriggered>>
     ELSE /\ event_q' = Add(Tail(event_q), "RUN")
          /\ UNCHANGED <<graph, untriggered, executions>>
  /\ UNCHANGED <<host, setup, notify, task, control, waiter, taken, timeouts>>

(* Without pipelining: one execution, up to the wait for it, and after it.   *)
RunRunning ==
  /\ Obtains("RUN") /\ stream_state = "RUNNING" /\ ~Pipelining
  /\ event_q' = Tail(event_q)
  /\ Schedule(1)
  /\ task' = "wait_run"
  /\ UNCHANGED <<host, setup, notify, stream_state, executions, control, waiter, taken, timeouts>>

TakeEvent ==
  /\ all_graph_completed_event
  /\ all_graph_completed_event' = FALSE
  /\ UNCHANGED <<free_q, submitted_count, schedule_pending_count, graph_state,
                 desc_state, complete_leaf_nodes, running>>

TimesOut == timeouts < MaxTimeouts /\ timeouts' = timeouts + 1

(* vxWaitGraph ends.  The streaming task prints its status and goes on.      *)
WaitGraphEnds(status) ==
  /\ Exists
  /\ \/ status = "SUCCESS" /\ TakeEvent /\ UNCHANGED timeouts
     \/ status = "EVENT_TIMEOUT" /\ TimesOut /\ UNCHANGED graph

(* The task asks itself for the next execution.                              *)
RunAgain(q) == Add(q, "RUN")

RunWaited(status) ==
  /\ task = "wait_run" /\ WaitGraphEnds(status)
  /\ NextExecution
  /\ event_q' = RunAgain(event_q)
  /\ task' = "get"
  /\ UNCHANGED <<host, setup, untriggered, notify, stream_state, control, waiter, taken>>

(* With pipelining: the next execution.                                      *)
TriggerRunning ==
  /\ Obtains("STREAMING_EVENT") /\ stream_state = "RUNNING" /\ Pipelining
  /\ event_q' = Tail(event_q)
  /\ Schedule(1)
  /\ NextExecution
  /\ UNCHANGED <<host, setup, notify, stream_state, task, control, waiter, taken, timeouts>>

(* With pipelining the executions that run are waited for before the task    *)
(* says that it stopped; without, it waited already.                         *)
WaitsForGraph_Never == FALSE
WaitsForGraph == Pipelining /\ stream_state = "RUNNING"

Stop ==
  /\ Obtains("STOP")
  /\ event_q' = Tail(event_q)
  /\ stream_state' = "IDLE"
  /\ IF WaitsForGraph
     THEN task' = "wait_stop" /\ UNCHANGED stop_done
     ELSE stop_done' = TRUE /\ UNCHANGED task
  /\ UNCHANGED <<graph, host, setup, untriggered, notify, executions>>
  /\ UNCHANGED <<is_streaming, delete_done, app, waiter, taken, timeouts>>

(* The task ends.  One that streams without pipelining waits for the graph,  *)
(* which on a graph that never ran returns at once.                          *)
Delete ==
  /\ Obtains("DELETE")
  /\ event_q' = Tail(event_q)
  /\ IF stream_state = "RUNNING" /\ ~Pipelining /\ graph_state # "VERIFIED"
     THEN task' = "wait_delete" /\ UNCHANGED <<stream_state, delete_done>>
     ELSE task' = "ended" /\ stream_state' = "IDLE" /\ delete_done' = TRUE
  /\ UNCHANGED <<graph, host, setup, untriggered, notify, executions>>
  /\ UNCHANGED <<is_streaming, stop_done, app, waiter, taken, timeouts>>

(* The waits for the graph before the task says that it stopped or ended.    *)
SaysStopped_IfCompleted(status) == status = "SUCCESS"
SaysStopped(status) == TRUE

Waited(status) ==
  /\ task \in {"wait_stop", "wait_delete"} /\ WaitGraphEnds(status)
  /\ IF task = "wait_stop"
     THEN task' = "get" /\ stop_done' = SaysStopped(status)
          /\ UNCHANGED <<stream_state, delete_done>>
     ELSE task' = "ended" /\ stream_state' = "IDLE" /\ delete_done' = TRUE /\ UNCHANGED stop_done
  /\ UNCHANGED <<host, setup, untriggered, notify, event_q, executions>>
  /\ UNCHANGED <<is_streaming, app, waiter, taken>>

(* What the task acts on; every other event is taken off the queue for       *)
(* nothing, as what was under way when streaming stopped.                    *)
ActsOn ==
  {"STOP", "DELETE", IF stream_state = "IDLE" THEN "START"
                     ELSE IF Pipelining THEN "STREAMING_EVENT" ELSE "RUN"}

Ignore ==
  /\ \E event \in Events \ ActsOn : Obtains(event)
  /\ event_q' = Tail(event_q)
  /\ UNCHANGED <<graph, host, setup, untriggered, notify, stream, control, waiter, taken, timeouts>>

StreamingTask ==
  \/ StartIdle \/ RunRunning \/ TriggerRunning \/ Stop \/ Delete \/ Ignore
  \/ \E status \in {"SUCCESS", "EVENT_TIMEOUT"} : RunWaited(status) \/ Waited(status)

-----------------------------------------------------------------------------
(* The HOST task.                                                            *)

(* A trigger node that is not a leaf completes before the leaf nodes that    *)
(* wait for it do.                                                           *)
TriggerCompletes(p) ==
  /\ Exists
  /\ host.at = "idle" /\ ~notify /\ ~trigger_is_leaf /\ p \in untriggered
  /\ untriggered' = untriggered \ {p}
  /\ event_q' = Add(event_q, "STREAMING_EVENT")
  /\ UNCHANGED <<graph, host, setup, notify, stream, control, waiter, taken, timeouts>>

(* The event of a leaf node is sent when the completion is dealt with: "first *)
(* do all booking keeping and then send event q events" (vx_target.c:1060).  *)
LeafCompletes(l, p) ==
  /\ Exists /\ ~notify
  /\ l \in trigger => trigger_is_leaf \/ p \notin untriggered
  /\ S!CountLeaf(l, p, "CONTINUE") \/ S!CompleteGraph(l, p, "CONTINUE")
  /\ untriggered' = IF l \in trigger THEN untriggered \ {p} ELSE untriggered
  /\ notify' = (l \in trigger /\ p \in untriggered)
  /\ taken' = (taken /\ ~all_graph_completed_event')
  /\ UNCHANGED <<setup, event_q, stream, control, waiter, timeouts>>

Reschedule ==
  /\ Exists
  /\ host.at = "reschedule"
  /\ Schedule(host.count)
  /\ host' = S!HostIdle
  /\ UNCHANGED <<setup, notify, event_q, stream, control, waiter, taken, timeouts>>

Notify ==
  /\ Exists
  /\ notify /\ host.at = "idle"
  /\ notify' = FALSE
  /\ event_q' = Add(event_q, "STREAMING_EVENT")
  /\ UNCHANGED <<graph, host, setup, untriggered, stream, control, waiter, taken, timeouts>>

HostTask ==
  \/ Reschedule \/ Notify
  \/ \E p \in Pipe : TriggerCompletes(p) \/ \E l \in Leaf : LeafCompletes(l, p)

-----------------------------------------------------------------------------
(* The application: one thread that starts, stops and releases.              *)

StartGraphStreaming ==
  /\ app = "idle" /\ ~is_streaming
  /\ is_streaming' = TRUE
  /\ event_q' = Add(event_q, "START")
  /\ UNCHANGED <<graph, host, setup, untriggered, notify, stream>>
  /\ UNCHANGED <<stop_done, delete_done, app, waiter, taken, timeouts>>

StopGraphStreaming ==
  /\ app = "idle" /\ is_streaming
  /\ stop_done' = FALSE
  /\ event_q' = Add(event_q, "STOP")
  /\ app' = "stopping"
  /\ UNCHANGED <<graph, host, setup, untriggered, notify, stream>>
  /\ UNCHANGED <<is_streaming, delete_done, waiter, taken, timeouts>>

StopReturns ==
  /\ app = "stopping" /\ stop_done
  /\ stop_done' = FALSE
  /\ is_streaming' = FALSE
  /\ app' = "idle"
  /\ UNCHANGED <<graph, host, setup, untriggered, notify, event_q, stream>>
  /\ UNCHANGED <<delete_done, waiter, taken, timeouts>>

(* ownGraphFreeStreaming, at the release of the graph.                       *)
FreeStreaming ==
  /\ app = "idle"
  /\ delete_done' = FALSE
  /\ event_q' = Add(event_q, "DELETE")
  /\ app' = "releasing"
  /\ UNCHANGED <<graph, host, setup, untriggered, notify, stream>>
  /\ UNCHANGED <<is_streaming, stop_done, waiter, taken, timeouts>>

(* It waits with the timeout of the graph and does not look at the status.   *)
Released ==
  /\ app = "releasing"
  /\ (delete_done /\ UNCHANGED timeouts) \/ TimesOut
  /\ delete_done' = FALSE
  /\ app' = "released"
  /\ UNCHANGED <<graph, host, setup, untriggered, notify, event_q, stream>>
  /\ UNCHANGED <<is_streaming, stop_done, waiter, taken>>

Application ==
  \/ StartGraphStreaming \/ StopGraphStreaming \/ StopReturns
  \/ FreeStreaming \/ Released

(* Other threads in vxWaitGraph.                                             *)
WaitGraph(w) ==
  /\ Exists
  /\ waiter[w] = "idle" /\ graph_state # "VERIFIED"
  /\ waiter' = [waiter EXCEPT ![w] = "waiting"]
  /\ UNCHANGED <<graph, host, setup, untriggered, notify, event_q, stream, control, taken, timeouts>>

WaitReturns(w) ==
  /\ Exists
  /\ waiter[w] = "waiting"
  /\ \/ TakeEvent /\ taken' = TRUE
     \/ MaxTimeouts > 0 /\ UNCHANGED <<graph, taken>>
  /\ waiter' = [waiter EXCEPT ![w] = "idle"]
  /\ UNCHANGED <<host, setup, untriggered, notify, event_q, stream, control, timeouts>>

-----------------------------------------------------------------------------

Next ==
  \/ StreamingTask \/ HostTask \/ Application
  \/ \E w \in Waiter : WaitGraph(w) \/ WaitReturns(w)

Spec == Init /\ [][Next]_vars

(* The tasks work off their queues, and a call that may return does.         *)
Fairness ==
  /\ WF_vars(StreamingTask)
  /\ WF_vars(HostTask)
  /\ WF_vars(StopReturns) /\ WF_vars(Released)

FairSpec == Spec /\ Fairness

-----------------------------------------------------------------------------

(* Types; the executions that run are those that were submitted.             *)
TypeOK ==
  /\ free_q \in Seq(Pipe)
  /\ submitted_count = Cardinality(S!Busy)
  /\ Len(free_q) + submitted_count = pipeline_depth
  /\ schedule_pending_count \in Nat /\ host.count \in Nat
  /\ graph_state \in S!States /\ desc_state \in [Pipe -> S!States]
  /\ complete_leaf_nodes \in [Pipe -> 0 .. S!NumLeafNodes - 1]
  /\ untriggered \subseteq S!Busy
  /\ event_q \in Seq(Events)
  /\ stream_state \in {"IDLE", "RUNNING"}
  /\ task \in {"get", "wait_run", "wait_stop", "wait_delete", "ended"}
  /\ executions \in 0 .. 1
  /\ app \in {"idle", "stopping", "releasing", "released"}

(* The executions that run, or that something is yet to start.               *)
Outstanding == submitted_count + schedule_pending_count + host.count

(***************************************************************************)
(* When vxStopGraphStreaming has returned nothing runs and nothing will be *)
(* run by what is left in the queue: it "blocks until graph execution is   *)
(* gracefully stopped [...] when all internally scheduled graph executions *)
(* are completed" (vx_khr_pipelining.h:688-689).                           *)
(***************************************************************************)
StopBlocks == ~is_streaming => stream_state = "IDLE" /\ Outstanding = 0

(* No wait has ended by the timeout of the graph.                            *)
InTime == timeouts = 0

(* As long as the waits of the streaming task end in time, stopping means    *)
(* what is said of it; a wait that the timeout ended says nothing.           *)
StoppedMeansStopped == InTime => StopBlocks

Occurrences(event) == Cardinality({i \in DOMAIN event_q : event_q[i] = event})

(* What makes the task schedule the graph again: an event in the queue, or   *)
(* an execution that has yet to send one.                                    *)
Rounds ==
  IF Pipelining
  THEN Occurrences("STREAMING_EVENT") + Cardinality(untriggered)
       + schedule_pending_count + host.count + IF notify THEN 1 ELSE 0
  ELSE Occurrences("RUN") + IF task = "wait_run" THEN 1 ELSE 0

(***************************************************************************)
(* While the graph streams there is one thing that will schedule it again. *)
(* With none it would stand still; a second one would run it twice as      *)
(* often.  A trigger node that is a leaf sends its event after the         *)
(* completion that lets vxStopGraphStreaming return, and a graph started   *)
(* again by then has one more; after a timeout there may be others left.   *)
(***************************************************************************)
OneRound ==
  InTime /\ stream_state = "RUNNING" =>
    Rounds = 1 \/ (Pipelining /\ trigger_is_leaf /\ Rounds = 2)

(* The streaming task waits for a completion that nothing brings about.      *)
Starved ==
  /\ task \in {"wait_run", "wait_stop", "wait_delete"}
  /\ Outstanding = 0 /\ ~all_graph_completed_event

(***************************************************************************)
(* That happens only when another thread took the completion, or when a    *)
(* graph is released while it streams without pipelining: then the wait    *)
(* for the last execution is over before the wait for the end begins.      *)
(***************************************************************************)
StarvedOnlyIfTaken == Starved => taken \/ task = "wait_delete"

(* Unless the streaming task starves: a graph that streams runs once more,   *)
(* until it is stopped or released.  A graph that was started again while it *)
(* still ran, as after a timeout it may, is not scheduled and stands still.  *)
KeepsStreaming ==
  \A k \in 0 .. 1 :
    is_streaming /\ app = "idle" /\ executions = k
      ~> executions # k \/ app # "idle" \/ Starved \/ ~InTime

(* Unless it starves, stopping and releasing end, also when the waits before *)
(* them timed out.  So no START, STOP or DELETE is dropped for want of a     *)
(* free element in the queue.                                                *)
CallsReturn == app \in {"stopping", "releasing"} ~> app \in {"idle", "released"} \/ Starved
=============================================================================

--------------------------- MODULE GraphParameter ---------------------------
(***************************************************************************)
(* One graph parameter with queueing enabled: vx_graph_pipeline.c and      *)
(* vx_data_ref_queue.c as the application sees them.  A thread enqueues    *)
(* references and dequeues those the graph is done with.  The target task  *)
(* that uses a reference last puts it into the done queue and, when it     *)
(* let the queue lock go, sends a command to the HOST task, which posts    *)
(* the event a dequeuing thread waits for and tells the application.       *)
(*                                                                         *)
(* The event is one bit for any number of references, and between the      *)
(* queue and the event nothing is locked.  The execution of the graph is   *)
(* left open: it takes references and is done with them in any order.      *)
(***************************************************************************)
EXTENDS Naturals, Sequences, FiniteSets, SequencesExt

CONSTANTS
  Ref,         \* refs_list of the parameter
  Task,        \* target tasks that may be the last to use a reference
  Dequeuer,    \* threads that dequeue at this parameter
  MaxRefs,     \* largest max_refs of a call
  QueueDepth,  \* TIVX_OBJ_DESC_QUEUE_MAX_DEPTH
  Timeouts,    \* whether a timeout is set on the graph
  HostDepth,   \* places of the HOST queue that other commands leave free
  EventDepth,  \* TIVX_EVENT_QUEUE_MAX_SIZE
  MaxEnqueues  \* bound of the model: references ever enqueued

ASSUME RefAssumption == IsFiniteSet(Ref) /\ Cardinality(Ref) <= QueueDepth
ASSUME SizeAssumption ==
  {MaxRefs, QueueDepth, HostDepth, EventDepth} \subseteq Nat \ {0} /\ MaxEnqueues \in Nat
ASSUME TimeoutAssumption == Timeouts \in BOOLEAN

VARIABLES
  owned,     \* references the application may enqueue
  ready_q,   \* acquire queue of the parameter
  in_use,    \* references an execution has acquired
  done_q,    \* release queue of the parameter
  sending,   \* tasks that released a reference and have yet to tell the HOST
  host_q,    \* DATA_REF_CONSUMED commands in the queue of the HOST
  wait_done_ref_available_event,
  events,    \* VX_EVENT_GRAPH_PARAMETER_CONSUMED in the event queue
  pc, want,  \* per dequeuing thread: where it is, max_refs of the call
  refs,      \* the references the call has dequeued
  ret,       \* status and num_refs of the latest call
  told,      \* history: consumed events the application has seen
  enqueued,  \* history: references ever enqueued
  dequeued   \* history: references ever dequeued

app == <<owned, pc, want, refs, ret, told, enqueued, dequeued>>
graph == <<in_use, sending>>
vars == <<owned, ready_q, in_use, done_q, sending, host_q, wait_done_ref_available_event,
          events, pc, want, refs, ret, told, enqueued, dequeued>>

Init ==
  /\ owned = Ref
  /\ ready_q = <<>> /\ done_q = <<>>
  /\ in_use = {} /\ sending = {}
  /\ host_q = 0
  /\ wait_done_ref_available_event = FALSE
  /\ events = 0
  /\ pc = [c \in Dequeuer |-> "idle"]
  /\ want = [c \in Dequeuer |-> 0]
  /\ refs = [c \in Dequeuer |-> <<>>]
  /\ ret = [c \in Dequeuer |-> <<"SUCCESS", 0>>]
  /\ told = 0 /\ enqueued = 0 /\ dequeued = 0

-----------------------------------------------------------------------------
(* The application. *)

(* One turn of the loop of tivxGraphParameterEnqueueReadyRef; references *)
(* that are not on the list of the parameter are refused.                *)
EnqueueReadyRef(r) ==
  /\ r \in owned /\ enqueued < MaxEnqueues
  /\ Len(ready_q) < QueueDepth
  /\ owned' = owned \ {r}
  /\ ready_q' = Append(ready_q, r)
  /\ enqueued' = enqueued + 1
  /\ UNCHANGED <<graph, done_q, host_q, wait_done_ref_available_event, events,
                 pc, want, refs, ret, told, dequeued>>

(* vxGraphParameterDequeueDoneRef *)
DequeueCall(c, max_refs) ==
  /\ pc[c] = "idle"
  /\ pc' = [pc EXCEPT ![c] = "dequeue"]
  /\ want' = [want EXCEPT ![c] = max_refs]
  /\ UNCHANGED <<owned, ready_q, graph, done_q, host_q, wait_done_ref_available_event,
                 events, refs, ret, told, enqueued, dequeued>>

(* What a call hands over; num_refs counts it also when the call fails. *)
HandedOver_Nothing(status, got) == IF status = "SUCCESS" THEN Range(got) ELSE {}
HandedOver(status, got) == Range(got)

Returns(c, status, got) ==
  /\ pc' = [pc EXCEPT ![c] = "idle"]
  /\ refs' = [refs EXCEPT ![c] = <<>>]
  /\ ret' = [ret EXCEPT ![c] = <<status, Len(got)>>]
  /\ owned' = owned \cup HandedOver(status, got)

(* The loop ends when the call has max_refs references. *)
LoopEnds_Late(c, got) == Len(got) > want[c]
LoopEnds(c, got) == Len(got) = want[c]

(* ownDataRefQueueDequeueDoneRef under the queue lock: a reference, or the *)
(* thread goes on to wait.                                                 *)
TakeRef(c) ==
  /\ pc[c] = "dequeue"
  /\ \/ /\ done_q # <<>>
        /\ done_q' = Tail(done_q)
        /\ dequeued' = dequeued + 1
        /\ LET got == Append(refs[c], Head(done_q))
           IN IF LoopEnds(c, got) THEN Returns(c, "SUCCESS", got)
              ELSE refs' = [refs EXCEPT ![c] = got] /\ UNCHANGED <<pc, ret, owned>>
     \/ /\ done_q = <<>>
        /\ pc' = [pc EXCEPT ![c] = "wait"]
        /\ UNCHANGED <<done_q, dequeued, refs, ret, owned>>
  /\ UNCHANGED <<ready_q, graph, host_q, wait_done_ref_available_event, events,
                 want, told, enqueued>>

(* ownDataRefQueueWaitDoneRef: the thread looks at the queue again, also   *)
(* when the event is left over from a reference it has dequeued already.   *)
WaitDoneRef(c) ==
  /\ pc[c] = "wait" /\ wait_done_ref_available_event
  /\ wait_done_ref_available_event' = FALSE
  /\ pc' = [pc EXCEPT ![c] = "dequeue"]
  /\ UNCHANGED <<owned, ready_q, graph, done_q, host_q, events, want, refs, ret,
                 told, enqueued, dequeued>>

WaitFails(c) ==
  /\ Timeouts /\ pc[c] = "wait"
  /\ Returns(c, "EVENT_TIMEOUT", refs[c])
  /\ UNCHANGED <<ready_q, graph, done_q, host_q, wait_done_ref_available_event,
                 events, want, told, enqueued, dequeued>>

(* vxWaitEvent hands a consumed event to the application. *)
WaitEvent ==
  /\ events > 0
  /\ events' = events - 1
  /\ told' = told + 1
  /\ UNCHANGED <<owned, ready_q, graph, done_q, host_q, wait_done_ref_available_event,
                 pc, want, refs, ret, enqueued, dequeued>>

-----------------------------------------------------------------------------
(* The graph. *)

(* ownTargetNodeDescAcquireParameter *)
Acquire ==
  /\ ready_q # <<>>
  /\ in_use' = in_use \cup {Head(ready_q)}
  /\ ready_q' = Tail(ready_q)
  /\ UNCHANGED <<sending, done_q, host_q, wait_done_ref_available_event, events, app>>

(* ownTargetNodeDescReleaseParameter by the last user, under the queue lock. *)
Release(t, r) ==
  /\ t \notin sending /\ r \in in_use
  /\ in_use' = in_use \ {r}
  /\ done_q' = Append(done_q, r)
  /\ sending' = sending \cup {t}
  /\ UNCHANGED <<ready_q, host_q, wait_done_ref_available_event, events, app>>

(* ownTargetObjDescSendRefConsumed: a command for every reference.  That it  *)
(* found the queue of the HOST full is printed, and the command is lost.     *)
Commands_WhenFirst(n) == IF Len(done_q) > 1 THEN n ELSE n + 1
Commands_Twice(n) == n + 2
Commands(n) == n + 1

SendRefConsumed(t) ==
  /\ t \in sending
  /\ sending' = sending \ {t}
  /\ host_q' = IF host_q < HostDepth THEN Commands(host_q) ELSE host_q
  /\ UNCHANGED <<ready_q, in_use, done_q, wait_done_ref_available_event, events, app>>

(* ownDataRefQueueSendRefConsumedEvent, in the HOST task: the waiting thread *)
(* first; an event that finds no free place in the event queue is dropped.   *)
SendRefConsumedEvent ==
  /\ host_q > 0
  /\ host_q' = host_q - 1
  /\ wait_done_ref_available_event' = TRUE
  /\ events' = IF events < EventDepth THEN events + 1 ELSE events
  /\ UNCHANGED <<ready_q, graph, done_q, app>>

-----------------------------------------------------------------------------

DequeueStep(c) == TakeRef(c) \/ WaitDoneRef(c)

GraphStep == Acquire \/ \E t \in Task : SendRefConsumed(t) \/ \E r \in Ref : Release(t, r)

Next ==
  \/ \E r \in Ref : EnqueueReadyRef(r)
  \/ \E c \in Dequeuer : \/ \E n \in 1 .. MaxRefs : DequeueCall(c, n)
                         \/ DequeueStep(c) \/ WaitFails(c)
  \/ WaitEvent
  \/ GraphStep \/ SendRefConsumedEvent

Spec == Init /\ [][Next]_vars

(* The graph runs whenever it has references, the HOST task handles its      *)
(* queue, and a thread inside a call goes on with it.  The application need  *)
(* not call anything.                                                        *)
Fairness ==
  /\ WF_vars(GraphStep) /\ WF_vars(SendRefConsumedEvent)
  /\ \A c \in Dequeuer : WF_vars(DequeueStep(c))

FairSpec == Spec /\ Fairness

-----------------------------------------------------------------------------

(* Types; a call never holds more references than its caller has room for. *)
TypeOK ==
  /\ owned \subseteq Ref /\ in_use \subseteq Ref /\ sending \subseteq Task
  /\ ready_q \in Seq(Ref) /\ done_q \in Seq(Ref)
  /\ host_q \in Nat /\ events \in 0 .. EventDepth
  /\ wait_done_ref_available_event \in BOOLEAN
  /\ pc \in [Dequeuer -> {"idle", "dequeue", "wait"}]
  /\ want \in [Dequeuer -> 0 .. MaxRefs]
  /\ \A c \in Dequeuer : /\ refs[c] \in Seq(Ref)
                          /\ pc[c] # "idle" => Len(refs[c]) < want[c]
  /\ told \in Nat /\ enqueued \in Nat /\ dequeued \in Nat

(* The references in the hands of a call that has not returned. *)
InHand == UNION {Range(refs[c]) : c \in Dequeuer}

(***************************************************************************)
(* No reference is lost or handed out twice: each is with the application, *)
(* in one of the queues, in use, or in the hands of one dequeue call, also *)
(* when a call fails after it took some references.                        *)
(***************************************************************************)
EveryRefAccounted ==
  /\ owned \cup Range(ready_q) \cup in_use \cup Range(done_q) \cup InHand = Ref
  /\ Cardinality(owned) + Len(ready_q) + Cardinality(in_use) + Len(done_q)
       + Cardinality(InHand) = Cardinality(Ref)

(***************************************************************************)
(* A single thread that waits while there is a reference for it will be    *)
(* woken: the event is set, or a command that will set it is under way.    *)
(* The one-bit event stands for any number of references, and a command    *)
(* that was lost for want of a place needs no other, because the thread    *)
(* empties the queue before it waits.                                      *)
(***************************************************************************)
WakeUpUnderWay ==
  \A c \in Dequeuer :
    pc[c] = "wait" /\ done_q # <<>> =>
      wait_done_ref_available_event \/ host_q > 0 \/ sending # {}

(***************************************************************************)
(* The application never hears of more consumed references than there are: *)
(* a thread that dequeues one reference for each event it got does not     *)
(* block.                                                                  *)
(***************************************************************************)
EventsBacked == told + events + host_q <= dequeued + Len(done_q)

(* A thread whose reference is in the done queue does not wait for ever.     *)
DoneRefDelivered ==
  \A c \in Dequeuer : (pc[c] = "wait" /\ done_q # <<>>) ~> pc[c] # "wait"
=============================================================================

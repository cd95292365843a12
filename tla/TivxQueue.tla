------------------------------ MODULE TivxQueue ------------------------------
(***************************************************************************)
(* The queue of tivx_queue.c on POSIX: a ring buffer with a mutex and two  *)
(* condition variables.  The job queues of the target tasks, the free      *)
(* pipeline ids of a graph and the event queues are such queues.           *)
(*                                                                         *)
(* A call locks the mutex and turns in a loop: it does what it came for,   *)
(* gives up, or sleeps on its condition variable and turns again when it   *)
(* has been woken and has the mutex.  One turn is one step.  A sleeper may *)
(* wake up without a signal, and between a signal and the turn of the      *)
(* thread it woke another thread may be faster.                            *)
(***************************************************************************)
EXTENDS Naturals, Sequences, FiniteSets

CONSTANTS
  Thread,      \* threads that share the queue
  Data,        \* what they put into it
  MaxEle,      \* max_ele
  BlockOnGet,  \* TIVX_QUEUE_FLAG_BLOCK_ON_GET
  BlockOnPut,  \* TIVX_QUEUE_FLAG_BLOCK_ON_PUT
  NoData       \* what a call leaves in *data when there is no element

ASSUME ThreadAssumption == IsFiniteSet(Thread)
ASSUME DataAssumption == Data # {} /\ NoData \notin Data
ASSUME SizeAssumption == MaxEle \in Nat \ {0}
ASSUME FlagAssumption == {BlockOnGet, BlockOnPut} \subseteq BOOLEAN

VARIABLES
  context,  \* queue->context is there
  queue,    \* the ring
  cur_rd, cur_wr, count,
  pc,       \* per thread: idle, at the mutex to put or get, or asleep
  data,     \* the element a thread puts
  wait,     \* its call has a timeout other than NO_WAIT
  ret       \* the latest call that ended: thread, call, status, element

ring == <<context, queue, cur_rd, cur_wr, count>>
call == <<data, wait>>
vars == <<context, queue, cur_rd, cur_wr, count, pc, data, wait, ret>>

At(where) == {t \in Thread : pc[t] = where}

Init ==
  /\ context = FALSE
  /\ queue = [i \in 0 .. MaxEle - 1 |-> NoData]
  /\ cur_rd = 0 /\ cur_wr = 0 /\ count = 0
  /\ pc = [t \in Thread |-> "idle"]
  /\ data = [t \in Thread |-> NoData]
  /\ wait = [t \in Thread |-> FALSE]
  /\ ret = <<>>

Returns(t, name, status, d) == ret' = <<t, name, status, d>>

-----------------------------------------------------------------------------

(* tivxQueueCreate, over memory that may hold elements of an earlier queue. *)
Create(t) ==
  /\ ~context /\ pc[t] = "idle"
  /\ context' = TRUE
  /\ cur_rd' = 0 /\ cur_wr' = 0 /\ count' = 0
  /\ Returns(t, "create", "SUCCESS", NoData)
  /\ UNCHANGED <<queue, pc, call>>

(* tivxQueueDelete, when no thread is inside a call on the queue. *)
Delete(t) ==
  /\ context /\ At("idle") = Thread
  /\ context' = FALSE
  /\ Returns(t, "delete", "SUCCESS", NoData)
  /\ UNCHANGED <<queue, cur_rd, cur_wr, count, pc, call>>

(* A call on a queue that is not there. *)
CallDeleted(t) ==
  /\ ~context /\ pc[t] = "idle"
  /\ \E name \in {"put", "get"} : Returns(t, name, "FAILURE", NoData)
  /\ UNCHANGED <<ring, pc, call>>

(* tivxQueuePut and tivxQueueGet up to the mutex. *)
PutCall(t, d, timeout) ==
  /\ context /\ pc[t] = "idle"
  /\ pc' = [pc EXCEPT ![t] = "put"]
  /\ data' = [data EXCEPT ![t] = d]
  /\ wait' = [wait EXCEPT ![t] = timeout]
  /\ UNCHANGED <<ring, ret>>

GetCall(t, timeout) ==
  /\ context /\ pc[t] = "idle"
  /\ pc' = [pc EXCEPT ![t] = "get"]
  /\ wait' = [wait EXCEPT ![t] = timeout]
  /\ UNCHANGED <<ring, data, ret>>

-----------------------------------------------------------------------------
(* The turns of a call. *)

Advance(i) == (i + 1) % MaxEle

HasRoom_OffByOne(n) == n <= MaxEle
HasRoom(n) == n < MaxEle

(* Whether a put signals condGet, a get condPut. *)
SignalsGet_WhenEmpty(n) == BlockOnGet /\ n = 0
SignalsGet(n) == BlockOnGet
SignalsPut(n) == BlockOnPut

(* The call of t ends; when it signals, it wakes one thread that sleeps. *)
EndsAndWakes(t, signals, asleep, wakes) ==
  IF signals /\ At(asleep) # {}
  THEN \E s \in At(asleep) : pc' = [pc EXCEPT ![t] = "idle", ![s] = wakes]
  ELSE pc' = [pc EXCEPT ![t] = "idle"]

Put(t) ==
  /\ pc[t] = "put" /\ HasRoom(count)
  /\ queue' = [queue EXCEPT ![cur_wr] = data[t]]
  /\ cur_wr' = Advance(cur_wr)
  /\ count' = count + 1
  /\ EndsAndWakes(t, SignalsGet(count), "sleep_get", "get")
  /\ Returns(t, "put", "SUCCESS", NoData)
  /\ data' = [data EXCEPT ![t] = NoData]
  /\ wait' = [wait EXCEPT ![t] = FALSE]
  /\ UNCHANGED <<context, cur_rd>>

Get(t) ==
  /\ pc[t] = "get" /\ count > 0
  /\ cur_rd' = Advance(cur_rd)
  /\ count' = count - 1
  /\ EndsAndWakes(t, SignalsPut(count), "sleep_put", "put")
  /\ Returns(t, "get", "SUCCESS", queue[cur_rd])
  /\ wait' = [wait EXCEPT ![t] = FALSE]
  /\ UNCHANGED <<context, queue, cur_wr, data>>

(* The queue is full, or empty, and the call does not wait. *)
GivesUp(t) ==
  /\ \/ pc[t] = "put" /\ ~HasRoom(count) /\ ~(wait[t] /\ BlockOnPut)
     \/ pc[t] = "get" /\ count = 0 /\ ~(wait[t] /\ BlockOnGet)
  /\ pc' = [pc EXCEPT ![t] = "idle"]
  /\ Returns(t, pc[t], "FAILURE", NoData)
  /\ data' = [data EXCEPT ![t] = NoData]
  /\ wait' = [wait EXCEPT ![t] = FALSE]
  /\ UNCHANGED ring

(* It waits: pthread_cond_wait, whatever the timeout is. *)
Sleep(t) ==
  /\ wait[t]
  /\ \/ /\ pc[t] = "put" /\ ~HasRoom(count) /\ BlockOnPut
        /\ pc' = [pc EXCEPT ![t] = "sleep_put"]
     \/ /\ pc[t] = "get" /\ count = 0 /\ BlockOnGet
        /\ pc' = [pc EXCEPT ![t] = "sleep_get"]
  /\ UNCHANGED <<ring, call, ret>>

(* A condition variable may let a thread go without a signal. *)
SpuriousWakeup(t) ==
  /\ \/ pc[t] = "sleep_put" /\ pc' = [pc EXCEPT ![t] = "put"]
     \/ pc[t] = "sleep_get" /\ pc' = [pc EXCEPT ![t] = "get"]
  /\ UNCHANGED <<ring, call, ret>>

(* tivxQueuePeek: its status is that of the unlock. *)
Peek(t) ==
  /\ context /\ pc[t] = "idle"
  /\ Returns(t, "peek", "SUCCESS", IF count > 0 THEN queue[cur_rd] ELSE NoData)
  /\ UNCHANGED <<ring, pc, call>>

-----------------------------------------------------------------------------

(* The turns of a call that is at the mutex. *)
Turn(t) == Put(t) \/ Get(t) \/ GivesUp(t) \/ Sleep(t)

Next ==
  \E t \in Thread :
    \/ Create(t) \/ Delete(t) \/ CallDeleted(t) \/ Peek(t)
    \/ \E timeout \in BOOLEAN :
         GetCall(t, timeout) \/ \E d \in Data : PutCall(t, d, timeout)
    \/ Turn(t) \/ SpuriousWakeup(t)

Spec == Init /\ [][Next]_vars

-----------------------------------------------------------------------------

(* Types, and indices inside the ring. *)
TypeOK ==
  /\ context \in BOOLEAN
  /\ queue \in [0 .. MaxEle - 1 -> Data \cup {NoData}]
  /\ cur_rd \in 0 .. MaxEle - 1 /\ cur_wr \in 0 .. MaxEle - 1 /\ count \in 0 .. MaxEle
  /\ pc \in [Thread -> {"idle", "put", "get", "sleep_put", "sleep_get"}]
  /\ data \in [Thread -> Data \cup {NoData}]
  /\ wait \in [Thread -> BOOLEAN]
  /\ ret # <<>> => ret \in Thread \X {"create", "delete", "put", "get", "peek"}
                             \X {"SUCCESS", "FAILURE"} \X (Data \cup {NoData})

(***************************************************************************)
(* No wake-up is lost: while a thread sleeps in a get, as many threads as  *)
(* there are elements are on their way to take one; while one sleeps in a  *)
(* put, as many as there are free places.  A put signals one thread only,  *)
(* and another thread may take the element before the one that was woken.  *)
(***************************************************************************)
NoLostWakeup ==
  /\ At("sleep_get") # {} => Cardinality(At("get")) >= count
  /\ At("sleep_put") # {} => Cardinality(At("put")) >= MaxEle - count

(* The elements in the ring, oldest first. *)
Elements == IF context THEN [i \in 1 .. count |-> queue[(cur_rd + i - 1) % MaxEle]] ELSE <<>>

B == INSTANCE BoundedQueue WITH live <- context, fifo <- Elements

(***************************************************************************)
(* Every call takes effect at one moment, on a bounded first-in first-out  *)
(* list: a thread that slept gets the oldest element, never one that was   *)
(* taken by a faster thread.                                               *)
(***************************************************************************)
ImplementsQueue == B!Spec
=============================================================================

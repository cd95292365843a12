---------------------------- MODULE ObjDescQueue ----------------------------
(***************************************************************************)
(* vx_obj_desc_queue.c: the queue of object descriptor ids that carries    *)
(* references between the application and the nodes of a pipelined graph.  *)
(* It lives in memory shared by the cores: a ring of 16-bit ids, a read    *)
(* index, a write index and a count, and beside it the list of the nodes   *)
(* that found the ring empty.  Callers hold the DATA_REF_QUEUE system lock *)
(* around each call, so a call is one step.                                *)
(***************************************************************************)
EXTENDS Naturals, Sequences

CONSTANTS
  ObjDesc,            \* ids of the references that pass through the queue
  Node,               \* ids of the node descriptors that may block on it
  Invalid,            \* TIVX_OBJ_DESC_INVALID
  MAX_DEPTH,          \* TIVX_OBJ_DESC_QUEUE_MAX_DEPTH
  MAX_BLOCKED_NODES   \* TIVX_OBJ_DESC_QUEUE_MAX_BLOCKED_NODES

ASSUME DepthAssumption ==
  /\ MAX_DEPTH \in Nat \ {0}
  /\ MAX_BLOCKED_NODES \in Nat \ {0}

ASSUME IdAssumption == Invalid \notin ObjDesc \cup Nat

VARIABLES
  live,        \* ownObjDescGet returns a descriptor of type TIVX_OBJ_DESC_QUEUE
  cur_rd,      \* index of the oldest id
  cur_wr,      \* index the next id is written at
  count,       \* ids in the queue
  queue_mem,   \* the ring; what it holds outside the queue is left over
  num_nodes,   \* blocked_nodes.num_nodes
  node_id,     \* blocked_nodes.node_id[]
  out,         \* the caller's out_blocked_nodes
  ret          \* status and value handed back by the latest call

ring == <<cur_rd, cur_wr, count, queue_mem>>
blocked_nodes == <<num_nodes, node_id>>
vars == <<live, cur_rd, cur_wr, count, queue_mem, num_nodes, node_id, out, ret>>

Success(v) == <<"SUCCESS", v>>
Failure(v) == <<"FAILURE", v>>

Slot == 0 .. MAX_DEPTH - 1
NodeSlot == 0 .. MAX_BLOCKED_NODES - 1

(* The first MAX nodes of a list of blocked nodes, as a sequence. *)
NodeList(n, ids) == [i \in 1 .. n |-> ids[i - 1]]

(* The slot after s; the index wraps at the end of the ring. *)
NextSlot(s) == (s + 1) % MAX_DEPTH

-----------------------------------------------------------------------------

(* The memory of a descriptor that was never used holds no promised value. *)
Init ==
  /\ live = FALSE
  /\ cur_rd = 0 /\ cur_wr = 0 /\ count = 0
  /\ queue_mem = [s \in Slot |-> Invalid]
  /\ num_nodes = 0
  /\ node_id = [s \in NodeSlot |-> Invalid]
  /\ out = <<>>
  /\ ret = Failure(Invalid)

(* ownObjDescQueueReset: the indices go back to zero, the memory stays. *)
Reset_KeepsRead ==
  /\ cur_wr' = 0 /\ count' = 0
  /\ num_nodes' = 0
  /\ UNCHANGED <<cur_rd, queue_mem, node_id>>
Reset_KeepsCount ==
  /\ cur_rd' = 0 /\ cur_wr' = count
  /\ num_nodes' = 0
  /\ UNCHANGED <<count, queue_mem, node_id>>
Reset ==
  /\ cur_rd' = 0 /\ cur_wr' = 0 /\ count' = 0
  /\ num_nodes' = 0
  /\ UNCHANGED <<queue_mem, node_id>>

Create ==
  /\ ~live
  /\ live' = TRUE
  /\ Reset
  /\ ret' = Success(Invalid)
  /\ UNCHANGED out

Release ==
  /\ live
  /\ live' = FALSE
  /\ ret' = Success(Invalid)
  /\ UNCHANGED <<ring, blocked_nodes, out>>

Enqueue(id) ==
  /\ live
  /\ \/ /\ count < MAX_DEPTH
        /\ queue_mem' = [queue_mem EXCEPT ![cur_wr] = id]
        /\ cur_wr' = NextSlot(cur_wr)
        /\ count' = count + 1
        /\ ret' = Success(Invalid)
     \/ /\ count >= MAX_DEPTH
        /\ ret' = Failure(Invalid)
        /\ UNCHANGED <<queue_mem, cur_wr, count>>
  /\ UNCHANGED <<live, cur_rd, blocked_nodes, out>>

Dequeue ==
  /\ live
  /\ \/ /\ count > 0
        /\ ret' = Success(queue_mem[cur_rd])
        /\ cur_rd' = NextSlot(cur_rd)
        /\ count' = count - 1
     \/ /\ count = 0
        /\ ret' = Failure(Invalid)
        /\ UNCHANGED <<cur_rd, count>>
  /\ UNCHANGED <<live, cur_wr, queue_mem, blocked_nodes, out>>

GetCount ==
  /\ live
  /\ ret' = Success(count)
  /\ UNCHANGED <<live, ring, blocked_nodes, out>>

AddBlockedNode(n) ==
  /\ live
  /\ \/ /\ num_nodes < MAX_BLOCKED_NODES
        /\ node_id' = [node_id EXCEPT ![num_nodes] = n]
        /\ num_nodes' = num_nodes + 1
        /\ ret' = Success(Invalid)
     \/ /\ num_nodes >= MAX_BLOCKED_NODES
        /\ ret' = Failure(Invalid)
        /\ UNCHANGED blocked_nodes
  /\ UNCHANGED <<live, ring, out>>

(***************************************************************************)
(* The caller's list is empty on the first call and is appended to when    *)
(* several queues are drained in a row (the slots of a delay).  It has the *)
(* size of the queue's own list: the bound in the guard is the caller's    *)
(* duty, which the code does not check.                                    *)
(***************************************************************************)
ExtractBlockedNodes(into) ==
  /\ live
  /\ Len(into) + num_nodes <= MAX_BLOCKED_NODES
  /\ out' = into \o NodeList(num_nodes, node_id)
  /\ num_nodes' = 0
  /\ ret' = Success(Invalid)
  /\ UNCHANGED <<live, ring, node_id>>

(* Every operation on an id that names no queue fails and changes nothing. *)
CallReleased ==
  /\ ~live
  /\ ret' = Failure(Invalid)
  /\ UNCHANGED <<live, ring, blocked_nodes, out>>

Next ==
  \/ Create \/ Release
  \/ \E id \in ObjDesc : Enqueue(id)
  \/ Dequeue \/ GetCount
  \/ \E n \in Node : AddBlockedNode(n)
  \/ ExtractBlockedNodes(<<>>) \/ ExtractBlockedNodes(out)
  \/ CallReleased

Spec == Init /\ [][Next]_vars

-----------------------------------------------------------------------------

(* Types; while the queue is live the ids it holds are references. *)
TypeOK ==
  /\ live \in BOOLEAN
  /\ cur_rd \in Slot /\ cur_wr \in Slot
  /\ count \in 0 .. MAX_DEPTH
  /\ queue_mem \in [Slot -> ObjDesc \cup {Invalid}]
  /\ num_nodes \in 0 .. MAX_BLOCKED_NODES
  /\ node_id \in [NodeSlot -> Node \cup {Invalid}]

(***************************************************************************)
(* The three counters of the ring agree: the write index is `count' slots  *)
(* ahead of the read index, modulo the size, after any sequence of calls.  *)
(* ownObjDescQueueEnqueue and Dequeue each update two of the three.        *)
(***************************************************************************)
RingConsistent == cur_wr = (cur_rd + count) % MAX_DEPTH

(* The ids in the ring, oldest first. *)
Contents == [i \in 1 .. count |-> queue_mem[(cur_rd + i - 1) % MAX_DEPTH]]

(***************************************************************************)
(* The ring is a bounded first-in first-out queue: ids come out once and   *)
(* in the order they went in, whatever the indices have wrapped around to, *)
(* and a descriptor that is released and created again shows nothing of    *)
(* its earlier life although its memory is not cleared.                    *)
(***************************************************************************)
Fifo == INSTANCE BlockingFifo WITH
          fifo <- IF live THEN Contents ELSE <<>>,
          blocked <- IF live THEN NodeList(num_nodes, node_id) ELSE <<>>

ImplementsFifo == Fifo!Spec
=============================================================================

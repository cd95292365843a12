---------------------------- MODULE BlockingFifo ----------------------------
(***************************************************************************)
(* What an object descriptor queue promises to the graph pipeline: a       *)
(* bounded first-in first-out list of object descriptor ids together with  *)
(* the list of nodes that found it empty and wait to be triggered again.   *)
(* ObjDescQueue is the ring buffer that implements it.                     *)
(***************************************************************************)
EXTENDS Naturals, Sequences

CONSTANTS
  ObjDesc,            \* ids of the references that pass through the queue
  Node,               \* ids of the node descriptors that may block on it
  Invalid,            \* TIVX_OBJ_DESC_INVALID
  MAX_DEPTH,          \* TIVX_OBJ_DESC_QUEUE_MAX_DEPTH
  MAX_BLOCKED_NODES   \* TIVX_OBJ_DESC_QUEUE_MAX_BLOCKED_NODES

VARIABLES
  live,      \* the id names an allocated queue descriptor
  fifo,      \* the ids in the queue, oldest first
  blocked,   \* the nodes waiting for an id, in the order they blocked
  out,       \* the list the caller collects the nodes to trigger in
  ret        \* status and value handed back by the latest call

vars == <<live, fifo, blocked, out, ret>>

Success(v) == <<"SUCCESS", v>>
Failure(v) == <<"FAILURE", v>>

Init ==
  /\ live = FALSE
  /\ fifo = <<>> /\ blocked = <<>> /\ out = <<>>
  /\ ret = Failure(Invalid)

Create ==
  /\ ~live
  /\ live' = TRUE
  /\ fifo' = <<>> /\ blocked' = <<>>
  /\ ret' = Success(Invalid)
  /\ UNCHANGED out

Release ==
  /\ live
  /\ live' = FALSE
  /\ fifo' = <<>> /\ blocked' = <<>>
  /\ ret' = Success(Invalid)
  /\ UNCHANGED out

Enqueue(id) ==
  /\ live
  /\ IF Len(fifo) < MAX_DEPTH
     THEN fifo' = Append(fifo, id) /\ ret' = Success(Invalid)
     ELSE fifo' = fifo /\ ret' = Failure(Invalid)
  /\ UNCHANGED <<live, blocked, out>>

Dequeue ==
  /\ live
  /\ IF fifo # <<>>
     THEN fifo' = Tail(fifo) /\ ret' = Success(Head(fifo))
     ELSE fifo' = fifo /\ ret' = Failure(Invalid)
  /\ UNCHANGED <<live, blocked, out>>

GetCount ==
  /\ live
  /\ ret' = Success(Len(fifo))
  /\ UNCHANGED <<live, fifo, blocked, out>>

AddBlockedNode(n) ==
  /\ live
  /\ IF Len(blocked) < MAX_BLOCKED_NODES
     THEN blocked' = Append(blocked, n) /\ ret' = Success(Invalid)
     ELSE blocked' = blocked /\ ret' = Failure(Invalid)
  /\ UNCHANGED <<live, fifo, out>>

ExtractBlockedNodes(into) ==
  /\ live
  /\ Len(into) + Len(blocked) <= MAX_BLOCKED_NODES
  /\ out' = into \o blocked
  /\ blocked' = <<>>
  /\ ret' = Success(Invalid)
  /\ UNCHANGED <<live, fifo>>

CallReleased ==
  /\ ~live
  /\ ret' = Failure(Invalid)
  /\ UNCHANGED <<live, fifo, blocked, out>>

Next ==
  \/ Create \/ Release
  \/ \E id \in ObjDesc : Enqueue(id)
  \/ Dequeue \/ GetCount
  \/ \E n \in Node : AddBlockedNode(n)
  \/ ExtractBlockedNodes(<<>>) \/ ExtractBlockedNodes(out)
  \/ CallReleased

Spec == Init /\ [][Next]_vars
=============================================================================

---------------------------- MODULE BoundedQueue ----------------------------
(***************************************************************************)
(* What a tivx_queue promises to the threads that share it: a bounded      *)
(* first-in first-out list, every call on it takes effect at one moment.   *)
(* TivxQueue is the ring buffer and the monitor that implement it.         *)
(***************************************************************************)
EXTENDS Naturals, Sequences

CONSTANTS
  Thread,   \* threads that share the queue
  Data,     \* what they put into it
  MaxEle,   \* its size
  NoData    \* what a call hands back that has no element to give

VARIABLES
  live,  \* the queue has been created
  fifo,  \* its elements, oldest first
  ret    \* the latest call that ended: thread, call, status, element

vars == <<live, fifo, ret>>

Init ==
  /\ live = FALSE
  /\ fifo = <<>>
  /\ ret = <<>>

Returns(t, call, status, d) == ret' = <<t, call, status, d>>

Create(t) ==
  /\ ~live
  /\ live' = TRUE /\ fifo' = <<>>
  /\ Returns(t, "create", "SUCCESS", NoData)

Delete(t) ==
  /\ live
  /\ live' = FALSE /\ fifo' = <<>>
  /\ Returns(t, "delete", "SUCCESS", NoData)

Put(t, d) ==
  /\ live /\ Len(fifo) < MaxEle
  /\ fifo' = Append(fifo, d)
  /\ Returns(t, "put", "SUCCESS", NoData)
  /\ UNCHANGED live

Get(t) ==
  /\ live /\ fifo # <<>>
  /\ fifo' = Tail(fifo)
  /\ Returns(t, "get", "SUCCESS", Head(fifo))
  /\ UNCHANGED live

(* A put fails on a full queue only, a get on an empty one; both on one that *)
(* does not exist.                                                           *)
PutFails(t) ==
  /\ live => Len(fifo) = MaxEle
  /\ Returns(t, "put", "FAILURE", NoData)
  /\ UNCHANGED <<live, fifo>>

GetFails(t) ==
  /\ live => fifo = <<>>
  /\ Returns(t, "get", "FAILURE", NoData)
  /\ UNCHANGED <<live, fifo>>

Peek(t) ==
  /\ live
  /\ Returns(t, "peek", "SUCCESS", IF fifo = <<>> THEN NoData ELSE Head(fifo))
  /\ UNCHANGED <<live, fifo>>

Next ==
  \E t \in Thread :
    \/ Create(t) \/ Delete(t) \/ Get(t) \/ Peek(t) \/ PutFails(t) \/ GetFails(t)
    \/ \E d \in Data : Put(t, d)

Spec == Init /\ [][Next]_vars
=============================================================================

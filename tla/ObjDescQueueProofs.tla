-------------------------- MODULE ObjDescQueueProofs --------------------------
(***************************************************************************)
(* For every queue size and every set of ids: the ring of ObjDescQueue     *)
(* keeps its counters consistent, and it implements the bounded first-in   *)
(* first-out queue of BlockingFifo.                                        *)
(***************************************************************************)
EXTENDS ObjDescQueue, Integers, SequenceTheorems, TLAPS

Cell == ObjDesc \cup {Invalid}

-----------------------------------------------------------------------------
(* Arithmetic of an index that wraps around. *)

(* An index below the size is its own remainder. *)
LEMMA ModSmall ==
  ASSUME NEW N \in Nat \ {0}, NEW x \in 0 .. N - 1
  PROVE  x % N = x
  BY SMT

(* An index that ran past the end by less than the size wraps once. *)
LEMMA ModWrap ==
  ASSUME NEW N \in Nat \ {0}, NEW x \in N .. 2 * N - 1
  PROVE  x % N = x - N
  BY SMT

(* The slot after s, without the remainder. *)
LEMMA NextSlotIs ==
  ASSUME NEW s \in Slot
  PROVE  NextSlot(s) = IF s = MAX_DEPTH - 1 THEN 0 ELSE s + 1
  <1>1. CASE s = MAX_DEPTH - 1
    BY <1>1, DepthAssumption, ModWrap, s + 1 \in MAX_DEPTH .. 2 * MAX_DEPTH - 1
       DEF NextSlot, Slot
  <1>2. CASE s # MAX_DEPTH - 1
    BY <1>2, DepthAssumption, ModSmall, s + 1 \in 0 .. MAX_DEPTH - 1
       DEF NextSlot, Slot
  <1>. QED  BY <1>1, <1>2

(* The slot k places after s, for k up to the size, without the remainder. *)
LEMMA SlotAhead ==
  ASSUME NEW s \in Slot, NEW k \in 0 .. MAX_DEPTH
  PROVE  (s + k) % MAX_DEPTH = IF s + k < MAX_DEPTH THEN s + k ELSE s + k - MAX_DEPTH
  <1>1. CASE s + k < MAX_DEPTH
    BY <1>1, DepthAssumption, ModSmall, s + k \in 0 .. MAX_DEPTH - 1 DEF Slot
  <1>2. CASE ~(s + k < MAX_DEPTH)
    BY <1>2, DepthAssumption, ModWrap, s + k \in MAX_DEPTH .. 2 * MAX_DEPTH - 1 DEF Slot
  <1>. QED  BY <1>1, <1>2

-----------------------------------------------------------------------------
(* The inductive invariant. *)

Inv == TypeOK /\ RingConsistent

LEMMA InitInv == Init => Inv
  <1>. SUFFICES ASSUME Init PROVE Inv
    OBVIOUS
  <1>1. TypeOK
    BY DepthAssumption DEF Init, TypeOK, Slot, NodeSlot
  <1>2. 0 \in Slot /\ 0 \in 0 .. MAX_DEPTH
    BY DepthAssumption DEF Slot
  <1>3. RingConsistent
    BY <1>2, SlotAhead, DepthAssumption DEF Init, RingConsistent, Slot
  <1>. QED  BY <1>1, <1>3 DEF Inv

LEMMA NextInv == Inv /\ [Next]_vars => Inv'
  <1>. SUFFICES ASSUME Inv, [Next]_vars PROVE Inv'
    OBVIOUS
  <1>. USE DepthAssumption DEF Inv, TypeOK
  <1>0. 0 \in Slot
    BY DEF Slot
  <1>1. CASE Create
    <2>1. RingConsistent'
      BY <1>1, <1>0, SlotAhead DEF Create, Reset, RingConsistent, Slot
    <2>. QED  BY <1>1, <1>0, <2>1 DEF Create, Reset
  <1>2. CASE Release
    BY <1>2 DEF Release, ring, blocked_nodes, RingConsistent
  <1>3. ASSUME NEW id \in ObjDesc, Enqueue(id)  PROVE Inv'
    <2>1. CASE count < MAX_DEPTH
      <3>1. /\ cur_wr' = NextSlot(cur_wr) /\ count' = count + 1
            /\ queue_mem' = [queue_mem EXCEPT ![cur_wr] = id]
            /\ UNCHANGED <<live, cur_rd, num_nodes, node_id>>
        BY <1>3, <2>1 DEF Enqueue, blocked_nodes
      <3>2. NextSlot(cur_wr) \in Slot
        BY NextSlotIs DEF Slot
      <3>3. RingConsistent'
        <4>1. cur_wr = IF cur_rd + count < MAX_DEPTH THEN cur_rd + count
                       ELSE cur_rd + count - MAX_DEPTH
          BY SlotAhead DEF RingConsistent
        <4>2. (cur_rd + (count + 1)) % MAX_DEPTH =
                IF cur_rd + (count + 1) < MAX_DEPTH THEN cur_rd + (count + 1)
                ELSE cur_rd + (count + 1) - MAX_DEPTH
          BY <2>1, SlotAhead, count + 1 \in 0 .. MAX_DEPTH
        <4>3. NextSlot(cur_wr) = (cur_rd + (count + 1)) % MAX_DEPTH
          BY <4>1, <4>2, <2>1, NextSlotIs DEF Slot
        <4>. QED  BY <3>1, <4>3 DEF RingConsistent
      <3>. QED  BY <3>1, <3>2, <3>3, <2>1
    <2>2. CASE count >= MAX_DEPTH
      BY <1>3, <2>2 DEF Enqueue, blocked_nodes, RingConsistent
    <2>. QED  BY <2>1, <2>2
  <1>4. CASE Dequeue
    <2>1. CASE count > 0
      <3>1. /\ cur_rd' = NextSlot(cur_rd) /\ count' = count - 1
            /\ UNCHANGED <<live, cur_wr, queue_mem, num_nodes, node_id>>
        BY <1>4, <2>1 DEF Dequeue, blocked_nodes
      <3>2. NextSlot(cur_rd) \in Slot
        BY NextSlotIs DEF Slot
      <3>3. RingConsistent'
        <4>1. cur_wr = IF cur_rd + count < MAX_DEPTH THEN cur_rd + count
                       ELSE cur_rd + count - MAX_DEPTH
          BY SlotAhead DEF RingConsistent
        <4>2. (NextSlot(cur_rd) + (count - 1)) % MAX_DEPTH =
                IF NextSlot(cur_rd) + (count - 1) < MAX_DEPTH
                THEN NextSlot(cur_rd) + (count - 1)
                ELSE NextSlot(cur_rd) + (count - 1) - MAX_DEPTH
          BY <2>1, <3>2, SlotAhead, count - 1 \in 0 .. MAX_DEPTH
        <4>3. cur_wr = (NextSlot(cur_rd) + (count - 1)) % MAX_DEPTH
          BY <4>1, <4>2, <2>1, NextSlotIs DEF Slot
        <4>. QED  BY <3>1, <4>3 DEF RingConsistent
      <3>. QED  BY <3>1, <3>2, <3>3, <2>1
    <2>2. CASE count = 0
      BY <1>4, <2>2 DEF Dequeue, blocked_nodes, RingConsistent
    <2>. QED  BY <2>1, <2>2
  <1>5. CASE GetCount
    BY <1>5 DEF GetCount, ring, blocked_nodes, RingConsistent
  <1>6. ASSUME NEW n \in Node, AddBlockedNode(n)  PROVE Inv'
    BY <1>6 DEF AddBlockedNode, ring, blocked_nodes, RingConsistent, NodeSlot
  <1>7. ASSUME NEW into, ExtractBlockedNodes(into)  PROVE Inv'
    BY <1>7 DEF ExtractBlockedNodes, ring, RingConsistent
  <1>8. CASE CallReleased
    BY <1>8 DEF CallReleased, ring, blocked_nodes, RingConsistent
  <1>9. CASE UNCHANGED vars
    BY <1>9 DEF vars, RingConsistent
  <1>. QED
    BY <1>1, <1>2, <1>3, <1>4, <1>5, <1>6, <1>7, <1>8, <1>9 DEF Next

(* The types and the consistency of the three ring counters are invariant. *)
THEOREM InvariantHolds == Spec => [](TypeOK /\ RingConsistent)
  <1>1. Spec => []Inv
    BY InitInv, NextInv, PTL DEF Spec
  <1>. QED  BY <1>1, PTL DEF Inv

-----------------------------------------------------------------------------
(* The ring implements the abstract queue.  First what the mapping yields. *)

(* The mapped queue is a sequence of `count' cells, read from cur_rd on. *)
ContentsRead ==
  /\ Contents \in Seq(Cell)
  /\ Len(Contents) = count
  /\ \A i \in 1 .. count :
       Contents[i] = queue_mem[IF cur_rd + (i - 1) < MAX_DEPTH
                               THEN cur_rd + (i - 1)
                               ELSE cur_rd + (i - 1) - MAX_DEPTH]

LEMMA ContentsIs == TypeOK => ContentsRead
  <1>. SUFFICES ASSUME TypeOK PROVE ContentsRead
    OBVIOUS
  <1>. USE DepthAssumption DEF TypeOK
  <1>1. \A i \in 1 .. count :
          /\ (cur_rd + i - 1) % MAX_DEPTH =
               IF cur_rd + (i - 1) < MAX_DEPTH THEN cur_rd + (i - 1)
               ELSE cur_rd + (i - 1) - MAX_DEPTH
          /\ (cur_rd + i - 1) % MAX_DEPTH \in Slot
    <2>. TAKE i \in 1 .. count
    <2>1. i - 1 \in 0 .. MAX_DEPTH /\ cur_rd + i - 1 = cur_rd + (i - 1)
      BY DEF Slot
    <2>2. (cur_rd + (i - 1)) % MAX_DEPTH =
            IF cur_rd + (i - 1) < MAX_DEPTH THEN cur_rd + (i - 1)
            ELSE cur_rd + (i - 1) - MAX_DEPTH
      BY <2>1, SlotAhead
    <2>. QED  BY <2>1, <2>2 DEF Slot
  <1>2. Contents \in [1 .. count -> Cell]
    BY <1>1 DEF Contents, Cell
  <1>3. Contents \in Seq(Cell) /\ Len(Contents) = count
    BY <1>2, count \in Nat, SeqDef
  <1>. QED  BY <1>1, <1>3 DEF Contents, ContentsRead

LEMMA ContentsIsNext == TypeOK' => ContentsRead'
  BY ContentsIs, PTL

(* Likewise the list of blocked nodes. *)
Blocked == NodeList(num_nodes, node_id)

BlockedRead ==
  /\ Blocked \in Seq(Node \cup {Invalid})
  /\ Len(Blocked) = num_nodes
  /\ \A i \in 1 .. num_nodes : Blocked[i] = node_id[i - 1]

LEMMA NodeListIs == TypeOK => BlockedRead
  <1>. SUFFICES ASSUME TypeOK PROVE BlockedRead
    OBVIOUS
  <1>. USE DepthAssumption DEF TypeOK
  <1>1. Blocked \in [1 .. num_nodes -> Node \cup {Invalid}]
    BY DEF Blocked, NodeList, NodeSlot
  <1>. QED  BY <1>1, num_nodes \in Nat, SeqDef DEF Blocked, NodeList, BlockedRead

LEMMA NodeListIsNext == TypeOK' => BlockedRead'
  BY NodeListIs, PTL

(* A queue with no ids maps to the empty sequence. *)
LEMMA EmptyIsEmpty ==
  ASSUME NEW S, NEW s \in Seq(S), Len(s) = 0
  PROVE  s = <<>>
  BY EmptySeq

LEMMA InitRefines == Init => Fifo!Init
  BY DEF Init, Fifo!Init, Failure, Fifo!Failure

LEMMA EnqueueRefines ==
  ASSUME Inv, Inv', NEW id \in ObjDesc, Enqueue(id)
  PROVE  Fifo!Enqueue(id)
  <1>. USE DepthAssumption DEF Inv
  <1>1. live /\ live' /\ UNCHANGED <<num_nodes, node_id, out, live>>
    BY DEF Enqueue, blocked_nodes
  <1>2. NodeList(num_nodes, node_id)' = NodeList(num_nodes, node_id)
    BY <1>1 DEF NodeList
  <1>3. CASE count < MAX_DEPTH
    <2>1. /\ cur_wr' = NextSlot(cur_wr) /\ count' = count + 1
          /\ queue_mem' = [queue_mem EXCEPT ![cur_wr] = id]
          /\ cur_rd' = cur_rd /\ ret' = Success(Invalid)
      BY <1>3 DEF Enqueue, TypeOK
    <2>2. cur_wr = IF cur_rd + count < MAX_DEPTH THEN cur_rd + count
                   ELSE cur_rd + count - MAX_DEPTH
      BY SlotAhead DEF RingConsistent, TypeOK
    <2>3. /\ Contents' \in Seq(Cell) /\ Len(Contents') = count + 1
          /\ \A i \in 1 .. count + 1 :
               Contents'[i] = queue_mem'[IF cur_rd + (i - 1) < MAX_DEPTH
                                         THEN cur_rd + (i - 1)
                                         ELSE cur_rd + (i - 1) - MAX_DEPTH]
      BY <2>1, ContentsIsNext DEF ContentsRead
    <2>4. /\ Append(Contents, id) \in Seq(Cell)
          /\ Len(Append(Contents, id)) = count + 1
          /\ \A i \in 1 .. count : Append(Contents, id)[i] = Contents[i]
          /\ Append(Contents, id)[count + 1] = id
      BY ContentsIs, AppendProperties, id \in Cell DEF Cell, ContentsRead
    <2>5. ASSUME NEW i \in 1 .. count + 1
          PROVE  Contents'[i] = Append(Contents, id)[i]
      <3>1. CASE i = count + 1
        BY <3>1, <2>1, <2>2, <2>3, <2>4, cur_wr \in DOMAIN queue_mem DEF TypeOK, Slot
      <3>2. CASE i # count + 1
        <4>1. i \in 1 .. count
          BY <3>2 DEF TypeOK
        <4>2. (IF cur_rd + (i - 1) < MAX_DEPTH THEN cur_rd + (i - 1)
               ELSE cur_rd + (i - 1) - MAX_DEPTH) \in Slot \ {cur_wr}
          BY <4>1, <2>2, <1>3 DEF TypeOK, Slot
        <4>3. Append(Contents, id)[i] = Contents[i]
          BY <4>1, <2>4
        <4>4. Contents[i] = queue_mem[IF cur_rd + (i - 1) < MAX_DEPTH
                                      THEN cur_rd + (i - 1)
                                      ELSE cur_rd + (i - 1) - MAX_DEPTH]
          BY <4>1, ContentsIs DEF ContentsRead
        <4>. QED  BY <4>2, <4>3, <4>4, <2>1, <2>3 DEF TypeOK
      <3>. QED  BY <3>1, <3>2
    <2>6. Contents' = Append(Contents, id)
      BY <2>3, <2>4, <2>5, SeqEqual
    <2>. QED
      BY <1>1, <1>2, <1>3, <2>1, <2>6, ContentsIs DEF Fifo!Enqueue, Success, Fifo!Success, ContentsRead
  <1>4. CASE count >= MAX_DEPTH
    <2>1. UNCHANGED <<cur_wr, count, queue_mem, cur_rd>> /\ ret' = Failure(Invalid)
      BY <1>4 DEF Enqueue, TypeOK
    <2>2. Contents' = Contents /\ ~(Len(Contents) < MAX_DEPTH)
      BY <2>1, <1>4, ContentsIs DEF Contents, TypeOK, ContentsRead
    <2>. QED
      BY <1>1, <1>2, <2>1, <2>2 DEF Fifo!Enqueue, Failure, Fifo!Failure
  <1>. QED  BY <1>3, <1>4 DEF TypeOK

LEMMA DequeueRefines ==
  ASSUME Inv, Inv', Dequeue
  PROVE  Fifo!Dequeue
  <1>. USE DepthAssumption DEF Inv
  <1>1. live /\ live' /\ UNCHANGED <<num_nodes, node_id, out, live, queue_mem>>
    BY DEF Dequeue, blocked_nodes
  <1>2. NodeList(num_nodes, node_id)' = NodeList(num_nodes, node_id)
    BY <1>1 DEF NodeList
  <1>3. CASE count > 0
    <2>1. /\ cur_rd' = NextSlot(cur_rd) /\ count' = count - 1
          /\ ret' = Success(queue_mem[cur_rd])
      BY <1>3 DEF Dequeue
    <2>2. /\ Contents \in Seq(Cell) /\ Len(Contents) = count
          /\ Contents # <<>>
      BY <1>3, ContentsIs, EmptySeq DEF ContentsRead
    <2>3. Head(Contents) = queue_mem[cur_rd]
      <3>1. Contents[1] = queue_mem[IF cur_rd + (1 - 1) < MAX_DEPTH
                                    THEN cur_rd + (1 - 1)
                                    ELSE cur_rd + (1 - 1) - MAX_DEPTH]
        BY <1>3, ContentsIs, 1 \in 1 .. count DEF TypeOK, ContentsRead
      <3>2. cur_rd + (1 - 1) = cur_rd /\ cur_rd < MAX_DEPTH
        BY DEF TypeOK, Slot
      <3>. QED  BY <3>1, <3>2, <2>2
    <2>4. /\ Tail(Contents) \in Seq(Cell)
          /\ Len(Tail(Contents)) = count - 1
          /\ \A i \in 1 .. count - 1 : Tail(Contents)[i] = Contents[i + 1]
      BY <2>2, HeadTailProperties
    <2>5. /\ Contents' \in Seq(Cell) /\ Len(Contents') = count - 1
          /\ \A i \in 1 .. count - 1 :
               Contents'[i] = queue_mem[IF NextSlot(cur_rd) + (i - 1) < MAX_DEPTH
                                        THEN NextSlot(cur_rd) + (i - 1)
                                        ELSE NextSlot(cur_rd) + (i - 1) - MAX_DEPTH]
      BY <1>1, <2>1, ContentsIsNext DEF ContentsRead
    <2>6. ASSUME NEW i \in 1 .. count - 1
          PROVE  Contents'[i] = Tail(Contents)[i]
      <3>1. i + 1 \in 1 .. count
        BY DEF TypeOK
      <3>2. Contents[i + 1] = queue_mem[IF cur_rd + ((i + 1) - 1) < MAX_DEPTH
                                        THEN cur_rd + ((i + 1) - 1)
                                        ELSE cur_rd + ((i + 1) - 1) - MAX_DEPTH]
        BY <3>1, ContentsIs DEF ContentsRead
      <3>3. (IF NextSlot(cur_rd) + (i - 1) < MAX_DEPTH
             THEN NextSlot(cur_rd) + (i - 1)
             ELSE NextSlot(cur_rd) + (i - 1) - MAX_DEPTH)
            = (IF cur_rd + ((i + 1) - 1) < MAX_DEPTH
               THEN cur_rd + ((i + 1) - 1)
               ELSE cur_rd + ((i + 1) - 1) - MAX_DEPTH)
        <4>1. CASE cur_rd = MAX_DEPTH - 1
          BY <4>1, NextSlotIs DEF TypeOK, Slot
        <4>2. CASE cur_rd # MAX_DEPTH - 1
          BY <4>2, NextSlotIs DEF TypeOK, Slot
        <4>. QED  BY <4>1, <4>2
      <3>. QED  BY <3>2, <3>3, <2>4, <2>5
    <2>7. Contents' = Tail(Contents)
      BY <2>4, <2>5, <2>6, SeqEqual
    <2>. QED
      BY <1>1, <1>2, <2>1, <2>2, <2>3, <2>7 DEF Fifo!Dequeue, Success, Fifo!Success
  <1>4. CASE count = 0
    <2>1. UNCHANGED <<count, cur_rd>> /\ ret' = Failure(Invalid)
      BY <1>4 DEF Dequeue
    <2>2. Contents' = Contents /\ Contents = <<>>
      BY <2>1, <1>1, <1>4, ContentsIs, EmptyIsEmpty DEF Contents, ContentsRead
    <2>. QED
      BY <1>1, <1>2, <2>1, <2>2 DEF Fifo!Dequeue, Failure, Fifo!Failure
  <1>. QED  BY <1>3, <1>4 DEF TypeOK

(* Created again, the queue maps to empty lists although the ring keeps its ids. *)
LEMMA CreateRefines ==
  ASSUME Inv, Inv', Create
  PROVE  Fifo!Create
  <1>1. ~live /\ live' /\ ret' = Success(Invalid) /\ out' = out
    BY DEF Create, Inv, TypeOK
  <1>2. count' = 0 /\ num_nodes' = 0
    BY DEF Create, Reset
  <1>3. Contents' = <<>>
    BY <1>2, ContentsIsNext, EmptyIsEmpty DEF Inv, ContentsRead
  <1>4. NodeList(num_nodes, node_id)' = <<>>
    BY <1>2, NodeListIsNext, EmptyIsEmpty DEF Inv, BlockedRead, Blocked
  <1>. QED
    BY <1>1, <1>3, <1>4 DEF Fifo!Create, Success, Fifo!Success

LEMMA ReleaseRefines == Release => Fifo!Release
  BY DEF Release, Fifo!Release, Success, Fifo!Success

LEMMA GetCountRefines ==
  ASSUME Inv, GetCount
  PROVE  Fifo!GetCount
  <1>1. /\ live /\ live' /\ UNCHANGED <<num_nodes, node_id, out, live>>
        /\ UNCHANGED <<cur_rd, count, queue_mem>> /\ ret' = Success(count)
    BY DEF GetCount, ring, blocked_nodes
  <1>2. Contents' = Contents /\ NodeList(num_nodes, node_id)' = NodeList(num_nodes, node_id)
    BY <1>1 DEF Contents, NodeList
  <1>3. Len(Contents) = count
    BY ContentsIs DEF Inv, ContentsRead
  <1>. QED
    BY <1>1, <1>2, <1>3 DEF Fifo!GetCount, Success, Fifo!Success

LEMMA AddBlockedNodeRefines ==
  ASSUME Inv, Inv', NEW n \in Node, AddBlockedNode(n)
  PROVE  Fifo!AddBlockedNode(n)
  <1>. USE DepthAssumption DEF Inv
  <1>1. live /\ live' /\ UNCHANGED <<cur_rd, count, queue_mem, out, live>>
    BY DEF AddBlockedNode, ring
  <1>2. Contents' = Contents
    BY <1>1 DEF Contents
  <1>3. CASE num_nodes < MAX_BLOCKED_NODES
    <2>1. /\ node_id' = [node_id EXCEPT ![num_nodes] = n]
          /\ num_nodes' = num_nodes + 1
          /\ ret' = Success(Invalid)
      BY <1>3 DEF AddBlockedNode, TypeOK
    <2>2. Blocked' \in Seq(Node \cup {Invalid}) /\ Len(Blocked') = num_nodes + 1
      BY <2>1, NodeListIsNext DEF BlockedRead
    <2>3. /\ Append(Blocked, n) \in Seq(Node \cup {Invalid})
          /\ Len(Append(Blocked, n)) = num_nodes + 1
          /\ \A i \in 1 .. num_nodes : Append(Blocked, n)[i] = Blocked[i]
          /\ Append(Blocked, n)[num_nodes + 1] = n
      BY NodeListIs, AppendProperties, n \in Node \cup {Invalid} DEF BlockedRead
    <2>4. ASSUME NEW i \in 1 .. num_nodes + 1
          PROVE  Blocked'[i] = Append(Blocked, n)[i]
      <3>1. Blocked'[i] = node_id'[i - 1]
        BY <2>1, NodeListIsNext DEF BlockedRead
      <3>2. CASE i = num_nodes + 1
        BY <3>1, <3>2, <2>1, <2>3, <1>3, num_nodes \in DOMAIN node_id DEF TypeOK, NodeSlot
      <3>3. CASE i # num_nodes + 1
        <4>1. i \in 1 .. num_nodes /\ i - 1 \in NodeSlot \ {num_nodes}
          BY <3>3, <1>3 DEF TypeOK, NodeSlot
        <4>2. Append(Blocked, n)[i] = node_id[i - 1]
          BY <4>1, <2>3, NodeListIs DEF BlockedRead
        <4>. QED  BY <3>1, <4>1, <4>2, <2>1 DEF TypeOK
      <3>. QED  BY <3>2, <3>3
    <2>5. Blocked' = Append(Blocked, n)
      BY <2>2, <2>3, <2>4, SeqEqual
    <2>6. Len(Blocked) < MAX_BLOCKED_NODES
      BY <1>3, NodeListIs DEF BlockedRead
    <2>. QED
      BY <1>1, <1>2, <2>1, <2>5, <2>6
      DEF Fifo!AddBlockedNode, Success, Fifo!Success, Blocked
  <1>4. CASE num_nodes >= MAX_BLOCKED_NODES
    <2>1. UNCHANGED <<num_nodes, node_id>> /\ ret' = Failure(Invalid)
      BY <1>4 DEF AddBlockedNode, TypeOK, blocked_nodes
    <2>2. Blocked' = Blocked /\ ~(Len(Blocked) < MAX_BLOCKED_NODES)
      BY <2>1, <1>4, NodeListIs DEF TypeOK, BlockedRead, Blocked, NodeList
    <2>. QED
      BY <1>1, <1>2, <2>1, <2>2
      DEF Fifo!AddBlockedNode, Failure, Fifo!Failure, Blocked
  <1>. QED  BY <1>3, <1>4 DEF TypeOK

LEMMA ExtractBlockedNodesRefines ==
  ASSUME Inv, Inv', NEW into, ExtractBlockedNodes(into)
  PROVE  Fifo!ExtractBlockedNodes(into)
  <1>1. /\ live /\ live' /\ UNCHANGED <<cur_rd, count, queue_mem, live>>
        /\ num_nodes' = 0 /\ ret' = Success(Invalid)
        /\ out' = into \o Blocked
        /\ Len(into) + num_nodes <= MAX_BLOCKED_NODES
    BY DEF ExtractBlockedNodes, ring, Blocked
  <1>2. Contents' = Contents
    BY <1>1 DEF Contents
  <1>3. Len(Blocked) = num_nodes
    BY NodeListIs DEF Inv, BlockedRead
  <1>4. Blocked' = <<>>
    BY <1>1, NodeListIsNext, EmptyIsEmpty DEF Inv, BlockedRead
  <1>. QED
    BY <1>1, <1>2, <1>3, <1>4
    DEF Fifo!ExtractBlockedNodes, Success, Fifo!Success, Blocked

LEMMA CallReleasedRefines == CallReleased => Fifo!CallReleased
  BY DEF CallReleased, Fifo!CallReleased, ring, blocked_nodes, Failure, Fifo!Failure

LEMMA StutterRefines == UNCHANGED vars => UNCHANGED Fifo!vars
  BY DEF vars, Fifo!vars, Contents, NodeList

(* Every step of the ring is a step of the abstract queue or a stutter. *)
LEMMA StepRefines == Inv /\ Inv' /\ [Next]_vars => [Fifo!Next]_Fifo!vars
  <1>. SUFFICES ASSUME Inv, Inv', [Next]_vars PROVE [Fifo!Next]_Fifo!vars
    OBVIOUS
  <1>1. CASE Create
    BY <1>1, CreateRefines DEF Fifo!Next
  <1>2. CASE Release
    BY <1>2, ReleaseRefines DEF Fifo!Next
  <1>3. ASSUME NEW id \in ObjDesc, Enqueue(id)  PROVE Fifo!Next
    BY <1>3, EnqueueRefines DEF Fifo!Next
  <1>4. CASE Dequeue
    BY <1>4, DequeueRefines DEF Fifo!Next
  <1>5. CASE GetCount
    BY <1>5, GetCountRefines DEF Fifo!Next
  <1>6. ASSUME NEW n \in Node, AddBlockedNode(n)  PROVE Fifo!Next
    BY <1>6, AddBlockedNodeRefines DEF Fifo!Next
  <1>7. CASE ExtractBlockedNodes(<<>>)
    BY <1>7, ExtractBlockedNodesRefines DEF Fifo!Next
  <1>8. CASE ExtractBlockedNodes(out)
    BY <1>8, ExtractBlockedNodesRefines DEF Fifo!Next
  <1>9. CASE CallReleased
    BY <1>9, CallReleasedRefines DEF Fifo!Next
  <1>10. CASE UNCHANGED vars
    BY <1>10, StutterRefines
  <1>. QED
    BY <1>1, <1>2, <1>3, <1>4, <1>5, <1>6, <1>7, <1>8, <1>9, <1>10 DEF Next

(***************************************************************************)
(* The ring of vx_obj_desc_queue.c, with its wrapping indices and its      *)
(* memory that is never cleared, is a bounded first-in first-out queue.    *)
(***************************************************************************)
THEOREM RefinesFifo == Spec => ImplementsFifo
  <1>1. Spec => []Inv
    BY InitInv, NextInv, PTL DEF Spec
  <1>. QED
    BY <1>1, InitRefines, StepRefines, PTL DEF Spec, Fifo!Spec, ImplementsFifo
=============================================================================

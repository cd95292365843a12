--------------------------- MODULE TivxQueueProofs ---------------------------
(***************************************************************************)
(* For every number of threads, every size and both flags of the queue: no *)
(* wake-up is lost, and the ring with its mutex and its two condition      *)
(* variables implements the bounded first-in first-out list BoundedQueue.  *)
(***************************************************************************)
EXTENDS TivxQueue, Integers, FiniteSetTheorems, SequenceTheorems, TLAPS

-----------------------------------------------------------------------------
(* The inductive invariant                                                 *)

Slot == 0 .. MaxEle - 1

RingConsistent == cur_wr = (cur_rd + count) % MaxEle

(* No thread is inside a call on a queue that is not there. *)
DeletedIsIdle == ~context => \A t \in Thread : pc[t] = "idle"

(* Who sleeps does so on a condition variable that is signalled. *)
SleepersAreSignalled ==
  \A t \in Thread : /\ pc[t] = "sleep_get" => BlockOnGet
                    /\ pc[t] = "sleep_put" => BlockOnPut

PutsHaveData == \A t \in Thread : pc[t] \in {"put", "sleep_put"} => data[t] \in Data

(* TypeOK in two parts. *)
RingTypes ==
  /\ context \in BOOLEAN
  /\ queue \in [Slot -> Data \cup {NoData}]
  /\ cur_rd \in Slot /\ cur_wr \in Slot /\ count \in 0 .. MaxEle
  /\ pc \in [Thread -> {"idle", "put", "get", "sleep_put", "sleep_get"}]
  /\ data \in [Thread -> Data \cup {NoData}]
  /\ wait \in [Thread -> BOOLEAN]

RetType(r) ==
  r \in Thread \X {"create", "delete", "put", "get", "peek"} \X {"SUCCESS", "FAILURE"}
         \X (Data \cup {NoData})

LEMMA Types == TypeOK <=> RingTypes /\ (ret # <<>> => RetType(ret))
  BY DEF TypeOK, RingTypes, RetType, Slot

LEMMA RetTypeOf ==
  ASSUME NEW t \in Thread, NEW name \in {"create", "delete", "put", "get", "peek"},
         NEW status \in {"SUCCESS", "FAILURE"}, NEW d \in Data \cup {NoData}
  PROVE  RetType(<<t, name, status, d>>)
  BY DEF RetType

Shape == RingTypes /\ (ret # <<>> => RetType(ret)) /\ RingConsistent /\ DeletedIsIdle
          /\ SleepersAreSignalled /\ PutsHaveData

Inv == Shape /\ NoLostWakeup

-----------------------------------------------------------------------------
(* Remainders of an index that ran past the end by less than the size.     *)
LEMMA Around ==
  ASSUME NEW i \in Slot, NEW k \in 0 .. MaxEle
  PROVE  (i + k) % MaxEle = IF i + k < MaxEle THEN i + k ELSE i + k - MaxEle
<1> USE SizeAssumption DEF Slot
<1>1. \A N \in Nat \ {0} : \A x \in 0 .. N - 1 : x % N = x
  BY SMT
<1>2. \A N \in Nat \ {0} : \A x \in N .. 2 * N - 1 : x % N = x - N
  BY SMT
<1>3. CASE i + k < MaxEle
  BY <1>1, <1>3, i + k \in 0 .. MaxEle - 1
<1>4. CASE ~(i + k < MaxEle)
  BY <1>2, <1>4, i + k \in MaxEle .. 2 * MaxEle - 1
<1> QED BY <1>3, <1>4

LEMMA AdvanceIs ==
  ASSUME NEW i \in Slot
  PROVE  Advance(i) \in Slot /\ Advance(i) = IF i = MaxEle - 1 THEN 0 ELSE i + 1
<1>1. 1 \in 0 .. MaxEle
  BY SizeAssumption
<1>2. Advance(i) = IF i + 1 < MaxEle THEN i + 1 ELSE i + 1 - MaxEle
  BY <1>1, Around DEF Advance
<1> QED BY <1>2, SizeAssumption DEF Slot

(* What a turn that ends a call leaves of the threads. *)
LEMMA EndsAndWakesIs ==
  ASSUME NEW t, NEW signals, NEW asleep, NEW wakes, EndsAndWakes(t, signals, asleep, wakes)
  PROVE  \/ /\ ~(signals /\ At(asleep) # {})
            /\ pc' = [pc EXCEPT ![t] = "idle"]
         \/ \E s \in At(asleep) : pc' = [pc EXCEPT ![t] = "idle", ![s] = wakes]
  BY DEF EndsAndWakes

LEMMA InitInv == Init => Inv
<1> SUFFICES ASSUME Init PROVE Inv
  OBVIOUS
<1> USE SizeAssumption
<1>1. RingTypes /\ (ret # <<>> => RetType(ret))
  <2>1. 0 \in Slot /\ 0 \in 0 .. MaxEle
    BY DEF Slot
  <2>2. queue = [i \in Slot |-> NoData]
    BY DEF Init, Slot
  <2> QED BY <2>1, <2>2 DEF Init, RingTypes
<1>2. RingConsistent
  BY Around, 0 \in Slot, 0 \in 0 .. MaxEle DEF Init, RingConsistent, Slot
<1>3. DeletedIsIdle /\ SleepersAreSignalled /\ PutsHaveData
  BY DEF Init, DeletedIsIdle, SleepersAreSignalled, PutsHaveData
<1>4. NoLostWakeup
  BY DEF Init, NoLostWakeup, At
<1> QED BY <1>1, <1>2, <1>3, <1>4 DEF Inv, Shape

-----------------------------------------------------------------------------
(* Types, indices and who is where                                         *)

LEMMA PutShape ==
  ASSUME Shape, NEW t \in Thread, Put(t)
  PROVE  Shape'
<1> USE SizeAssumption DEF Shape
<1>1. /\ pc[t] = "put" /\ count < MaxEle /\ context' = context /\ cur_rd' = cur_rd
      /\ queue' = [queue EXCEPT ![cur_wr] = data[t]]
      /\ cur_wr' = Advance(cur_wr) /\ count' = count + 1
      /\ ret' = <<t, "put", "SUCCESS", NoData>>
      /\ data' = [data EXCEPT ![t] = NoData] /\ wait' = [wait EXCEPT ![t] = FALSE]
  BY DEF Put, HasRoom, Returns
<1>2. \/ pc' = [pc EXCEPT ![t] = "idle"]
      \/ \E s \in At("sleep_get") : pc' = [pc EXCEPT ![t] = "idle", ![s] = "get"]
  BY EndsAndWakesIs DEF Put
<1>3. RingTypes' /\ RetType(ret')
  <2>1. pc' \in [Thread -> {"idle", "put", "get", "sleep_put", "sleep_get"}]
    BY <1>2 DEF RingTypes, At
  <2>2. cur_wr' \in Slot
    BY <1>1, AdvanceIs DEF RingTypes
  <2>3. RetType(ret')
    BY <1>1, RetTypeOf
  <2>4. count' \in 0 .. MaxEle /\ cur_rd' \in Slot
    BY <1>1 DEF RingTypes
  <2>5. /\ context' \in BOOLEAN /\ wait' \in [Thread -> BOOLEAN]
        /\ queue' \in [Slot -> Data \cup {NoData}]
        /\ data' \in [Thread -> Data \cup {NoData}]
    BY <1>1 DEF RingTypes
  <2> QED BY <2>1, <2>2, <2>3, <2>4, <2>5 DEF RingTypes
<1>4. RingConsistent'
  <2>1. /\ cur_rd \in Slot /\ cur_wr \in Slot
        /\ count \in 0 .. MaxEle /\ count + 1 \in 0 .. MaxEle
    BY <1>1 DEF RingTypes
  <2>2. cur_wr = IF cur_rd + count < MaxEle THEN cur_rd + count ELSE cur_rd + count - MaxEle
    BY <2>1, Around DEF RingConsistent
  <2>3. (cur_rd + (count + 1)) % MaxEle =
           IF cur_rd + (count + 1) < MaxEle THEN cur_rd + (count + 1)
                                            ELSE cur_rd + (count + 1) - MaxEle
    BY <2>1, Around
  <2>4. cur_wr' = IF cur_wr = MaxEle - 1 THEN 0 ELSE cur_wr + 1
    BY <1>1, <2>1, AdvanceIs
  <2>5. cur_wr' = (cur_rd + (count + 1)) % MaxEle
    BY <1>1, <2>1, <2>2, <2>3, <2>4 DEF Slot
  <2> QED BY <1>1, <2>5 DEF RingConsistent
<1>5. DeletedIsIdle'
  BY <1>1 DEF DeletedIsIdle
<1>6. SleepersAreSignalled' /\ PutsHaveData'
  BY <1>1, <1>2 DEF SleepersAreSignalled, PutsHaveData, RingTypes, At
<1> QED BY <1>3, <1>4, <1>5, <1>6

LEMMA GetShape ==
  ASSUME Shape, NEW t \in Thread, Get(t)
  PROVE  Shape'
<1> USE SizeAssumption DEF Shape
<1>1. /\ pc[t] = "get" /\ count > 0 /\ UNCHANGED <<context, queue, cur_wr, data>>
      /\ cur_rd' = Advance(cur_rd) /\ count' = count - 1
      /\ ret' = <<t, "get", "SUCCESS", queue[cur_rd]>>
      /\ wait' = [wait EXCEPT ![t] = FALSE]
  BY DEF Get, Returns
<1>2. \/ pc' = [pc EXCEPT ![t] = "idle"]
      \/ \E s \in At("sleep_put") : pc' = [pc EXCEPT ![t] = "idle", ![s] = "put"]
  BY EndsAndWakesIs DEF Get
<1>3. RingTypes' /\ RetType(ret')
  <2>1. pc' \in [Thread -> {"idle", "put", "get", "sleep_put", "sleep_get"}]
    BY <1>2 DEF RingTypes, At
  <2>2. cur_rd' \in Slot
    BY <1>1, AdvanceIs DEF RingTypes
  <2>3. RetType(ret')
    BY <1>1, RetTypeOf DEF RingTypes
  <2>4. count' \in 0 .. MaxEle /\ cur_wr' \in Slot
    BY <1>1 DEF RingTypes
  <2>5. /\ context' \in BOOLEAN /\ wait' \in [Thread -> BOOLEAN]
        /\ queue' \in [Slot -> Data \cup {NoData}]
        /\ data' \in [Thread -> Data \cup {NoData}]
    BY <1>1 DEF RingTypes
  <2> QED BY <2>1, <2>2, <2>3, <2>4, <2>5 DEF RingTypes
<1>4. RingConsistent'
  <2>1. /\ cur_rd \in Slot /\ cur_wr \in Slot
        /\ count \in 0 .. MaxEle /\ count - 1 \in 0 .. MaxEle
    BY <1>1 DEF RingTypes
  <2>2. cur_wr = IF cur_rd + count < MaxEle THEN cur_rd + count ELSE cur_rd + count - MaxEle
    BY <2>1, Around DEF RingConsistent
  <2>3. cur_rd' \in Slot /\ cur_rd' = IF cur_rd = MaxEle - 1 THEN 0 ELSE cur_rd + 1
    BY <1>1, <2>1, AdvanceIs
  <2>4. (cur_rd' + (count - 1)) % MaxEle =
           IF cur_rd' + (count - 1) < MaxEle THEN cur_rd' + (count - 1)
                                             ELSE cur_rd' + (count - 1) - MaxEle
    BY <2>1, <2>3, Around
  <2>5. cur_wr = (cur_rd' + (count - 1)) % MaxEle
    BY <1>1, <2>1, <2>2, <2>3, <2>4 DEF Slot
  <2> QED BY <1>1, <2>5 DEF RingConsistent
<1>5. DeletedIsIdle'
  BY <1>1 DEF DeletedIsIdle
<1>6. SleepersAreSignalled' /\ PutsHaveData'
  BY <1>1, <1>2 DEF SleepersAreSignalled, PutsHaveData, RingTypes, At
<1> QED BY <1>3, <1>4, <1>5, <1>6

(* The steps that leave the ring alone, or set it up. *)
LEMMA OtherShape ==
  ASSUME Shape, NEW t \in Thread,
         \/ Create(t) \/ Delete(t) \/ CallDeleted(t) \/ Peek(t)
         \/ \E timeout \in BOOLEAN :
              GetCall(t, timeout) \/ \E d \in Data : PutCall(t, d, timeout)
         \/ GivesUp(t) \/ Sleep(t) \/ SpuriousWakeup(t)
  PROVE  Shape'
<1> USE SizeAssumption DEF Shape
<1>1. CASE Create(t)
  <2>1. RingTypes' /\ RetType(ret')
    BY <1>1, RetTypeOf, 0 \in Slot, 0 \in 0 .. MaxEle DEF Create, RingTypes, Returns, call, Slot
  <2>2. RingConsistent'
    BY <1>1, Around, 0 \in Slot, 0 \in 0 .. MaxEle DEF Create, RingConsistent, Slot
  <2>3. DeletedIsIdle' /\ SleepersAreSignalled' /\ PutsHaveData'
    BY <1>1 DEF Create, DeletedIsIdle, SleepersAreSignalled, PutsHaveData, call
  <2> QED BY <2>1, <2>2, <2>3
<1>2. CASE Delete(t) \/ CallDeleted(t) \/ Peek(t)
  <2>1. RingTypes'
    BY <1>2 DEF Delete, CallDeleted, Peek, RingTypes, ring, call
  <2>4. RetType(ret')
    BY <1>2, RetTypeOf DEF Delete, CallDeleted, Peek, RingTypes, Returns
  <2>2. RingConsistent' /\ SleepersAreSignalled' /\ PutsHaveData'
    BY <1>2 DEF Delete, CallDeleted, Peek, RingConsistent, SleepersAreSignalled,
       PutsHaveData, ring, call
  <2>3. DeletedIsIdle'
    BY <1>2 DEF Delete, CallDeleted, Peek, DeletedIsIdle, At, ring
  <2> QED BY <2>1, <2>2, <2>3, <2>4
<1>3. ASSUME NEW timeout \in BOOLEAN, GetCall(t, timeout)
      PROVE  Shape'
  BY <1>3 DEF GetCall, RingTypes, RingConsistent, DeletedIsIdle, SleepersAreSignalled,
     PutsHaveData, ring
<1>4. ASSUME NEW timeout \in BOOLEAN, NEW d \in Data, PutCall(t, d, timeout)
      PROVE  Shape'
  BY <1>4 DEF PutCall, RingTypes, RingConsistent, DeletedIsIdle, SleepersAreSignalled,
     PutsHaveData, ring
<1>5. CASE GivesUp(t)
  <2>1. pc[t] \in {"put", "get"}
    BY <1>5 DEF GivesUp
  <2>2. RingTypes'
    BY <1>5, <2>1 DEF GivesUp, RingTypes, ring
  <2>4. RetType(ret')
    BY <1>5, <2>1, RetTypeOf DEF GivesUp, Returns
  <2>3. RingConsistent' /\ DeletedIsIdle' /\ SleepersAreSignalled' /\ PutsHaveData'
    BY <1>5, <2>1 DEF GivesUp, RingTypes, RingConsistent, DeletedIsIdle,
       SleepersAreSignalled, PutsHaveData, ring
  <2> QED BY <2>2, <2>3, <2>4
<1>6. CASE Sleep(t)
  BY <1>6 DEF Sleep, RingTypes, RingConsistent, DeletedIsIdle, SleepersAreSignalled,
     PutsHaveData, ring, call
<1>7. CASE SpuriousWakeup(t)
  BY <1>7 DEF SpuriousWakeup, RingTypes, RingConsistent, DeletedIsIdle,
     SleepersAreSignalled, PutsHaveData, ring, call
<1> QED BY <1>1, <1>2, <1>3, <1>4, <1>5, <1>6, <1>7

-----------------------------------------------------------------------------
(* How many threads are where                                              *)

LEMMA Counted ==
  ASSUME NEW x
  PROVE  /\ IsFiniteSet(At(x)) /\ Cardinality(At(x)) \in Nat
         /\ IsFiniteSet(At(x)') /\ Cardinality(At(x)') \in Nat
<1>1. At(x) \subseteq Thread /\ At(x)' \subseteq Thread
  BY DEF At
<1> QED BY <1>1, ThreadAssumption, FS_Subset, FS_CardinalityType

LEMMA Joins ==
  ASSUME NEW x, NEW s, s \notin At(x), At(x)' = At(x) \cup {s}
  PROVE  Cardinality(At(x)') = Cardinality(At(x)) + 1
  BY Counted, FS_AddElement

LEMMA Leaves ==
  ASSUME NEW x, NEW t, t \in At(x), At(x)' = At(x) \ {t}
  PROVE  Cardinality(At(x)') = Cardinality(At(x)) - 1
  BY Counted, FS_RemoveElement

LEMMA Grows ==
  ASSUME NEW x, At(x) \subseteq At(x)'
  PROVE  Cardinality(At(x)) <= Cardinality(At(x)')
  BY Counted, FS_Subset

(* A put takes a free place and adds an element: one thread less to put, and *)
(* one more to get if any sleeps.                                            *)
LEMMA PutWakes ==
  ASSUME Inv, NEW t \in Thread, Put(t)
  PROVE  NoLostWakeup'
<1> USE SizeAssumption DEF Inv, Shape
<1>1. pc[t] = "put" /\ count' = count + 1 /\ count \in Nat /\ MaxEle \in Nat
  BY DEF Put, RingTypes
<1>2. pc \in [Thread -> {"idle", "put", "get", "sleep_put", "sleep_get"}]
  BY DEF RingTypes
<1>3. CASE /\ ~(SignalsGet(count) /\ At("sleep_get") # {})
           /\ pc' = [pc EXCEPT ![t] = "idle"]
  <2>1. /\ t \in At("put") /\ At("put")' = At("put") \ {t}
        /\ At("sleep_put")' = At("sleep_put") /\ At("sleep_get")' = At("sleep_get")
    BY <1>1, <1>2, <1>3 DEF At
  <2>2. At("sleep_get") = {}
    BY <1>3 DEF SignalsGet, SleepersAreSignalled, At
  <2> QED BY <1>1, <2>1, <2>2, Leaves, Counted DEF NoLostWakeup
<1>4. ASSUME NEW s \in At("sleep_get"), pc' = [pc EXCEPT ![t] = "idle", ![s] = "get"]
      PROVE  NoLostWakeup'
  <2>1. s \in Thread /\ pc[s] = "sleep_get" /\ s # t
    BY <1>1, <1>4 DEF At
  <2>2. /\ t \in At("put") /\ At("put")' = At("put") \ {t}
        /\ s \notin At("get") /\ At("get")' = At("get") \cup {s}
        /\ At("sleep_put")' = At("sleep_put")
    BY <1>1, <1>2, <1>4, <2>1 DEF At
  <2>3. Cardinality(At("get")) >= count
    BY <1>4 DEF NoLostWakeup
  <2>4. Cardinality(At("get")') >= count'
    BY <1>1, <2>2, <2>3, Joins, Counted
  <2>5. At("sleep_put")' # {} => Cardinality(At("put")') >= MaxEle - count'
    BY <1>1, <2>2, Leaves, Counted DEF NoLostWakeup
  <2> QED BY <2>4, <2>5 DEF NoLostWakeup
<1> QED BY <1>3, <1>4, EndsAndWakesIs DEF Put

LEMMA GetWakes ==
  ASSUME Inv, NEW t \in Thread, Get(t)
  PROVE  NoLostWakeup'
<1> USE SizeAssumption DEF Inv, Shape
<1>1. pc[t] = "get" /\ count' = count - 1 /\ count \in Nat /\ MaxEle \in Nat
  BY DEF Get, RingTypes
<1>2. pc \in [Thread -> {"idle", "put", "get", "sleep_put", "sleep_get"}]
  BY DEF RingTypes
<1>3. CASE /\ ~(SignalsPut(count) /\ At("sleep_put") # {})
           /\ pc' = [pc EXCEPT ![t] = "idle"]
  <2>1. /\ t \in At("get") /\ At("get")' = At("get") \ {t}
        /\ At("sleep_put")' = At("sleep_put") /\ At("sleep_get")' = At("sleep_get")
    BY <1>1, <1>2, <1>3 DEF At
  <2>2. At("sleep_put") = {}
    BY <1>3 DEF SignalsPut, SleepersAreSignalled, At
  <2> QED BY <1>1, <2>1, <2>2, Leaves, Counted DEF NoLostWakeup
<1>4. ASSUME NEW s \in At("sleep_put"), pc' = [pc EXCEPT ![t] = "idle", ![s] = "put"]
      PROVE  NoLostWakeup'
  <2>1. s \in Thread /\ pc[s] = "sleep_put" /\ s # t
    BY <1>1, <1>4 DEF At
  <2>2. /\ t \in At("get") /\ At("get")' = At("get") \ {t}
        /\ s \notin At("put") /\ At("put")' = At("put") \cup {s}
        /\ At("sleep_get")' = At("sleep_get")
    BY <1>1, <1>2, <1>4, <2>1 DEF At
  <2>3. Cardinality(At("put")) >= MaxEle - count
    BY <1>4 DEF NoLostWakeup
  <2>4. Cardinality(At("put")') >= MaxEle - count'
    BY <1>1, <2>2, <2>3, Joins, Counted
  <2>5. At("sleep_get")' # {} => Cardinality(At("get")') >= count'
    BY <1>1, <2>2, Leaves, Counted DEF NoLostWakeup
  <2> QED BY <2>4, <2>5 DEF NoLostWakeup
<1> QED BY <1>3, <1>4, EndsAndWakesIs DEF Get

(* A thread that gives up or falls asleep found nothing to take, or no room. *)
LEMMA OtherWakes ==
  ASSUME Inv, NEW t \in Thread,
         \/ Create(t) \/ Delete(t) \/ CallDeleted(t) \/ Peek(t)
         \/ \E timeout \in BOOLEAN :
              GetCall(t, timeout) \/ \E d \in Data : PutCall(t, d, timeout)
         \/ GivesUp(t) \/ Sleep(t) \/ SpuriousWakeup(t)
  PROVE  NoLostWakeup'
<1> USE SizeAssumption DEF Inv, Shape
<1>0. /\ count \in 0 .. MaxEle /\ MaxEle \in Nat
      /\ pc \in [Thread -> {"idle", "put", "get", "sleep_put", "sleep_get"}]
  BY DEF RingTypes
<1>1. CASE Create(t) \/ Delete(t)
  <2>1. At("sleep_put")' = {} /\ At("sleep_get")' = {}
    BY <1>1 DEF Create, Delete, DeletedIsIdle, At
  <2> QED BY <2>1 DEF NoLostWakeup
<1>2. CASE CallDeleted(t) \/ Peek(t)
  BY <1>2 DEF CallDeleted, Peek, NoLostWakeup, At, ring
<1>3. CASE \/ \E timeout \in BOOLEAN :
                GetCall(t, timeout) \/ \E d \in Data : PutCall(t, d, timeout)
           \/ SpuriousWakeup(t)
  <2>1. /\ At("get") \subseteq At("get")' /\ At("put") \subseteq At("put")'
        /\ At("sleep_get")' \subseteq At("sleep_get")
        /\ At("sleep_put")' \subseteq At("sleep_put")
        /\ count' = count
    BY <1>0, <1>3 DEF GetCall, PutCall, SpuriousWakeup, At, ring
  <2> QED BY <1>0, <2>1, Grows, Counted DEF NoLostWakeup
<1>4. CASE GivesUp(t) \/ Sleep(t)
  <2>1. \/ /\ pc[t] = "put" /\ count = MaxEle
           /\ At("get")' = At("get") /\ At("sleep_get")' = At("sleep_get")
        \/ /\ pc[t] = "get" /\ count = 0
           /\ At("put")' = At("put") /\ At("sleep_put")' = At("sleep_put")
    BY <1>0, <1>4 DEF GivesUp, Sleep, HasRoom, At
  <2>2. count' = count
    BY <1>4 DEF GivesUp, Sleep, ring
  <2> QED BY <1>0, <2>1, <2>2, Counted DEF NoLostWakeup
<1> QED BY <1>1, <1>2, <1>3, <1>4

LEMMA NextInv == Inv /\ [Next]_vars => Inv'
<1> SUFFICES ASSUME Inv, [Next]_vars PROVE Inv'
  OBVIOUS
<1>1. CASE UNCHANGED vars
  BY <1>1 DEF vars, Inv, Shape, RingTypes, RetType, RingConsistent, DeletedIsIdle,
     SleepersAreSignalled, PutsHaveData, NoLostWakeup, At
<1>2. ASSUME NEW t \in Thread, Put(t)  PROVE Inv'
  BY <1>2, PutShape, PutWakes DEF Inv
<1>3. ASSUME NEW t \in Thread, Get(t)  PROVE Inv'
  BY <1>3, GetShape, GetWakes DEF Inv
<1>4. ASSUME NEW t \in Thread,
             \/ Create(t) \/ Delete(t) \/ CallDeleted(t) \/ Peek(t)
             \/ \E timeout \in BOOLEAN :
                  GetCall(t, timeout) \/ \E d \in Data : PutCall(t, d, timeout)
             \/ GivesUp(t) \/ Sleep(t) \/ SpuriousWakeup(t)
      PROVE  Inv'
  BY <1>4, OtherShape, OtherWakes DEF Inv
<1> QED BY <1>1, <1>2, <1>3, <1>4 DEF Next, Turn

LEMMA InvHolds == Spec => []Inv
  BY InitInv, NextInv, PTL DEF Spec

(* The indices stay in the ring, and a thread sleeps in one of the two calls   *)
(* only (tivx_queue.c:229-355).                                                *)
THEOREM TypeCorrect == Spec => []TypeOK
<1>1. Inv => TypeOK
  BY Types DEF Inv, Shape
<1> QED BY <1>1, InvHolds, PTL

(* While a thread sleeps beside elements, or beside free places, as many       *)
(* threads as there are of them are awake and will look (tivx_queue.c:245-348).*)
THEOREM NoWakeupLost == Spec => []NoLostWakeup
<1>1. Inv => NoLostWakeup
  BY DEF Inv
<1> QED BY <1>1, InvHolds, PTL

-----------------------------------------------------------------------------
(* The ring implements the abstract list.                                  *)

Element == Data \cup {NoData}

(* Where the i-th element is, when the oldest is at rd. *)
PlaceOf(rd, i) == IF rd + (i - 1) < MaxEle THEN rd + (i - 1) ELSE rd + (i - 1) - MaxEle

ElementsRead ==
  /\ Elements \in Seq(Element)
  /\ context => /\ Len(Elements) = count
                /\ \A i \in 1 .. count : Elements[i] = queue[PlaceOf(cur_rd, i)]
  /\ ~context => Elements = <<>>

LEMMA ElementsIs == RingTypes => ElementsRead
<1> SUFFICES ASSUME RingTypes PROVE ElementsRead
  OBVIOUS
<1>1. CASE context
  <2>1. /\ count \in Nat /\ cur_rd \in Slot
        /\ \A i \in 1 .. count : (cur_rd + i - 1) % MaxEle = PlaceOf(cur_rd, i)
    <3>1. count \in 0 .. MaxEle /\ cur_rd \in Slot
      BY DEF RingTypes
    <3> SUFFICES ASSUME NEW i \in 1 .. count
                 PROVE  (cur_rd + i - 1) % MaxEle = PlaceOf(cur_rd, i)
      BY <3>1
    <3>2. i - 1 \in 0 .. MaxEle /\ cur_rd + i - 1 = cur_rd + (i - 1)
      BY <3>1, SizeAssumption DEF Slot
    <3> QED BY <3>1, <3>2, Around DEF PlaceOf
  <2>2. \A i \in 1 .. count : PlaceOf(cur_rd, i) \in Slot
    BY <2>1, SizeAssumption DEF PlaceOf, Slot, RingTypes
  <2>3. Elements = [i \in 1 .. count |-> queue[PlaceOf(cur_rd, i)]]
    BY <1>1, <2>1 DEF Elements
  <2>4. Elements \in [1 .. count -> Element]
    BY <2>2, <2>3 DEF RingTypes, Element
  <2>5. Elements \in Seq(Element) /\ Len(Elements) = count
    BY <2>1, <2>4, SeqDef
  <2> QED BY <1>1, <2>3, <2>5 DEF ElementsRead
<1>2. CASE ~context
  BY <1>2, EmptySeq DEF Elements, ElementsRead
<1> QED BY <1>1, <1>2

LEMMA ElementsIsNext == RingTypes' => ElementsRead'
  BY ElementsIs, PTL

LEMMA InitRefines == Init => B!Init
  BY DEF Init, B!Init, Elements

LEMMA PutRefines ==
  ASSUME Inv, Inv', NEW t \in Thread, Put(t)
  PROVE  B!Put(t, data[t]) /\ data[t] \in Data
<1> USE SizeAssumption DEF Inv, Shape
<1>1. /\ context /\ context' /\ count < MaxEle /\ count \in Nat
      /\ cur_rd' = cur_rd /\ count' = count + 1
      /\ queue' = [queue EXCEPT ![cur_wr] = data[t]]
      /\ ret' = <<t, "put", "SUCCESS", NoData>>
      /\ data[t] \in Data
  BY DEF Put, HasRoom, Returns, RingTypes, DeletedIsIdle, PutsHaveData
<1>2. cur_wr = PlaceOf(cur_rd, count + 1)
  <2>1. count \in 0 .. MaxEle /\ cur_rd \in Slot /\ (count + 1) - 1 = count
    BY DEF RingTypes
  <2> QED BY <2>1, Around DEF RingConsistent, PlaceOf
<1>3. /\ Elements \in Seq(Element) /\ Len(Elements) = count
      /\ \A i \in 1 .. count : Elements[i] = queue[PlaceOf(cur_rd, i)]
  BY <1>1, ElementsIs DEF ElementsRead
<1>4. /\ Elements' \in Seq(Element) /\ Len(Elements') = count + 1
      /\ \A i \in 1 .. count + 1 : Elements'[i] = queue'[PlaceOf(cur_rd, i)]
  BY <1>1, ElementsIsNext DEF ElementsRead
<1>5. /\ Append(Elements, data[t]) \in Seq(Element)
      /\ Len(Append(Elements, data[t])) = count + 1
      /\ \A i \in 1 .. count : Append(Elements, data[t])[i] = Elements[i]
      /\ Append(Elements, data[t])[count + 1] = data[t]
  BY <1>1, <1>3, AppendProperties, data[t] \in Element DEF Element
<1>6. ASSUME NEW i \in 1 .. count + 1
      PROVE  Elements'[i] = Append(Elements, data[t])[i]
  <2>1. CASE i = count + 1
    BY <1>1, <1>2, <1>4, <1>5, <2>1 DEF RingTypes
  <2>2. CASE i # count + 1
    <3>1. i \in 1 .. count
      BY <1>1, <2>2
    <3>2. PlaceOf(cur_rd, i) \in Slot \ {cur_wr}
      BY <1>1, <1>2, <3>1 DEF PlaceOf, Slot, RingTypes
    <3> QED BY <1>1, <1>3, <1>4, <1>5, <3>1, <3>2 DEF RingTypes
  <2> QED BY <2>1, <2>2
<1>7. Elements' = Append(Elements, data[t])
  BY <1>4, <1>5, <1>6, SeqEqual
<1> QED BY <1>1, <1>3, <1>7 DEF B!Put, B!Returns

LEMMA GetRefines ==
  ASSUME Inv, Inv', NEW t \in Thread, Get(t)
  PROVE  B!Get(t)
<1> USE SizeAssumption DEF Inv, Shape
<1>1. /\ context /\ context' /\ count > 0 /\ count \in 0 .. MaxEle
      /\ cur_rd \in Slot /\ cur_rd' = Advance(cur_rd) /\ count' = count - 1
      /\ queue' = queue
      /\ ret' = <<t, "get", "SUCCESS", queue[cur_rd]>>
  BY DEF Get, Returns, RingTypes, DeletedIsIdle
<1>2. /\ Elements \in Seq(Element) /\ Len(Elements) = count
      /\ \A i \in 1 .. count : Elements[i] = queue[PlaceOf(cur_rd, i)]
  BY <1>1, ElementsIs DEF ElementsRead
<1>3. /\ Elements' \in Seq(Element) /\ Len(Elements') = count - 1
      /\ \A i \in 1 .. count - 1 : Elements'[i] = queue[PlaceOf(cur_rd', i)]
  BY <1>1, ElementsIsNext DEF ElementsRead
<1>4. Elements # <<>> /\ Head(Elements) = queue[cur_rd]
  <2>1. Elements # <<>> /\ Head(Elements) = Elements[1]
    BY <1>1, <1>2, EmptySeq
  <2>2. PlaceOf(cur_rd, 1) = cur_rd
    BY <1>1 DEF PlaceOf, Slot
  <2> QED BY <1>1, <1>2, <2>1, <2>2
<1>5. /\ Tail(Elements) \in Seq(Element) /\ Len(Tail(Elements)) = count - 1
      /\ \A i \in 1 .. count - 1 : Tail(Elements)[i] = Elements[i + 1]
  BY <1>2, <1>4, HeadTailProperties
<1>6. ASSUME NEW i \in 1 .. count - 1
      PROVE  Elements'[i] = Tail(Elements)[i]
  <2>1. i + 1 \in 1 .. count
    BY <1>1
  <2>2. PlaceOf(cur_rd', i) = PlaceOf(cur_rd, i + 1)
    <3>1. cur_rd' = IF cur_rd = MaxEle - 1 THEN 0 ELSE cur_rd + 1
      BY <1>1, AdvanceIs
    <3>2. CASE cur_rd = MaxEle - 1
      BY <1>1, <3>1, <3>2 DEF PlaceOf, Slot
    <3>3. CASE cur_rd # MaxEle - 1
      BY <1>1, <3>1, <3>3 DEF PlaceOf, Slot
    <3> QED BY <3>2, <3>3
  <2> QED BY <1>2, <1>3, <1>5, <2>1, <2>2
<1>7. Elements' = Tail(Elements)
  BY <1>3, <1>5, <1>6, SeqEqual
<1> QED BY <1>1, <1>4, <1>7 DEF B!Get, B!Returns

(* The calls that fail, look, or set the queue up. *)
LEMMA OtherRefines ==
  ASSUME Inv, Inv', NEW t \in Thread,
         Create(t) \/ Delete(t) \/ CallDeleted(t) \/ Peek(t) \/ GivesUp(t)
  PROVE  B!Next
<1> USE SizeAssumption DEF Inv, Shape
<1>1. CASE Create(t)
  <2>1. context' /\ count' = 0 /\ ~context
    BY <1>1 DEF Create
  <2>2. Elements' = <<>>
    BY <2>1, ElementsIsNext, EmptySeq DEF ElementsRead
  <2>3. B!Create(t)
    BY <1>1, <2>1, <2>2 DEF Create, Returns, B!Create, B!Returns, RingTypes
  <2> QED BY <2>3 DEF B!Next
<1>2. CASE Delete(t)
  <2>1. B!Delete(t)
    BY <1>2 DEF Delete, Returns, B!Delete, B!Returns, Elements, RingTypes
  <2> QED BY <2>1 DEF B!Next
<1>3. CASE CallDeleted(t)
  <2>1. Elements' = Elements
    BY <1>3 DEF CallDeleted, ring, Elements
  <2>2. B!PutFails(t) \/ B!GetFails(t)
    BY <1>3, <2>1 DEF CallDeleted, ring, Returns, B!PutFails, B!GetFails, B!Returns
  <2> QED BY <2>2 DEF B!Next
<1>4. CASE Peek(t)
  <2>1. Elements' = Elements /\ context /\ context' = context
    BY <1>4 DEF Peek, ring, Elements
  <2>2. /\ Elements \in Seq(Element) /\ Len(Elements) = count /\ count \in Nat
        /\ count > 0 => Elements[1] = queue[PlaceOf(cur_rd, 1)]
    BY <2>1, ElementsIs DEF ElementsRead, RingTypes
  <2>3. PlaceOf(cur_rd, 1) = cur_rd
    BY DEF PlaceOf, Slot, RingTypes
  <2>4. (IF Elements = <<>> THEN NoData ELSE Head(Elements))
           = (IF count > 0 THEN queue[cur_rd] ELSE NoData)
    BY <2>2, <2>3, EmptySeq
  <2>5. B!Peek(t)
    BY <1>4, <2>1, <2>4 DEF Peek, Returns, B!Peek, B!Returns
  <2> QED BY <2>5 DEF B!Next
<1>5. CASE GivesUp(t)
  <2>1. Elements' = Elements /\ context /\ context' = context
    BY <1>5 DEF GivesUp, ring, Elements, DeletedIsIdle
  <2>2. Elements \in Seq(Element) /\ Len(Elements) = count /\ count \in 0 .. MaxEle
    BY <2>1, ElementsIs DEF ElementsRead, RingTypes
  <2>3. CASE pc[t] = "put" /\ ~HasRoom(count)
    <3>1. B!PutFails(t)
      BY <1>5, <2>1, <2>2, <2>3 DEF GivesUp, HasRoom, Returns, B!PutFails, B!Returns
    <3> QED BY <3>1 DEF B!Next
  <2>4. CASE pc[t] = "get" /\ count = 0
    <3>1. Elements = <<>>
      BY <2>2, <2>4, EmptySeq
    <3>2. B!GetFails(t)
      BY <1>5, <2>1, <2>4, <3>1 DEF GivesUp, Returns, B!GetFails, B!Returns
    <3> QED BY <3>2 DEF B!Next
  <2> QED BY <1>5, <2>3, <2>4 DEF GivesUp
<1> QED BY <1>1, <1>2, <1>3, <1>4, <1>5

LEMMA StepRefines == Inv /\ Inv' /\ [Next]_vars => [B!Next]_B!vars
<1> SUFFICES ASSUME Inv, Inv', [Next]_vars PROVE [B!Next]_B!vars
  OBVIOUS
<1>1. CASE UNCHANGED vars
  BY <1>1 DEF vars, B!vars, Elements
<1>2. ASSUME NEW t \in Thread, Put(t)  PROVE B!Next
  BY <1>2, PutRefines DEF B!Next
<1>3. ASSUME NEW t \in Thread, Get(t)  PROVE B!Next
  BY <1>3, GetRefines DEF B!Next
<1>4. ASSUME NEW t \in Thread,
             Create(t) \/ Delete(t) \/ CallDeleted(t) \/ Peek(t) \/ GivesUp(t)
      PROVE  B!Next
  BY <1>4, OtherRefines
<1>5. ASSUME NEW t \in Thread,
             \/ \E timeout \in BOOLEAN :
                  GetCall(t, timeout) \/ \E d \in Data : PutCall(t, d, timeout)
             \/ Sleep(t) \/ SpuriousWakeup(t)
      PROVE  UNCHANGED B!vars
  <2>1. UNCHANGED <<ring, ret>>
    BY <1>5 DEF GetCall, PutCall, Sleep, SpuriousWakeup
  <2> QED BY <2>1 DEF ring, B!vars, Elements
<1> QED BY <1>1, <1>2, <1>3, <1>4, <1>5 DEF Next, Turn

(* Every call takes effect at one moment on a bounded first-in first-out list; *)
(* sleeping, waking up and waiting for the mutex do not show                   *)
(* (tivx_queue.c:78-436).                                                      *)
THEOREM RefinesQueue == Spec => ImplementsQueue
  BY InvHolds, InitRefines, StepRefines, PTL DEF Spec, B!Spec, ImplementsQueue
=============================================================================

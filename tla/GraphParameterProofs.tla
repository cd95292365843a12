------------------------ MODULE GraphParameterProofs ------------------------
(***************************************************************************)
(* For every number of references, releasing tasks and sizes: no reference *)
(* of a graph parameter is lost or handed out twice, also when dequeue     *)
(* calls fail half way, no more consumed events are told than there are    *)
(* references, and a single dequeuing thread is never left beside one.     *)
(***************************************************************************)
EXTENDS GraphParameter, FiniteSetTheorems, SequenceTheorems, TLAPS

-----------------------------------------------------------------------------
(* Queues whose elements are all different                                 *)

(* Putting an element at the end adds it to the set. *)
LEMMA Appended ==
  ASSUME NEW T, NEW s \in Seq(T), NEW e \in T
  PROVE  /\ Append(s, e) \in Seq(T)
         /\ Range(Append(s, e)) = Range(s) \cup {e}
         /\ IsInjective(s) /\ e \notin Range(s) => IsInjective(Append(s, e))
  <1>1. /\ Append(s, e) \in Seq(T) /\ Len(Append(s, e)) = Len(s) + 1
        /\ \A i \in 1 .. Len(s) : Append(s, e)[i] = s[i]
        /\ Append(s, e)[Len(s) + 1] = e
    OBVIOUS
  <1>2. /\ DOMAIN s = 1 .. Len(s) /\ Len(s) \in Nat
        /\ DOMAIN Append(s, e) = 1 .. (Len(s) + 1)
    BY <1>1, LenProperties
  <1>3. \A i \in 1 .. (Len(s) + 1) : i \in 1 .. Len(s) \/ i = Len(s) + 1
    BY <1>2
  <1>4. Len(s) + 1 \in 1 .. (Len(s) + 1) /\ 1 .. Len(s) \subseteq 1 .. (Len(s) + 1)
    BY <1>2
  <1>5. Range(Append(s, e)) \subseteq Range(s) \cup {e}
    BY <1>1, <1>2, <1>3 DEF Range
  <1>6. Range(s) \cup {e} \subseteq Range(Append(s, e))
    <2>1. e \in Range(Append(s, e))
      BY <1>1, <1>2, <1>4 DEF Range
    <2>2. ASSUME NEW x \in Range(s) PROVE x \in Range(Append(s, e))
      <3>1. PICK i \in 1 .. Len(s) : x = s[i]
        BY <1>2, <2>2 DEF Range
      <3>2. i \in DOMAIN Append(s, e) /\ Append(s, e)[i] = x
        BY <1>1, <1>2, <1>4, <3>1
      <3>. QED  BY <3>2 DEF Range
    <2>. QED  BY <2>1, <2>2
  <1>7. ASSUME IsInjective(s), e \notin Range(s)  PROVE IsInjective(Append(s, e))
    BY <1>1, <1>2, <1>7 DEF Range, IsInjective
  <1>. QED  BY <1>1, <1>5, <1>6, <1>7

(* Taking the head removes it, from a queue without doubles for good. *)
LEMMA Removed ==
  ASSUME NEW T, NEW s \in Seq(T), s # <<>>
  PROVE  /\ Head(s) \in T /\ Tail(s) \in Seq(T)
         /\ Range(s) = Range(Tail(s)) \cup {Head(s)}
         /\ IsInjective(s) => IsInjective(Tail(s)) /\ Head(s) \notin Range(Tail(s))
  <1>1. /\ Head(s) \in T /\ Tail(s) \in Seq(T) /\ Len(s) > 0 /\ Head(s) = s[1]
        /\ Len(Tail(s)) = Len(s) - 1
        /\ \A i \in 1 .. (Len(s) - 1) : Tail(s)[i] = s[i + 1]
    BY EmptySeq, HeadTailProperties
  <1>2. /\ DOMAIN s = 1 .. Len(s) /\ Len(s) \in Nat
        /\ DOMAIN Tail(s) = 1 .. (Len(s) - 1)
    BY <1>1, LenProperties
  <1>3. /\ \A i \in DOMAIN Tail(s) : i + 1 \in DOMAIN s /\ i + 1 # 1
        /\ \A i \in DOMAIN s \ {1} : i - 1 \in DOMAIN Tail(s) /\ i - 1 + 1 = i
        /\ 1 \in DOMAIN s
    BY <1>1, <1>2
  <1>4. \A i \in DOMAIN Tail(s) : Tail(s)[i] = s[i + 1]
    BY <1>1, <1>2
  <1>. HIDE <1>1, <1>2
  <1>5. Head(s) \in Range(s)
    BY <1>1, <1>3 DEF Range
  <1>6. Range(Tail(s)) \subseteq Range(s)
    BY <1>3, <1>4 DEF Range
  <1>7. Range(s) \subseteq Range(Tail(s)) \cup {Head(s)}
    <2>1. ASSUME NEW i \in DOMAIN s, i # 1  PROVE s[i] \in Range(Tail(s))
      <3>1. i - 1 \in DOMAIN Tail(s) /\ Tail(s)[i - 1] = s[i]
        BY <1>3, <1>4, <2>1
      <3>. QED  BY <3>1 DEF Range
    <2>. QED  BY <1>1, <2>1 DEF Range
  <1>8. ASSUME IsInjective(s)
        PROVE  IsInjective(Tail(s)) /\ Head(s) \notin Range(Tail(s))
    <2>1. IsInjective(Tail(s))
      <3>1. ASSUME NEW i \in DOMAIN Tail(s), NEW j \in DOMAIN Tail(s), Tail(s)[i] = Tail(s)[j]
            PROVE  i = j
        <4>1. i + 1 = j + 1
          BY <1>3, <1>4, <1>8, <3>1 DEF IsInjective
        <4>. QED  BY <4>1, <1>2
      <3>. QED  BY <3>1 DEF IsInjective
    <2>2. Head(s) \notin Range(Tail(s))
      BY <1>1, <1>3, <1>4, <1>8 DEF Range, IsInjective
    <2>. QED  BY <2>1, <2>2
  <1>. QED  BY <1>1, <1>5, <1>6, <1>7, <1>8

(* An empty queue holds nothing, and nothing twice. *)
LEMMA EmptyHasNone == Range(<<>>) = {} /\ IsInjective(<<>>)
  BY DEF Range, IsInjective

(* A queue without doubles is as long as it has elements. *)
LEMMA LenIsCardinality ==
  ASSUME NEW T, NEW s \in Seq(T), IsInjective(s)
  PROVE  IsFiniteSet(Range(s)) /\ Cardinality(Range(s)) = Len(s) /\ Range(s) \subseteq T
  <1>1. DOMAIN s = 1 .. Len(s) /\ Len(s) \in Nat
    BY LenProperties
  <1>2. IsFiniteSet(1 .. Len(s)) /\ Cardinality(1 .. Len(s)) = Len(s)
    BY <1>1, FS_Interval
  <1>3. s \in Bijection(1 .. Len(s), Range(s))
    <2>1. s \in [1 .. Len(s) -> Range(s)]
      BY <1>1 DEF Range
    <2>. QED  BY <1>1, <2>1 DEF Bijection, Injection, Surjection, IsInjective, Range
  <1>4. ExistsBijection(1 .. Len(s), Range(s))
    BY <1>3 DEF ExistsBijection
  <1>5. Range(s) \subseteq T
    BY <1>1 DEF Range
  <1>. QED  BY <1>2, <1>4, <1>5, FS_Bijection

-----------------------------------------------------------------------------
(* The inductive invariant                                                 *)

(* The types, and what a call holds between two calls. *)
Shape ==
  /\ TypeOK
  /\ refs \in [Dequeuer -> Seq(Ref)]
  /\ \A c \in Dequeuer : pc[c] = "idle" => refs[c] = <<>>

InReady(r) == r \in Range(ready_q)
InDone(r) == r \in Range(done_q)
HeldBy(r, c) == r \in Range(refs[c])
Held(r) == \E c \in Dequeuer : HeldBy(r, c)

(* Each reference is in one place, and there once. *)
OnePlace ==
  /\ IsInjective(ready_q) /\ IsInjective(done_q)
  /\ \A c \in Dequeuer : IsInjective(refs[c])
  /\ \A r \in Ref : \A c, d \in Dequeuer : HeldBy(r, c) /\ HeldBy(r, d) => c = d
  /\ \A r \in Ref :
       /\ r \in owned \/ InReady(r) \/ r \in in_use \/ InDone(r) \/ Held(r)
       /\ r \in owned => ~InReady(r) /\ r \notin in_use /\ ~InDone(r) /\ ~Held(r)
       /\ InReady(r) => r \notin in_use /\ ~InDone(r) /\ ~Held(r)
       /\ r \in in_use => ~InDone(r) /\ ~Held(r)
       /\ InDone(r) => ~Held(r)

(* A reference that was released counts from then on, its command later. *)
EventsCounted ==
  /\ IsFiniteSet(sending)
  /\ told + events + host_q + Cardinality(sending) <= dequeued + Len(done_q)

Inv == Shape /\ OnePlace /\ EventsCounted

-----------------------------------------------------------------------------
(* What OnePlace says of one reference makes up what is checked of the sets. *)
LEMMA PlacesAccount ==
  ASSUME Shape, OnePlace
  PROVE  EveryRefAccounted
<1> DEFINE R == Range(ready_q)
           D == Range(done_q)
           H == InHand
<1>1. /\ IsFiniteSet(R) /\ Cardinality(R) = Len(ready_q) /\ R \subseteq Ref
      /\ IsFiniteSet(D) /\ Cardinality(D) = Len(done_q) /\ D \subseteq Ref
  BY LenIsCardinality DEF Shape, TypeOK, OnePlace
<1>2. \A r : r \in H <=> Held(r)
  BY DEF InHand, Held, HeldBy
<1>3. H \subseteq Ref
  <2> SUFFICES ASSUME NEW r \in H PROVE r \in Ref
    OBVIOUS
  <2>1. PICK c \in Dequeuer : r \in Range(refs[c])
    BY <1>2 DEF Held, HeldBy
  <2>2. refs[c] \in Seq(Ref)
    BY DEF Shape
  <2> QED BY <2>1, <2>2, LenIsCardinality DEF OnePlace
<1>4. /\ IsFiniteSet(owned) /\ IsFiniteSet(in_use) /\ IsFiniteSet(H)
      /\ owned \subseteq Ref /\ in_use \subseteq Ref
  BY <1>3, RefAssumption, FS_Subset DEF Shape, TypeOK
<1> HIDE DEF R, D, H
<1>5. /\ owned \cup R \cup in_use \cup D \cup H = Ref
      /\ owned \cap R = {} /\ (owned \cup R) \cap in_use = {}
      /\ (owned \cup R \cup in_use) \cap D = {}
      /\ (owned \cup R \cup in_use \cup D) \cap H = {}
  BY <1>1, <1>2, <1>3, <1>4 DEF OnePlace, InReady, InDone, R, D
<1>6. ASSUME NEW S, NEW T, IsFiniteSet(S), IsFiniteSet(T), S \cap T = {}
      PROVE  /\ IsFiniteSet(S \cup T)
             /\ Cardinality(S \cup T) = Cardinality(S) + Cardinality(T)
  <2>1. Cardinality(S \cap T) = 0
    BY <1>6, FS_EmptySet
  <2>2. Cardinality(S) \in Nat /\ Cardinality(T) \in Nat
    BY <1>6, FS_CardinalityType
  <2>3. /\ IsFiniteSet(S \cup T)
        /\ Cardinality(S \cup T) = Cardinality(S) + Cardinality(T) - Cardinality(S \cap T)
    BY <1>6, FS_Union
  <2> QED BY <2>1, <2>2, <2>3
<1>7. /\ IsFiniteSet(owned \cup R)
      /\ Cardinality(owned \cup R) = Cardinality(owned) + Cardinality(R)
  BY <1>1, <1>4, <1>5, <1>6
<1>8. /\ IsFiniteSet(owned \cup R \cup in_use)
      /\ Cardinality(owned \cup R \cup in_use) = Cardinality(owned \cup R) + Cardinality(in_use)
  BY <1>4, <1>5, <1>6, <1>7
<1>9. /\ IsFiniteSet(owned \cup R \cup in_use \cup D)
      /\ Cardinality(owned \cup R \cup in_use \cup D)
           = Cardinality(owned \cup R \cup in_use) + Cardinality(D)
  BY <1>1, <1>5, <1>6, <1>8
<1>10. Cardinality(Ref) = Cardinality(owned \cup R \cup in_use \cup D) + Cardinality(H)
  BY <1>4, <1>5, <1>6, <1>9
<1>11. /\ Cardinality(owned) \in Nat /\ Cardinality(R) \in Nat /\ Cardinality(in_use) \in Nat
       /\ Cardinality(D) \in Nat /\ Cardinality(H) \in Nat
  BY <1>1, <1>4, FS_CardinalityType
<1>12. Cardinality(owned) + Cardinality(R) + Cardinality(in_use) + Cardinality(D)
         + Cardinality(H) = Cardinality(Ref)
  BY <1>7, <1>8, <1>9, <1>10, <1>11
<1> QED BY <1>1, <1>5, <1>12 DEF EveryRefAccounted, R, D, H

LEMMA InitInv ==
  ASSUME Init
  PROVE  Inv
<1> USE RefAssumption, SizeAssumption DEF Init
<1>1. Shape
  <2>1. /\ <<>> \in Seq(Ref) /\ 0 \in 0 .. EventDepth /\ 0 \in 0 .. MaxRefs
    BY EmptySeq
  <2>2. refs = [c \in Dequeuer |-> <<>>] /\ refs \in [Dequeuer -> Seq(Ref)]
    BY <2>1
  <2>3. TypeOK
    BY <2>1, <2>2 DEF TypeOK
  <2> QED BY <2>2, <2>3 DEF Shape
<1>2. OnePlace
  BY EmptyHasNone DEF OnePlace, InReady, InDone, Held, HeldBy
<1>3. EventsCounted
  BY FS_EmptySet DEF EventsCounted
<1> QED BY <1>1, <1>2, <1>3 DEF Inv

-----------------------------------------------------------------------------
(* References move from one place to the next                              *)

LEMMA EnqueueStep ==
  ASSUME Inv, NEW r \in Ref, EnqueueReadyRef(r)
  PROVE  Inv'
<1> USE DEF Inv, EnqueueReadyRef, graph
<1>1. /\ ready_q' \in Seq(Ref) /\ Range(ready_q') = Range(ready_q) \cup {r}
      /\ IsInjective(ready_q')
  BY Appended DEF Shape, TypeOK, OnePlace, InReady
<1>2. Shape'
  BY <1>1 DEF Shape, TypeOK
<1>3. OnePlace'
  <2>1. \A x \in Ref : InReady(x)' <=> InReady(x) \/ x = r
    BY <1>1 DEF InReady
  <2>2. \A x \in Ref : (Held(x)' <=> Held(x)) /\ (InDone(x)' <=> InDone(x))
    BY DEF Held, HeldBy, InDone
  <2> QED BY <1>1, <2>1, <2>2 DEF OnePlace, HeldBy
<1>4. EventsCounted'
  BY DEF EventsCounted
<1> QED BY <1>2, <1>3, <1>4

LEMMA DequeueCallStep ==
  ASSUME Inv, NEW c \in Dequeuer, NEW n \in 1 .. MaxRefs, DequeueCall(c, n)
  PROVE  Inv'
<1> USE DEF Inv, DequeueCall, graph
<1>1. Shape'
  BY SizeAssumption DEF Shape, TypeOK
<1>2. OnePlace' /\ EventsCounted'
  BY DEF OnePlace, InReady, InDone, Held, HeldBy, EventsCounted
<1> QED BY <1>1, <1>2

(* The step of a dequeue call that takes the oldest reference. *)
LEMMA TakeStep ==
  ASSUME Inv, NEW c \in Dequeuer, TakeRef(c), done_q # <<>>
  PROVE  Inv'
<1> DEFINE h == Head(done_q)
           got == Append(refs[c], h)
<1> USE DEF Inv
<1>1. /\ h \in Ref /\ done_q' = Tail(done_q) /\ done_q' \in Seq(Ref)
      /\ Range(done_q) = Range(done_q') \cup {h}
      /\ IsInjective(done_q') /\ h \notin Range(done_q')
  <2>1. done_q \in Seq(Ref) /\ IsInjective(done_q)
    BY DEF Shape, TypeOK, OnePlace
  <2>2. done_q' = Tail(done_q)
    BY DEF TakeRef
  <2> QED BY <2>1, <2>2, Removed
<1>2. /\ refs[c] \in Seq(Ref) /\ InDone(h) /\ ~Held(h) /\ pc[c] = "dequeue"
      /\ Len(refs[c]) < want[c]
  <2>1. pc[c] = "dequeue"
    BY DEF TakeRef
  <2>2. refs[c] \in Seq(Ref) /\ Len(refs[c]) < want[c]
    BY <2>1 DEF Shape, TypeOK
  <2>3. InDone(h)
    BY <1>1 DEF InDone
  <2>4. ~Held(h)
    BY <1>1, <2>3 DEF OnePlace
  <2> QED BY <2>1, <2>2, <2>3, <2>4
<1>3. /\ got \in Seq(Ref) /\ Range(got) = Range(refs[c]) \cup {h} /\ IsInjective(got)
      /\ Len(got) = Len(refs[c]) + 1
  <2>1. h \notin Range(refs[c]) /\ IsInjective(refs[c])
    BY <1>2 DEF Held, HeldBy, OnePlace
  <2>2. h \in Ref /\ refs[c] \in Seq(Ref)
    BY <1>1, <1>2
  <2> HIDE DEF h
  <2> QED BY <2>1, <2>2, Appended
<1>4. /\ dequeued' = dequeued + 1
      /\ UNCHANGED <<ready_q, in_use, sending, host_q, wait_done_ref_available_event,
                     events, want, told, enqueued>>
  BY DEF TakeRef, graph
<1>5. EventsCounted'
  <2>1. Len(done_q') = Len(done_q) - 1
    BY <1>1, HeadTailProperties DEF Shape, TypeOK
  <2>2. /\ Len(done_q) \in Nat /\ dequeued \in Nat
    BY DEF Shape, TypeOK
  <2> QED BY <1>4, <2>1, <2>2 DEF EventsCounted
<1>6. CASE Len(got) = want[c] /\ Returns(c, "SUCCESS", got)
  <2>1. /\ pc' = [pc EXCEPT ![c] = "idle"] /\ refs' = [refs EXCEPT ![c] = <<>>]
        /\ owned' = owned \cup Range(got)
    BY <1>6 DEF Returns, HandedOver
  <2> HIDE DEF h, got
  <2>2. owned' \subseteq Ref
    BY <1>3, <2>1, LenIsCardinality DEF Shape, TypeOK
  <2>3. Shape'
    BY <1>1, <1>4, <2>1, <2>2, EmptySeq DEF Shape, TypeOK
  <2>4. \A r \in Ref : Held(r)' <=> \E d \in Dequeuer : d # c /\ HeldBy(r, d)
    BY <2>1, EmptyHasNone DEF Held, HeldBy, Shape
  <2>5. \A r \in Ref : r \in owned' <=> r \in owned \/ HeldBy(r, c) \/ r = h
    BY <1>3, <2>1 DEF HeldBy
  <2>6. \A r \in Ref : (InReady(r)' <=> InReady(r)) /\ (InDone(r)' <=> InDone(r) /\ r # h)
    BY <1>1, <1>4 DEF InReady, InDone
  <2>7. \A d \in Dequeuer : IsInjective(refs'[d])
    BY <2>1, EmptyHasNone DEF OnePlace, Shape
  <2>8. \A r \in Ref : \A d, e \in Dequeuer : HeldBy(r, d)' /\ HeldBy(r, e)' => d = e
    BY <2>1, EmptyHasNone DEF OnePlace, HeldBy, Shape
  <2>9. OnePlace'
    BY <1>1, <1>2, <1>4, <2>4, <2>5, <2>6, <2>7, <2>8 DEF OnePlace, Held
  <2> QED BY <1>5, <2>3, <2>9
<1>7. CASE /\ Len(got) # want[c] /\ refs' = [refs EXCEPT ![c] = got]
           /\ UNCHANGED <<pc, ret, owned>>
  <2> HIDE DEF h, got
  <2>1. Len(got) < want[c]
    BY <1>2, <1>3, <1>7 DEF Shape, TypeOK
  <2>2. Shape'
    BY <1>1, <1>2, <1>3, <1>4, <1>7, <2>1 DEF Shape, TypeOK
  <2>3. \A r \in Ref, d \in Dequeuer : HeldBy(r, d)' <=> HeldBy(r, d) \/ (r = h /\ d = c)
    BY <1>3, <1>7 DEF HeldBy, Shape
  <2>4. \A r \in Ref : Held(r)' <=> Held(r) \/ r = h
    BY <2>3 DEF Held
  <2>5. \A r \in Ref : (InReady(r)' <=> InReady(r)) /\ (InDone(r)' <=> InDone(r) /\ r # h)
    BY <1>1, <1>4 DEF InReady, InDone
  <2>6. \A d \in Dequeuer : IsInjective(refs'[d])
    BY <1>3, <1>7 DEF OnePlace, Shape
  <2>7. \A r \in Ref : \A d, e \in Dequeuer : HeldBy(r, d)' /\ HeldBy(r, e)' => d = e
    BY <1>2, <2>3 DEF OnePlace, Held
  <2>8. OnePlace'
    BY <1>1, <1>2, <1>4, <1>7, <2>4, <2>5, <2>6, <2>7 DEF OnePlace
  <2> QED BY <1>5, <2>2, <2>8
<1> QED BY <1>6, <1>7 DEF TakeRef, LoopEnds

(* The queue is empty: the thread goes on to wait. *)
LEMMA FindsNoneStep ==
  ASSUME Inv, NEW c \in Dequeuer, TakeRef(c), done_q = <<>>
  PROVE  Inv'
<1> USE DEF Inv
<1>1. /\ pc[c] = "dequeue" /\ pc' = [pc EXCEPT ![c] = "wait"]
      /\ UNCHANGED <<owned, ready_q, in_use, done_q, sending, host_q,
                     wait_done_ref_available_event, events, want, refs, told, enqueued, dequeued>>
  BY DEF TakeRef, graph
<1>2. Shape'
  BY <1>1 DEF Shape, TypeOK
<1>3. OnePlace' /\ EventsCounted'
  BY <1>1 DEF OnePlace, InReady, InDone, Held, HeldBy, EventsCounted
<1> QED BY <1>2, <1>3

LEMMA WaitDoneRefStep ==
  ASSUME Inv, NEW c \in Dequeuer, WaitDoneRef(c)
  PROVE  Inv'
<1> USE DEF Inv
<1>1. /\ pc[c] = "wait" /\ pc' = [pc EXCEPT ![c] = "dequeue"]
      /\ wait_done_ref_available_event' = FALSE
      /\ UNCHANGED <<owned, ready_q, in_use, done_q, sending, host_q,
                     events, want, refs, told, enqueued, dequeued>>
  BY DEF WaitDoneRef, graph
<1>2. Shape'
  BY <1>1 DEF Shape, TypeOK
<1>3. OnePlace' /\ EventsCounted'
  BY <1>1 DEF OnePlace, InReady, InDone, Held, HeldBy, EventsCounted
<1> QED BY <1>2, <1>3

(* A call that fails hands over what it had dequeued by then. *)
LEMMA WaitFailsStep ==
  ASSUME Inv, NEW c \in Dequeuer, WaitFails(c)
  PROVE  Inv'
<1> USE DEF Inv
<1>1. /\ pc' = [pc EXCEPT ![c] = "idle"] /\ refs' = [refs EXCEPT ![c] = <<>>]
      /\ owned' = owned \cup Range(refs[c])
      /\ UNCHANGED <<ready_q, in_use, done_q, sending, host_q,
                     wait_done_ref_available_event, events, want, told, enqueued, dequeued>>
  BY DEF WaitFails, Returns, HandedOver, graph
<1>2. Range(refs[c]) \subseteq Ref
  <2>1. refs[c] \in Seq(Ref) /\ IsInjective(refs[c])
    BY DEF Shape, OnePlace
  <2> QED BY <2>1, LenIsCardinality
<1>3. Shape'
  BY <1>1, <1>2, EmptySeq DEF Shape, TypeOK
<1>4. OnePlace'
  <2>1. \A r \in Ref : Held(r)' <=> \E d \in Dequeuer : d # c /\ HeldBy(r, d)
    BY <1>1, EmptyHasNone DEF Held, HeldBy, Shape
  <2>2. \A r \in Ref : r \in owned' <=> r \in owned \/ HeldBy(r, c)
    BY <1>1 DEF HeldBy
  <2>3. \A r \in Ref : (InReady(r)' <=> InReady(r)) /\ (InDone(r)' <=> InDone(r))
    BY <1>1 DEF InReady, InDone
  <2>4. \A d \in Dequeuer : IsInjective(refs'[d])
    BY <1>1, EmptyHasNone DEF OnePlace, Shape
  <2>5. \A r \in Ref : \A d, e \in Dequeuer : HeldBy(r, d)' /\ HeldBy(r, e)' => d = e
    BY <1>1, EmptyHasNone DEF OnePlace, HeldBy, Shape
  <2> QED BY <1>1, <2>1, <2>2, <2>3, <2>4, <2>5 DEF OnePlace, Held
<1>5. EventsCounted'
  BY <1>1 DEF EventsCounted
<1> QED BY <1>3, <1>4, <1>5

LEMMA WaitEventStep ==
  ASSUME Inv, WaitEvent
  PROVE  Inv'
<1> USE DEF Inv
<1>1. /\ events > 0 /\ events' = events - 1 /\ told' = told + 1
      /\ UNCHANGED <<owned, ready_q, in_use, done_q, sending, host_q,
                     wait_done_ref_available_event, pc, want, refs, enqueued, dequeued>>
  BY DEF WaitEvent, graph
<1>2. Shape'
  BY <1>1, SizeAssumption DEF Shape, TypeOK
<1>3. OnePlace'
  BY <1>1 DEF OnePlace, InReady, InDone, Held, HeldBy
<1>4. EventsCounted'
  <2>1. told \in Nat /\ events \in Nat
    BY SizeAssumption DEF Shape, TypeOK
  <2> QED BY <1>1, <2>1 DEF EventsCounted
<1> QED BY <1>2, <1>3, <1>4

LEMMA AcquireStep ==
  ASSUME Inv, Acquire
  PROVE  Inv'
<1> DEFINE h == Head(ready_q)
<1> USE DEF Inv
<1>1. /\ ready_q # <<>> /\ ready_q' = Tail(ready_q) /\ in_use' = in_use \cup {h}
      /\ UNCHANGED <<owned, done_q, sending, host_q, wait_done_ref_available_event, events,
                     pc, want, refs, told, enqueued, dequeued>>
  BY DEF Acquire, app
<1>2. /\ h \in Ref /\ ready_q' \in Seq(Ref)
      /\ Range(ready_q) = Range(ready_q') \cup {h}
      /\ IsInjective(ready_q') /\ h \notin Range(ready_q')
  <2>1. ready_q \in Seq(Ref) /\ IsInjective(ready_q)
    BY DEF Shape, TypeOK, OnePlace
  <2> QED BY <1>1, <2>1, Removed
<1> HIDE DEF h
<1>3. Shape'
  BY <1>1, <1>2 DEF Shape, TypeOK
<1>4. OnePlace'
  <2>1. \A r \in Ref : InReady(r)' <=> InReady(r) /\ r # h
    BY <1>2 DEF InReady
  <2>2. InReady(h)
    BY <1>2 DEF InReady
  <2>3. \A r \in Ref : (Held(r)' <=> Held(r)) /\ (InDone(r)' <=> InDone(r))
    BY <1>1 DEF Held, HeldBy, InDone
  <2> QED BY <1>1, <1>2, <2>1, <2>2, <2>3 DEF OnePlace, HeldBy
<1>5. EventsCounted'
  BY <1>1 DEF EventsCounted
<1> QED BY <1>3, <1>4, <1>5

-----------------------------------------------------------------------------
(* A released reference, its command, and its event                        *)

LEMMA ReleaseStep ==
  ASSUME Inv, NEW t \in Task, NEW r \in Ref, Release(t, r)
  PROVE  Inv'
<1> USE DEF Inv
<1>1. /\ t \notin sending /\ r \in in_use /\ in_use' = in_use \ {r}
      /\ done_q' = Append(done_q, r) /\ sending' = sending \cup {t}
      /\ UNCHANGED <<owned, ready_q, host_q, wait_done_ref_available_event, events,
                     pc, want, refs, told, enqueued, dequeued>>
  BY DEF Release, app
<1>2. /\ done_q' \in Seq(Ref) /\ Range(done_q') = Range(done_q) \cup {r}
      /\ IsInjective(done_q')
  <2>1. done_q \in Seq(Ref) /\ IsInjective(done_q) /\ r \notin Range(done_q)
    BY <1>1 DEF Shape, TypeOK, OnePlace, InDone
  <2> QED BY <1>1, <2>1, Appended
<1>3. Shape'
  BY <1>1, <1>2 DEF Shape, TypeOK
<1>4. OnePlace'
  <2>1. \A x \in Ref : InDone(x)' <=> InDone(x) \/ x = r
    BY <1>2 DEF InDone
  <2>2. \A x \in Ref : (Held(x)' <=> Held(x)) /\ (InReady(x)' <=> InReady(x))
    BY <1>1 DEF Held, HeldBy, InReady
  <2> QED BY <1>1, <1>2, <2>1, <2>2 DEF OnePlace, HeldBy
<1>5. EventsCounted'
  <2>1. IsFiniteSet(sending') /\ Cardinality(sending') = Cardinality(sending) + 1
    BY <1>1, FS_AddElement DEF EventsCounted
  <2>2. Len(done_q') = Len(done_q) + 1
    BY <1>1, <1>2 DEF Shape, TypeOK
  <2>3. Cardinality(sending) \in Nat /\ Len(done_q) \in Nat
    BY FS_CardinalityType DEF EventsCounted, Shape, TypeOK
  <2>4. /\ told \in Nat /\ events \in Nat /\ host_q \in Nat /\ dequeued \in Nat
    BY SizeAssumption DEF Shape, TypeOK
  <2> QED BY <1>1, <2>1, <2>2, <2>3, <2>4 DEF EventsCounted
<1> QED BY <1>3, <1>4, <1>5

LEMMA SendStep ==
  ASSUME Inv, NEW t \in Task, SendRefConsumed(t)
  PROVE  Inv'
<1> USE DEF Inv
<1>1. /\ t \in sending /\ sending' = sending \ {t}
      /\ host_q' = host_q \/ host_q' = host_q + 1
      /\ UNCHANGED <<owned, ready_q, in_use, done_q, wait_done_ref_available_event, events,
                     pc, want, refs, told, enqueued, dequeued>>
  BY DEF SendRefConsumed, Commands, app
<1>2. Shape'
  BY <1>1 DEF Shape, TypeOK
<1>3. OnePlace'
  BY <1>1 DEF OnePlace, InReady, InDone, Held, HeldBy
<1>4. EventsCounted'
  <2>1. IsFiniteSet(sending') /\ Cardinality(sending') = Cardinality(sending) - 1
    BY <1>1, FS_RemoveElement DEF EventsCounted
  <2>2. Cardinality(sending) \in Nat /\ Len(done_q) \in Nat
    BY FS_CardinalityType DEF EventsCounted, Shape, TypeOK
  <2>3. /\ told \in Nat /\ events \in Nat /\ host_q \in Nat /\ dequeued \in Nat
    BY SizeAssumption DEF Shape, TypeOK
  <2> QED BY <1>1, <2>1, <2>2, <2>3 DEF EventsCounted
<1> QED BY <1>2, <1>3, <1>4

LEMMA SendEventStep ==
  ASSUME Inv, SendRefConsumedEvent
  PROVE  Inv'
<1> USE DEF Inv
<1>1. /\ host_q > 0 /\ host_q' = host_q - 1
      /\ wait_done_ref_available_event' = TRUE
      /\ events' = IF events < EventDepth THEN events + 1 ELSE events
      /\ UNCHANGED <<owned, ready_q, in_use, done_q, sending, pc, want, refs, told,
                     enqueued, dequeued>>
  BY DEF SendRefConsumedEvent, app, graph
<1>2. Shape'
  BY <1>1, SizeAssumption DEF Shape, TypeOK
<1>3. OnePlace'
  BY <1>1 DEF OnePlace, InReady, InDone, Held, HeldBy
<1>4. EventsCounted'
  <2>1. /\ told \in Nat /\ events \in Nat /\ host_q \in Nat /\ dequeued \in Nat
        /\ Cardinality(sending) \in Nat /\ Len(done_q) \in Nat
    BY SizeAssumption, FS_CardinalityType DEF Shape, TypeOK, EventsCounted
  <2>2. IsFiniteSet(sending') /\ Cardinality(sending') = Cardinality(sending)
    BY <1>1 DEF EventsCounted
  <2>3. events' + host_q' <= events + host_q
    BY <1>1, <2>1
  <2>4. events' \in Nat /\ host_q' \in Nat
    BY <1>1, <2>1
  <2> QED BY <1>1, <2>1, <2>2, <2>3, <2>4 DEF EventsCounted
<1> QED BY <1>2, <1>3, <1>4

LEMMA StutterStep ==
  ASSUME Inv, UNCHANGED vars
  PROVE  Inv'
BY DEF Inv, vars, Shape, TypeOK, OnePlace, InReady, InDone, Held, HeldBy, EventsCounted

LEMMA Inductive == Inv /\ [Next]_vars => Inv'
<1> SUFFICES ASSUME Inv, [Next]_vars  PROVE Inv'
  OBVIOUS
<1>1. ASSUME NEW r \in Ref, EnqueueReadyRef(r)  PROVE Inv'
  BY <1>1, EnqueueStep
<1>2. ASSUME NEW c \in Dequeuer, NEW n \in 1 .. MaxRefs, DequeueCall(c, n)  PROVE Inv'
  BY <1>2, DequeueCallStep
<1>3. ASSUME NEW c \in Dequeuer, DequeueStep(c)  PROVE Inv'
  BY <1>3, TakeStep, FindsNoneStep, WaitDoneRefStep DEF DequeueStep
<1>4. ASSUME NEW c \in Dequeuer, WaitFails(c)  PROVE Inv'
  BY <1>4, WaitFailsStep
<1>5. CASE WaitEvent
  BY <1>5, WaitEventStep
<1>6. CASE GraphStep
  BY <1>6, AcquireStep, SendStep, ReleaseStep DEF GraphStep
<1>7. CASE SendRefConsumedEvent
  BY <1>7, SendEventStep
<1>8. CASE UNCHANGED vars
  BY <1>8, StutterStep
<1> QED BY <1>1, <1>2, <1>3, <1>4, <1>5, <1>6, <1>7, <1>8 DEF Next

LEMMA InvHolds == Spec => []Inv
BY InitInv, Inductive, PTL DEF Spec

(* Types and sizes: no dequeue call ever holds more references than its *)
(* caller gave it room for.                                             *)
THEOREM TypeCorrect == Spec => []TypeOK
<1>1. Inv => TypeOK
  BY DEF Inv, Shape
<1> QED BY <1>1, InvHolds, PTL

(* In every interleaving of enqueues, releases and dequeue calls, failing *)
(* ones among them, each reference is in exactly one place.               *)
THEOREM ReferencesAccounted == Spec => []EveryRefAccounted
<1>1. Inv => EveryRefAccounted
  BY PlacesAccount DEF Inv
<1> QED BY <1>1, InvHolds, PTL

(* The application never hears of more consumed references than there are. *)
THEOREM EventsAreBacked == Spec => []EventsBacked
<1>1. ASSUME Inv  PROVE EventsBacked
  <2>1. /\ told \in Nat /\ events \in Nat /\ host_q \in Nat /\ dequeued \in Nat
        /\ Cardinality(sending) \in Nat /\ Len(done_q) \in Nat
    BY <1>1, SizeAssumption, FS_CardinalityType DEF Inv, Shape, TypeOK, EventsCounted
  <2> QED BY <1>1, <2>1 DEF Inv, EventsCounted, EventsBacked
<1> QED BY <1>1, InvHolds, PTL

-----------------------------------------------------------------------------
(* Wake-ups                                                                *)

(* With one thread nobody else takes the event it waits for. *)
LEMMA WakeUpStep ==
  ASSUME \A c, d \in Dequeuer : c = d,
         Inv, WakeUpUnderWay, [Next]_vars
  PROVE  WakeUpUnderWay'
<1> USE DEF WakeUpUnderWay
<1>1. ASSUME NEW r \in Ref, EnqueueReadyRef(r)  PROVE WakeUpUnderWay'
  BY <1>1 DEF EnqueueReadyRef, graph
<1>2. ASSUME NEW c \in Dequeuer, NEW n \in 1 .. MaxRefs, DequeueCall(c, n)
      PROVE  WakeUpUnderWay'
  BY <1>2 DEF DequeueCall, graph, Inv, Shape, TypeOK
<1>3. ASSUME NEW c \in Dequeuer, TakeRef(c)  PROVE WakeUpUnderWay'
  <2>1. pc \in [Dequeuer -> {"idle", "dequeue", "wait"}] /\ pc[c] = "dequeue"
    BY <1>3 DEF TakeRef, Inv, Shape, TypeOK
  <2>2. CASE done_q = <<>>
    <3>1. done_q' = <<>>
      BY <1>3, <2>2 DEF TakeRef
    <3> QED BY <3>1
  <2>3. CASE done_q # <<>>
    <3>1. pc' = pc \/ pc' = [pc EXCEPT ![c] = "idle"]
      BY <1>3, <2>3 DEF TakeRef, Returns
    <3>2. \A d \in Dequeuer : pc'[d] # "wait"
      BY <2>1, <3>1
    <3> QED BY <3>2
  <2> QED BY <2>2, <2>3
<1>4. ASSUME NEW c \in Dequeuer, WaitDoneRef(c)  PROVE WakeUpUnderWay'
  <2>1. \A d \in Dequeuer : pc'[d] # "wait"
    BY <1>4 DEF WaitDoneRef, Inv, Shape, TypeOK
  <2> QED BY <2>1
<1>5. ASSUME NEW c \in Dequeuer, WaitFails(c)  PROVE WakeUpUnderWay'
  <2>1. \A d \in Dequeuer : pc'[d] # "wait"
    BY <1>5 DEF WaitFails, Returns, Inv, Shape, TypeOK
  <2> QED BY <2>1
<1>6. CASE WaitEvent
  BY <1>6 DEF WaitEvent, graph
<1>7. CASE Acquire
  BY <1>7 DEF Acquire, app
<1>8. ASSUME NEW t \in Task, SendRefConsumed(t)  PROVE WakeUpUnderWay'
  <2>1. host_q' > 0
    BY <1>8, SizeAssumption DEF SendRefConsumed, Commands, Inv, Shape, TypeOK
  <2> QED BY <2>1
<1>9. ASSUME NEW t \in Task, NEW r \in Ref, Release(t, r)  PROVE WakeUpUnderWay'
  <2>1. sending' # {}
    BY <1>9 DEF Release
  <2> QED BY <2>1
<1>10. CASE SendRefConsumedEvent
  BY <1>10 DEF SendRefConsumedEvent
<1>11. CASE UNCHANGED vars
  BY <1>11 DEF vars
<1> QED BY <1>1, <1>2, <1>3, <1>4, <1>5, <1>6, <1>7, <1>8, <1>9, <1>10, <1>11
     DEF Next, DequeueStep, GraphStep

(* A thread that is the only one to dequeue at the parameter never waits *)
(* beside a reference unless the post that will wake it is under way.    *)
THEOREM WakeUpsUnderWay ==
  ASSUME \A c, d \in Dequeuer : c = d
  PROVE  Spec => []WakeUpUnderWay
<1>1. Init => WakeUpUnderWay
  BY DEF Init, WakeUpUnderWay
<1> QED BY <1>1, WakeUpStep, InvHolds, PTL DEF Spec
=============================================================================

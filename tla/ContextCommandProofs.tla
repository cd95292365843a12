------------------------ MODULE ContextCommandProofs ------------------------
(***************************************************************************)
(* For every number of threads and command objects, with or without        *)
(* timeouts and refused messages: an object is in one place, one that is   *)
(* given out is in nobody's hands, and each thread reads the answer to the *)
(* command it sent.                                                        *)
(***************************************************************************)
EXTENDS ContextCommand, FiniteSetTheorems, SequenceTheorems, TLAPS

-----------------------------------------------------------------------------
(* Queues whose elements are all different                                 *)

(* Putting an element at the end adds it to the set. *)
LEMMA Appended ==
  ASSUME NEW T, NEW s \in Seq(T), NEW e \in T
  PROVE  /\ Append(s, e) \in Seq(T)
         /\ Range(Append(s, e)) = Range(s) \cup {e}
         /\ IsInjective(s) /\ e \notin Range(s) => IsInjective(Append(s, e))
  <1>1. /\ Append(s, e) \in Seq(T) /\ Len(Append(s, e)) = Len(s) + 1
        /\ \A i \in 1 .. Len(s) : Append(s, e)[i] = s[i]
        /\ Append(s, e)[Len(s) + 1] = e
    OBVIOUS
  <1>2. /\ DOMAIN s = 1 .. Len(s) /\ Len(s) \in Nat
        /\ DOMAIN Append(s, e) = 1 .. (Len(s) + 1)
    BY <1>1, LenProperties
  <1>3. \A i \in 1 .. (Len(s) + 1) : i \in 1 .. Len(s) \/ i = Len(s) + 1
    BY <1>2
  <1>4. Len(s) + 1 \in 1 .. (Len(s) + 1) /\ 1 .. Len(s) \subseteq 1 .. (Len(s) + 1)
    BY <1>2
  <1>5. Range(Append(s, e)) \subseteq Range(s) \cup {e}
    BY <1>1, <1>2, <1>3 DEF Range
  <1>6. Range(s) \cup {e} \subseteq Range(Append(s, e))
    <2>1. e \in Range(Append(s, e))
      BY <1>1, <1>2, <1>4 DEF Range
    <2>2. ASSUME NEW x \in Range(s) PROVE x \in Range(Append(s, e))
      <3>1. PICK i \in 1 .. Len(s) : x = s[i]
        BY <1>2, <2>2 DEF Range
      <3>2. i \in DOMAIN Append(s, e) /\ Append(s, e)[i] = x
        BY <1>1, <1>2, <1>4, <3>1
      <3>. QED  BY <3>2 DEF Range
    <2>. QED  BY <2>1, <2>2
  <1>7. ASSUME IsInjective(s), e \notin Range(s)  PROVE IsInjective(Append(s, e))
    BY <1>1, <1>2, <1>7 DEF Range, IsInjective
  <1>. QED  BY <1>1, <1>5, <1>6, <1>7

(* Taking the head removes it, from a queue without doubles for good. *)
LEMMA Removed ==
  ASSUME NEW T, NEW s \in Seq(T), s # <<>>
  PROVE  /\ Head(s) \in T /\ Tail(s) \in Seq(T)
         /\ Range(s) = Range(Tail(s)) \cup {Head(s)}
         /\ IsInjective(s) => IsInjective(Tail(s)) /\ Head(s) \notin Range(Tail(s))
  <1>1. /\ Head(s) \in T /\ Tail(s) \in Seq(T) /\ Len(s) > 0 /\ Head(s) = s[1]
        /\ Len(Tail(s)) = Len(s) - 1
        /\ \A i \in 1 .. (Len(s) - 1) : Tail(s)[i] = s[i + 1]
    BY EmptySeq, HeadTailProperties
  <1>2. /\ DOMAIN s = 1 .. Len(s) /\ Len(s) \in Nat
        /\ DOMAIN Tail(s) = 1 .. (Len(s) - 1)
    BY <1>1, LenProperties
  <1>3. /\ \A i \in DOMAIN Tail(s) : i + 1 \in DOMAIN s /\ i + 1 # 1
        /\ \A i \in DOMAIN s \ {1} : i - 1 \in DOMAIN Tail(s) /\ i - 1 + 1 = i
        /\ 1 \in DOMAIN s
    BY <1>1, <1>2
  <1>4. \A i \in DOMAIN Tail(s) : Tail(s)[i] = s[i + 1]
    BY <1>1, <1>2
  <1>. HIDE <1>1, <1>2
  <1>5. Head(s) \in Range(s)
    BY <1>1, <1>3 DEF Range
  <1>6. Range(Tail(s)) \subseteq Range(s)
    BY <1>3, <1>4 DEF Range
  <1>7. Range(s) \subseteq Range(Tail(s)) \cup {Head(s)}
    <2>1. ASSUME NEW i \in DOMAIN s, i # 1  PROVE s[i] \in Range(Tail(s))
      <3>1. i - 1 \in DOMAIN Tail(s) /\ Tail(s)[i - 1] = s[i]
        BY <1>3, <1>4, <2>1
      <3>. QED  BY <3>1 DEF Range
    <2>. QED  BY <1>1, <2>1 DEF Range
  <1>8. ASSUME IsInjective(s)
        PROVE  IsInjective(Tail(s)) /\ Head(s) \notin Range(Tail(s))
    <2>1. IsInjective(Tail(s))
      <3>1. ASSUME NEW i \in DOMAIN Tail(s), NEW j \in DOMAIN Tail(s), Tail(s)[i] = Tail(s)[j]
            PROVE  i = j
        <4>1. i + 1 = j + 1
          BY <1>3, <1>4, <1>8, <3>1 DEF IsInjective
        <4>. QED  BY <4>1, <1>2
      <3>. QED  BY <3>1 DEF IsInjective
    <2>2. Head(s) \notin Range(Tail(s))
      BY <1>1, <1>3, <1>4, <1>8 DEF Range, IsInjective
    <2>. QED  BY <2>1, <2>2
  <1>. QED  BY <1>1, <1>5, <1>6, <1>7, <1>8

(* An empty queue holds nothing, and nothing twice. *)
(* A queue without doubles has no more elements than there are. *)
LEMMA Bounded ==
  ASSUME NEW T, IsFiniteSet(T), NEW s \in Seq(T), IsInjective(s)
  PROVE  Len(s) <= Cardinality(T)
  <1>1. DOMAIN s = 1 .. Len(s) /\ Len(s) \in Nat /\ s \in [1 .. Len(s) -> T]
    BY LenProperties
  <1>2. s \in Injection(1 .. Len(s), T)
    BY <1>1 DEF Injection, IsInjective
  <1>3. IsFiniteSet(1 .. Len(s)) /\ Cardinality(1 .. Len(s)) = Len(s)
    BY <1>1, FS_Interval
  <1> QED BY <1>2, <1>3, FS_Injection

LEMMA EmptyHasNone == Range(<<>>) = {} /\ IsInjective(<<>>)
  BY DEF Range, IsInjective

-----------------------------------------------------------------------------
(* The inductive invariant                                                 *)

Held(o) == \E c \in Caller : obj[c] = o
Free(o) == o \in Range(free_queue)
Pending(o) == o \in Range(pend_queue)

(* ObjectAccounted, said of each object by itself. *)
Places ==
  /\ IsInjective(free_queue) /\ IsInjective(pend_queue)
  /\ \A c, d \in Caller : obj[c] = obj[d] /\ obj[c] # None => c = d
  /\ \A o \in CmdObj :
       /\ Free(o) \/ Pending(o) \/ Held(o) \/ o \in lost
       /\ Free(o) => ~Pending(o) /\ ~Held(o) /\ o \notin lost
       /\ Held(o) => ~Pending(o) /\ o \notin lost
       /\ Pending(o) => o \notin lost

(* An object is in the hands of at most one task, and there only once. *)
FlightOnce ==
  /\ \A t \in Target : IsInjective(job_q[t])
  /\ \A t, u \in Target : t # u => Range(job_q[t]) \cap Range(job_q[u]) = {}
  /\ \A t, u \in Target : task[t] \notin Range(job_q[u])
  /\ \A t, u \in Target : task[t] = task[u] /\ task[t] # None => t = u

AtRest(o) == \A t \in Target : task[t] # o /\ o \notin Range(job_q[t])

(* An event that is set is the last thing that happens to its object. *)
EventIsLast == \A o \in CmdObj : ack_event[o] => ~is_ack[o] /\ AtRest(o)

(* A thread that has not sent yet, or read the event, has a quiet object. *)
HolderIsQuiet ==
  \A c \in Caller : pc[c] \in {"send", "answered"} =>
     ~is_ack[obj[c]] /\ ~ack_event[obj[c]] /\ AtRest(obj[c])

FreeAtRest ==
  \A o \in CmdObj : Free(o) => ~is_ack[o] /\ ~ack_event[o] /\ AtRest(o)

(* The answer under way to a thread that waits is that to its own command. *)
AnswerUnderWay ==
  \A c \in Caller :
     pc[c] = "wait" /\ (is_ack[obj[c]] \/ ack_event[obj[c]]) =>
        answer[c] # None /\ cmd_status[obj[c]] = answer[c]

Inv ==
  /\ Typed /\ Places /\ FlightOnce /\ EventIsLast /\ HolderIsQuiet
  /\ FreeAtRest /\ AnswerUnderWay /\ AnswerIsOwn

-----------------------------------------------------------------------------
(* The invariant says of each object what the checked property says of the sets. *)
LEMMA PlacesAccount ==
  ASSUME Typed, Places
  PROVE  ObjectAccounted
<1> DEFINE held == {obj[c] : c \in Caller} \ {None}
<1>1. Range(free_queue) \subseteq CmdObj /\ Range(pend_queue) \subseteq CmdObj
  BY DEF Typed, Range
<1>2. held \subseteq CmdObj /\ lost \subseteq CmdObj
  BY DEF Typed
<1>3. \A o \in CmdObj : o \in held <=> Held(o)
  BY CmdObjAssumption DEF Held
<1>4. UNION {Range(free_queue), Range(pend_queue), held, lost} = CmdObj
  <2> HIDE DEF held
  <2>1. UNION {Range(free_queue), Range(pend_queue), held, lost}
          = Range(free_queue) \cup Range(pend_queue) \cup held \cup lost
    OBVIOUS
  <2> QED BY <1>1, <1>2, <1>3, <2>1 DEF Places, Free, Pending
<1>5. Range(free_queue) \cap (Range(pend_queue) \cup held \cup lost) = {}
  <2> HIDE DEF held
  <2> QED BY <1>1, <1>2, <1>3 DEF Places, Free, Pending
<1>6. held \cap (Range(pend_queue) \cup lost) = {}
  <2> HIDE DEF held
  <2> QED BY <1>1, <1>2, <1>3 DEF Places, Pending
<1>7. Range(pend_queue) \cap lost = {}
  BY <1>1, <1>2 DEF Places, Pending
<1> QED BY <1>4, <1>5, <1>6, <1>7 DEF ObjectAccounted, Places

-----------------------------------------------------------------------------
(* No queue is asked to hold more than there are objects. *)
LEMMA PlacesFit ==
  ASSUME Typed, Places
  PROVE  TypeOK
<1>1. free_queue \in Seq(CmdObj) /\ IsInjective(free_queue)
  BY DEF Typed, Places
<1>2. pend_queue \in Seq(CmdObj) /\ IsInjective(pend_queue)
  BY DEF Typed, Places
<1>3. Len(free_queue) <= Cardinality(CmdObj) /\ Len(pend_queue) <= Cardinality(CmdObj)
  BY <1>1, <1>2, Bounded, CmdObjAssumption
<1> QED BY <1>3 DEF TypeOK

(* At the start every object is free. *)
LEMMA InitInv ==
  ASSUME Init
  PROVE  Inv
<1> DEFINE n == Cardinality(CmdObj)
<1>1. n \in Nat
  BY CmdObjAssumption, FS_CardinalityType
<1>2. /\ free_queue \in [1 .. n -> CmdObj] /\ IsInjective(free_queue)
      /\ DOMAIN free_queue = 1 .. n
  BY DEF Init, CmdObjSeqs, IsInjective
<1>3. free_queue \in Seq(CmdObj)
  <2> HIDE DEF n
  <2> QED BY <1>1, <1>2
<1>4. \A o \in CmdObj : o \in Range(free_queue)
  <2>1. free_queue \in Injection(1 .. n, CmdObj)
    BY <1>2 DEF Injection, IsInjective, IsInjective
  <2>2. IsFiniteSet(1 .. n) /\ Cardinality(1 .. n) = n
    <3> HIDE DEF n
    <3> QED BY <1>1, FS_Interval
  <2>3. free_queue \in Surjection(1 .. n, CmdObj)
    BY <2>1, <2>2, CmdObjAssumption, FS_Injection
  <2> QED BY <1>2, <2>3 DEF Surjection, Range
<1>5. Typed
  BY <1>3, EmptySeq, CmdObjAssumption, MaxCallsAssumption
  DEF Init, Typed, Status
<1>6. Places
  BY <1>2, <1>4, EmptyHasNone, CmdObjAssumption DEF Init, Places, Held, Free, Pending
<1>7. FlightOnce /\ EventIsLast /\ HolderIsQuiet /\ FreeAtRest /\ AnswerUnderWay /\ AnswerIsOwn
  BY EmptyHasNone, CmdObjAssumption
  DEF Init, FlightOnce, EventIsLast, HolderIsQuiet, FreeAtRest, AnswerUnderWay,
      AnswerIsOwn, AtRest, Target
<1> QED BY <1>5, <1>6, <1>7 DEF Inv

-----------------------------------------------------------------------------
(* One lemma for each action.                                              *)

LEMMA CallStep ==
  ASSUME Inv, NEW c \in Caller, Call(c)
  PROVE  Inv'
<1> USE DEF Inv, Call, pool, objects, tasks
<1>1. Typed'
  BY DEF Typed
<1>2. Places' /\ FlightOnce' /\ EventIsLast' /\ FreeAtRest'
  BY DEF Places, Held, Free, Pending, FlightOnce, EventIsLast, FreeAtRest, AtRest
<1>3. HolderIsQuiet' /\ AnswerUnderWay' /\ AnswerIsOwn'
  BY DEF Typed, HolderIsQuiet, AtRest, AnswerUnderWay, AnswerIsOwn
<1> QED BY <1>1, <1>2, <1>3

LEMMA GetObjectStep ==
  ASSUME Inv, NEW c \in Caller, GetObject(c)
  PROVE  Inv'
<1> DEFINE o == Head(free_queue)
<1> USE DEF Inv, objects, tasks, history
<1>1. /\ o \in CmdObj /\ o # None /\ Tail(free_queue) \in Seq(CmdObj)
      /\ Range(free_queue) = Range(Tail(free_queue)) \cup {o}
      /\ IsInjective(Tail(free_queue)) /\ o \notin Range(Tail(free_queue))
  BY Removed, CmdObjAssumption DEF GetObject, Typed, Places
<1> HIDE DEF o
<1>2. /\ pc[c] = "get" /\ pc' = [pc EXCEPT ![c] = "send"]
      /\ obj[c] = None /\ obj' = [obj EXCEPT ![c] = o]
      /\ free_queue' = Tail(free_queue)
      /\ UNCHANGED <<pend_queue, is_ack, cmd_status, ack_event, job_q, task, ret,
                     calls, lost, unanswered, answer>>
  BY DEF GetObject, Typed, o
<1>3. Typed'
  BY <1>1, <1>2 DEF Typed
<1>4. Places'
  <2>1. Free(o) /\ ~Held(o) /\ ~Pending(o) /\ o \notin lost
    BY <1>1 DEF Places, Free
  <2>2. \A x \in CmdObj : Free(x)' <=> Free(x) /\ x # o
    BY <1>1, <1>2 DEF Free
  <2>3. \A x \in CmdObj : Held(x)' <=> Held(x) \/ x = o
    BY <1>1, <1>2, CmdObjAssumption DEF Held, Typed
  <2>4. \A d, e \in Caller : obj'[d] = obj'[e] /\ obj'[d] # None => d = e
    BY <1>2, <2>1 DEF Places, Held, Typed
  <2> QED BY <1>1, <1>2, <2>1, <2>2, <2>3, <2>4 DEF Places, Pending
<1>5. FlightOnce' /\ EventIsLast'
  BY <1>2 DEF FlightOnce, EventIsLast, AtRest
<1>6. HolderIsQuiet' /\ FreeAtRest'
  BY <1>1, <1>2 DEF HolderIsQuiet, FreeAtRest, Free, AtRest, Typed
<1>7. AnswerUnderWay' /\ AnswerIsOwn'
  BY <1>2 DEF AnswerUnderWay, AnswerIsOwn, Typed
<1> QED BY <1>3, <1>4, <1>5, <1>6, <1>7

LEMMA SendStep ==
  ASSUME Inv, NEW c \in Caller, Send(c)
  PROVE  Inv'
<1> DEFINE o == obj[c]
<1> USE DEF Inv
<1>1. /\ o \in CmdObj /\ o # None /\ Held(o)
      /\ ~is_ack[o] /\ ~ack_event[o] /\ AtRest(o) /\ ~Free(o)
      /\ \A d \in Caller : d # c => obj[d] # o
  BY CmdObjAssumption DEF Send, Typed, HolderIsQuiet, Held, Places
<1>2. is_ack' = is_ack
  BY <1>1 DEF Send, Typed
<1>3. CASE /\ job_q' = [job_q EXCEPT !["TARGET"] = Append(@, o)]
           /\ pc' = [pc EXCEPT ![c] = "wait"]
           /\ UNCHANGED <<obj, ret, lost>>
  <2>1. /\ job_q'["TARGET"] \in Seq(CmdObj)
        /\ Range(job_q'["TARGET"]) = Range(job_q["TARGET"]) \cup {o}
        /\ IsInjective(job_q'["TARGET"])
        /\ job_q'["HOST"] = job_q["HOST"]
    BY <1>1, <1>3, Appended DEF Typed, Target, FlightOnce, AtRest
  <2>2. UNCHANGED <<free_queue, pend_queue, cmd_status, ack_event, task, calls,
                    unanswered, answer>>
    BY DEF Send, pool
  <2> HIDE DEF o
  <2>3. Typed'
    BY <1>1, <1>2, <1>3, <2>1, <2>2 DEF Typed, Target, o, Send
  <2>4. Places'
    BY <1>3, <2>2 DEF Places, Held, Free, Pending
  <2>5. FlightOnce'
    BY <1>1, <2>1, <2>2 DEF FlightOnce, Target, AtRest
  <2>6. EventIsLast' /\ FreeAtRest'
    BY <1>1, <1>2, <2>1, <2>2 DEF EventIsLast, FreeAtRest, Free, AtRest, Target
  <2>7. HolderIsQuiet'
    BY <1>1, <1>2, <1>3, <2>1, <2>2 DEF HolderIsQuiet, AtRest, Target, Typed, o
  <2>8. AnswerUnderWay' /\ AnswerIsOwn'
    BY <1>1, <1>2, <1>3, <2>2 DEF AnswerUnderWay, AnswerIsOwn, Typed, o
  <2> QED BY <2>3, <2>4, <2>5, <2>6, <2>7, <2>8
<1>4. CASE /\ Returns(c, "FAILURE") /\ lost' = lost \cup {o} /\ UNCHANGED job_q
  <2>1. /\ pc' = [pc EXCEPT ![c] = "idle"] /\ obj' = [obj EXCEPT ![c] = None]
        /\ ret' = [ret EXCEPT ![c] = "FAILURE"]
        /\ UNCHANGED <<free_queue, pend_queue, cmd_status, ack_event, task, calls,
                       unanswered, answer>>
    BY <1>4 DEF Send, Returns, pool
  <2> HIDE DEF o
  <2>2. Typed'
    BY <1>1, <1>2, <1>4, <2>1 DEF Typed, Status
  <2>3. \A x \in CmdObj : Held(x)' <=> Held(x) /\ x # o
    BY <1>1, <2>1, CmdObjAssumption DEF Held, Typed, o
  <2>4. \A d, e \in Caller : obj'[d] = obj'[e] /\ obj'[d] # None => d = e
    BY <2>1 DEF Places, Typed
  <2>5. Places'
    BY <1>1, <1>4, <2>1, <2>3, <2>4 DEF Places, Free, Pending
  <2>6. FlightOnce' /\ EventIsLast' /\ FreeAtRest'
    BY <1>2, <1>4, <2>1 DEF FlightOnce, EventIsLast, FreeAtRest, Free, AtRest
  <2>7. HolderIsQuiet' /\ AnswerUnderWay' /\ AnswerIsOwn'
    BY <1>2, <1>4, <2>1
    DEF HolderIsQuiet, AnswerUnderWay, AnswerIsOwn, AtRest, Typed
  <2> QED BY <2>2, <2>5, <2>6, <2>7
<1> QED BY <1>3, <1>4 DEF Send

LEMMA WaitEventStep ==
  ASSUME Inv, NEW c \in Caller, WaitEvent(c)
  PROVE  Inv'
<1> DEFINE o == obj[c]
<1> USE DEF Inv
<1>1. /\ o \in CmdObj /\ pc[c] = "wait" /\ ack_event[o] /\ ~is_ack[o] /\ AtRest(o)
      /\ \A d \in Caller : d # c => obj[d] # o
  BY DEF WaitEvent, Typed, EventIsLast, Places
<1>2. /\ ack_event' = [ack_event EXCEPT ![o] = FALSE]
      /\ pc' = [pc EXCEPT ![c] = "answered"]
      /\ UNCHANGED <<free_queue, pend_queue, is_ack, cmd_status, job_q, task, obj, ret,
                     calls, lost, unanswered, answer>>
  BY DEF WaitEvent, EventAfterWait, pool, tasks, history
<1> HIDE DEF o
<1>3. Typed'
  BY <1>1, <1>2 DEF Typed, o
<1>4. Places' /\ FlightOnce'
  BY <1>2 DEF Places, Held, Free, Pending, FlightOnce
<1>5. EventIsLast' /\ FreeAtRest'
  BY <1>1, <1>2 DEF EventIsLast, FreeAtRest, Free, AtRest, Typed
<1>6. HolderIsQuiet'
  BY <1>1, <1>2 DEF HolderIsQuiet, AtRest, Typed, o
<1>7. AnswerUnderWay' /\ AnswerIsOwn'
  BY <1>1, <1>2 DEF AnswerUnderWay, AnswerIsOwn, Typed, o
<1> QED BY <1>3, <1>4, <1>5, <1>6, <1>7

LEMMA AnsweredStep ==
  ASSUME Inv, NEW c \in Caller, Answered(c)
  PROVE  Inv'
<1> DEFINE o == obj[c]
<1> USE DEF Inv
<1>1. /\ o \in CmdObj /\ o # None /\ Held(o) /\ ~Free(o) /\ ~Pending(o) /\ o \notin lost
      /\ ~is_ack[o] /\ ~ack_event[o] /\ AtRest(o)
  BY CmdObjAssumption DEF Answered, Typed, HolderIsQuiet, Held, Places
<1>2. /\ pc' = [pc EXCEPT ![c] = "idle"] /\ obj' = [obj EXCEPT ![c] = None]
      /\ ret' = [ret EXCEPT ![c] = cmd_status[o]]
      /\ free_queue' = Append(free_queue, o)
      /\ UNCHANGED <<pend_queue, is_ack, cmd_status, ack_event, job_q, task,
                     calls, lost, unanswered, answer>>
  BY DEF Answered, Returns, GiveBack, objects, tasks, history
<1>3. /\ free_queue' \in Seq(CmdObj) /\ IsInjective(free_queue')
      /\ Range(free_queue') = Range(free_queue) \cup {o}
  BY <1>1, <1>2, Appended DEF Typed, Places, Free
<1> HIDE DEF o
<1>4. Typed'
  BY <1>1, <1>2, <1>3 DEF Typed
<1>5. Places'
  <2>1. \A x \in CmdObj : Held(x)' <=> Held(x) /\ x # o
    BY <1>1, <1>2, CmdObjAssumption DEF Held, Typed, Places, o
  <2>2. \A d, e \in Caller : obj'[d] = obj'[e] /\ obj'[d] # None => d = e
    BY <1>2 DEF Places, Typed
  <2> QED BY <1>1, <1>2, <1>3, <2>1, <2>2 DEF Places, Free, Pending
<1>6. FlightOnce' /\ EventIsLast' /\ FreeAtRest'
  BY <1>1, <1>2, <1>3 DEF FlightOnce, EventIsLast, FreeAtRest, Free, AtRest
<1>7. HolderIsQuiet' /\ AnswerUnderWay' /\ AnswerIsOwn'
  BY <1>2 DEF HolderIsQuiet, AnswerUnderWay, AnswerIsOwn, AtRest, Typed
<1> QED BY <1>4, <1>5, <1>6, <1>7

LEMMA WaitTimeoutStep ==
  ASSUME Inv, NEW c \in Caller, WaitTimeout(c)
  PROVE  Inv'
<1> DEFINE o == obj[c]
<1> USE DEF Inv
<1>1. /\ o \in CmdObj /\ o # None /\ Held(o) /\ ~Free(o) /\ ~Pending(o) /\ o \notin lost
  BY CmdObjAssumption DEF WaitTimeout, Typed, Held, Places
<1>2. /\ pc' = [pc EXCEPT ![c] = "idle"] /\ obj' = [obj EXCEPT ![c] = None]
      /\ ret' = [ret EXCEPT ![c] = "EVENT_TIMEOUT"]
      /\ pend_queue' = Append(pend_queue, o)
      /\ UNCHANGED <<free_queue, is_ack, cmd_status, ack_event, job_q, task,
                     calls, lost, unanswered, answer>>
  BY DEF WaitTimeout, Returns, FreeAfterTimeout, objects, tasks, history
<1>3. /\ pend_queue' \in Seq(CmdObj) /\ IsInjective(pend_queue')
      /\ Range(pend_queue') = Range(pend_queue) \cup {o}
  BY <1>1, <1>2, Appended DEF Typed, Places, Pending
<1> HIDE DEF o
<1>4. Typed'
  BY <1>2, <1>3 DEF Typed
<1>5. Places'
  <2>1. \A x \in CmdObj : Held(x)' <=> Held(x) /\ x # o
    BY <1>1, <1>2, CmdObjAssumption DEF Held, Typed, Places, o
  <2>2. \A d, e \in Caller : obj'[d] = obj'[e] /\ obj'[d] # None => d = e
    BY <1>2 DEF Places, Typed
  <2> QED BY <1>1, <1>2, <1>3, <2>1, <2>2 DEF Places, Free, Pending
<1>6. FlightOnce' /\ EventIsLast' /\ FreeAtRest'
  BY <1>2 DEF FlightOnce, EventIsLast, FreeAtRest, Free, AtRest
<1>7. HolderIsQuiet' /\ AnswerUnderWay' /\ AnswerIsOwn'
  BY <1>2 DEF HolderIsQuiet, AnswerUnderWay, AnswerIsOwn, AtRest, Typed
<1> QED BY <1>4, <1>5, <1>6, <1>7

LEMMA WaitFailsStep ==
  ASSUME Inv, NEW c \in Caller, WaitFails(c)
  PROVE  Inv'
<1> DEFINE o == obj[c]
<1> USE DEF Inv
<1>1. /\ o \in CmdObj /\ o # None /\ Held(o) /\ ~Free(o) /\ ~Pending(o) /\ o \notin lost
  BY CmdObjAssumption DEF WaitFails, Typed, Held, Places
<1>2. /\ pc' = [pc EXCEPT ![c] = "idle"] /\ obj' = [obj EXCEPT ![c] = None]
      /\ ret' = [ret EXCEPT ![c] = "FAILURE"] /\ lost' = lost \cup {o}
      /\ UNCHANGED <<free_queue, pend_queue, is_ack, cmd_status, ack_event, job_q, task,
                     calls, unanswered, answer>>
  BY DEF WaitFails, Returns, pool, objects, tasks
<1> HIDE DEF o
<1>3. Typed'
  BY <1>1, <1>2 DEF Typed, Status
<1>4. Places'
  <2>1. \A x \in CmdObj : Held(x)' <=> Held(x) /\ x # o
    BY <1>1, <1>2, CmdObjAssumption DEF Held, Typed, Places, o
  <2>2. \A d, e \in Caller : obj'[d] = obj'[e] /\ obj'[d] # None => d = e
    BY <1>2 DEF Places, Typed
  <2> QED BY <1>1, <1>2, <2>1, <2>2 DEF Places, Free, Pending
<1>5. FlightOnce' /\ EventIsLast' /\ FreeAtRest'
  BY <1>2 DEF FlightOnce, EventIsLast, FreeAtRest, Free, AtRest
<1>6. HolderIsQuiet' /\ AnswerUnderWay' /\ AnswerIsOwn'
  BY <1>2 DEF HolderIsQuiet, AnswerUnderWay, AnswerIsOwn, AtRest, Typed
<1> QED BY <1>3, <1>4, <1>5, <1>6

LEMMA HandleAckStep ==
  ASSUME Inv, NEW t \in Target, HandleAck(t)
  PROVE  Inv'
<1> DEFINE o == Head(job_q[t])
<1> USE DEF Inv
<1>1. /\ o \in CmdObj /\ Tail(job_q[t]) \in Seq(CmdObj)
      /\ Range(job_q[t]) = Range(Tail(job_q[t])) \cup {o}
      /\ IsInjective(Tail(job_q[t])) /\ o \notin Range(Tail(job_q[t]))
  BY Removed DEF HandleAck, Typed, FlightOnce
<1> HIDE DEF o
<1>2. /\ is_ack[o] /\ is_ack' = [is_ack EXCEPT ![o] = FALSE]
      /\ ack_event' = [ack_event EXCEPT ![o] = TRUE]
      /\ job_q' = [job_q EXCEPT ![t] = Tail(job_q[t])]
      /\ UNCHANGED <<free_queue, pend_queue, cmd_status, task, pc, obj, ret,
                     calls, lost, unanswered, answer>>
  BY DEF HandleAck, pool, callers, history, o
<1>3. \A u \in Target : task'[u] # o /\ o \notin Range(job_q'[u])
  <2> SUFFICES ASSUME NEW u \in Target
               PROVE  task'[u] # o /\ o \notin Range(job_q'[u])
    OBVIOUS
  <2>1. task'[u] # o
    BY <1>1, <1>2 DEF FlightOnce
  <2>2. CASE u = t
    BY <1>1, <1>2, <2>1, <2>2 DEF Typed
  <2>3. CASE u # t
    BY <1>1, <1>2, <2>1, <2>3 DEF FlightOnce, Typed
  <2> QED BY <2>2, <2>3
<1>4. \A x \in CmdObj : AtRest(x) => AtRest(x)'
  BY <1>1, <1>2 DEF AtRest, Typed
<1>5. ~AtRest(o)
  BY <1>1 DEF AtRest
<1>6. Typed'
  BY <1>1, <1>2 DEF Typed
<1>7. Places'
  BY <1>2 DEF Places, Held, Free, Pending
<1>8. FlightOnce'
  BY <1>1, <1>2 DEF FlightOnce, Typed
<1>9. EventIsLast' /\ FreeAtRest'
  <2>1. EventIsLast'
    <3> SUFFICES ASSUME NEW x \in CmdObj, ack_event'[x]
                 PROVE  ~is_ack'[x] /\ AtRest(x)'
      BY DEF EventIsLast
    <3>1. CASE x = o
      BY <1>1, <1>2, <1>3, <3>1 DEF Typed, AtRest
    <3>2. CASE x # o
      <4>1. ack_event[x] /\ is_ack'[x] = is_ack[x]
        BY <1>2, <3>2 DEF Typed
      <4> QED BY <1>4, <4>1 DEF EventIsLast
    <3> QED BY <3>1, <3>2
  <2>2. FreeAtRest'
    BY <1>1, <1>2, <1>4, <1>5 DEF FreeAtRest, Free, Typed
  <2> QED BY <2>1, <2>2
<1>10. HolderIsQuiet'
  <2> SUFFICES ASSUME NEW c \in Caller, pc[c] \in {"send", "answered"}
               PROVE  ~is_ack'[obj[c]] /\ ~ack_event'[obj[c]] /\ AtRest(obj[c])'
    BY <1>2 DEF HolderIsQuiet
  <2>1. obj[c] \in CmdObj /\ ~is_ack[obj[c]] /\ ~ack_event[obj[c]] /\ AtRest(obj[c])
    BY DEF HolderIsQuiet, Typed
  <2>2. obj[c] # o
    BY <1>5, <2>1
  <2>3. is_ack'[obj[c]] = is_ack[obj[c]] /\ ack_event'[obj[c]] = ack_event[obj[c]]
    BY <1>2, <2>1, <2>2 DEF Typed
  <2> QED BY <1>2, <1>4, <2>1, <2>3
<1>11. AnswerUnderWay' /\ AnswerIsOwn'
  BY <1>1, <1>2 DEF AnswerUnderWay, AnswerIsOwn, Typed
<1> QED BY <1>6, <1>7, <1>8, <1>9, <1>10, <1>11

LEMMA TakeCommandStep ==
  ASSUME Inv, NEW t \in Target, TakeCommand(t)
  PROVE  Inv'
<1> DEFINE o == Head(job_q[t])
<1> USE DEF Inv
<1>1. /\ o \in CmdObj /\ Tail(job_q[t]) \in Seq(CmdObj)
      /\ Range(job_q[t]) = Range(Tail(job_q[t])) \cup {o}
      /\ IsInjective(Tail(job_q[t])) /\ o \notin Range(Tail(job_q[t]))
  BY Removed DEF TakeCommand, Typed, FlightOnce
<1> HIDE DEF o
<1>2. /\ task' = [task EXCEPT ![t] = o]
      /\ job_q' = [job_q EXCEPT ![t] = Tail(job_q[t])]
      /\ UNCHANGED <<free_queue, pend_queue, is_ack, cmd_status, ack_event, pc, obj, ret,
                     calls, lost, unanswered, answer>>
  BY DEF TakeCommand, pool, objects, callers, history, o
<1>3. \A x \in CmdObj : AtRest(x) => AtRest(x)'
  BY <1>1, <1>2 DEF AtRest, Typed
<1>4. Typed'
  BY <1>1, <1>2 DEF Typed
<1>5. Places'
  BY <1>2 DEF Places, Held, Free, Pending
<1>6. FlightOnce'
  BY <1>1, <1>2 DEF FlightOnce, Typed
<1>7. EventIsLast' /\ FreeAtRest'
  BY <1>2, <1>3 DEF EventIsLast, FreeAtRest, Free
<1>8. HolderIsQuiet' /\ AnswerUnderWay' /\ AnswerIsOwn'
  BY <1>2, <1>3 DEF HolderIsQuiet, AnswerUnderWay, AnswerIsOwn, Typed
<1> QED BY <1>4, <1>5, <1>6, <1>7, <1>8

(* Whoever uses the object gets the status that is written to it. *)
LEMMA SendAckStep ==
  ASSUME Inv, NEW t \in Target, SendAck(t)
  PROVE  Inv'
<1> DEFINE o == task[t]
<1> USE DEF Inv
<1>1. /\ o \in CmdObj /\ o # None /\ ~AtRest(o) /\ ~ack_event[o]
      /\ \A u \in Target : o \notin Range(job_q[u]) /\ (u # t => task[u] # o)
  BY DEF SendAck, Typed, FlightOnce, AtRest, EventIsLast
<1>2. PICK status \in Status :
        /\ cmd_status' = [cmd_status EXCEPT ![o] = status]
        /\ answer' = [c \in Caller |-> IF obj[c] = o THEN status ELSE answer[c]]
  BY DEF SendAck
<1>3. /\ is_ack' = [is_ack EXCEPT ![o] = TRUE]
      /\ task' = [task EXCEPT ![t] = None]
      /\ UNCHANGED <<free_queue, pend_queue, ack_event, pc, obj, ret, calls, lost>>
  BY DEF SendAck, pool, callers
<1>4. /\ job_q' \in [Target -> Seq(CmdObj)]
      /\ \A u \in Target : /\ Range(job_q'[u]) \subseteq Range(job_q[u]) \cup {o}
                           /\ IsInjective(job_q'[u])
                           /\ u # "HOST" => job_q'[u] = job_q[u]
      /\ unanswered' \subseteq CmdObj
  <2>1. CASE job_q' = [job_q EXCEPT !["HOST"] = Append(@, o)] /\ UNCHANGED unanswered
    <3>1. /\ Append(job_q["HOST"], o) \in Seq(CmdObj)
          /\ Range(Append(job_q["HOST"], o)) = Range(job_q["HOST"]) \cup {o}
          /\ IsInjective(Append(job_q["HOST"], o))
      BY <1>1, Appended DEF Typed, FlightOnce, Target
    <3> QED BY <2>1, <3>1 DEF Typed, FlightOnce
  <2>2. CASE unanswered' = unanswered \cup {o} /\ UNCHANGED job_q
    BY <1>1, <2>2 DEF Typed, FlightOnce
  <2> QED BY <2>1, <2>2 DEF SendAck
<1> HIDE DEF o
<1>5. \A x \in CmdObj : AtRest(x) => x # o /\ AtRest(x)'
  BY <1>1, <1>3, <1>4, CmdObjAssumption DEF AtRest, Typed
<1>6. Typed'
  BY <1>1, <1>2, <1>3, <1>4 DEF Typed
<1>7. Places'
  BY <1>3 DEF Places, Held, Free, Pending
<1>8. FlightOnce'
  <2>1. \A u, v \in Target : task'[u] \notin Range(job_q'[v])
    <3> SUFFICES ASSUME NEW u \in Target, NEW v \in Target
                 PROVE  task'[u] \notin Range(job_q'[v])
      OBVIOUS
    <3>1. CASE u = t
      <4>1. Range(job_q'[v]) \subseteq CmdObj
        BY <1>4 DEF Range
      <4> QED BY <1>3, <3>1, <4>1, CmdObjAssumption DEF Typed
    <3>2. CASE u # t
      BY <1>1, <1>3, <1>4, <3>2 DEF FlightOnce, Typed
    <3> QED BY <3>1, <3>2
  <2>2. \A u, v \in Target : u # v => Range(job_q'[u]) \cap Range(job_q'[v]) = {}
    BY <1>1, <1>4 DEF FlightOnce, Target
  <2>3. \A u, v \in Target : task'[u] = task'[v] /\ task'[u] # None => u = v
    BY <1>3 DEF FlightOnce, Typed
  <2> QED BY <1>4, <2>1, <2>2, <2>3 DEF FlightOnce
<1>9. EventIsLast' /\ FreeAtRest'
  <2>1. EventIsLast'
    BY <1>1, <1>3, <1>5 DEF EventIsLast, Typed
  <2>2. FreeAtRest'
    BY <1>1, <1>3, <1>5 DEF FreeAtRest, Free, Typed
  <2> QED BY <2>1, <2>2
<1>10. HolderIsQuiet'
  BY <1>1, <1>3, <1>5 DEF HolderIsQuiet, Typed
<1>11. AnswerUnderWay'
  BY <1>1, <1>2, <1>3 DEF AnswerUnderWay, Typed, Status, None
<1>12. AnswerIsOwn'
  BY <1>1, <1>2, <1>3, <1>5 DEF AnswerIsOwn, HolderIsQuiet, Typed
<1> QED BY <1>6, <1>7, <1>8, <1>9, <1>10, <1>11, <1>12

-----------------------------------------------------------------------------

LEMMA Inductive ==
  ASSUME Inv, [Next]_vars
  PROVE  Inv'
<1>1. CASE UNCHANGED vars
  BY <1>1 DEF vars, pool, objects, tasks, callers, history, Inv, Typed, Places, Held,
     Free, Pending, FlightOnce, AtRest, EventIsLast, HolderIsQuiet, FreeAtRest,
     AnswerUnderWay, AnswerIsOwn
<1>2. ASSUME NEW c \in Caller, Call(c) \/ CallerGoesOn(c)
      PROVE  Inv'
  BY <1>2, CallStep, GetObjectStep, SendStep, WaitEventStep, AnsweredStep, WaitTimeoutStep,
     WaitFailsStep
  DEF CallerGoesOn
<1>3. ASSUME NEW t \in Target, TargetTask(t)
      PROVE  Inv'
  BY <1>3, HandleAckStep, TakeCommandStep, SendAckStep DEF TargetTask
<1> QED BY <1>1, <1>2, <1>3 DEF Next

LEMMA InvHolds == Spec => []Inv
  BY InitInv, Inductive, PTL DEF Spec

(* Every variable keeps its type; a thread holds an object exactly from the    *)
(* moment it took one to the end of its call; and neither queue is ever asked  *)
(* to hold more than it has places for (vx_context.c:764-855).                 *)
THEOREM TypeCorrect == Spec => []TypeOK
<1>1. Inv => TypeOK
  BY PlacesFit DEF Inv
<1> QED BY <1>1, InvHolds, PTL

(* An object is free, left to its late answer, used by one thread or lost, and *)
(* only one of these (vx_context.c:641-740).                                   *)
THEOREM ObjectsAccounted == Spec => []ObjectAccounted
<1>1. Inv => ObjectAccounted
  BY PlacesAccount DEF Inv
<1> QED BY <1>1, InvHolds, PTL

(* An object that may be given out is in no queue and no task, and carries     *)
(* neither an answer nor an event (vx_context.c:660-740).                      *)
THEOREM FreeObjectsAreQuiet == Spec => []FreeIsQuiet
<1>1. Inv => FreeIsQuiet
  <2>1. Typed => Range(free_queue) \subseteq CmdObj
    BY DEF Typed, Range
  <2> QED BY <2>1 DEF Inv, FreeAtRest, FreeIsQuiet, Quiet, Free, AtRest
<1> QED BY <1>1, InvHolds, PTL

(* A thread that was woken reads the status of its own command                 *)
(* (vx_context.c:800-834).                                                     *)
THEOREM AnswersAreOwn == Spec => []AnswerIsOwn
<1>1. Inv => AnswerIsOwn
  BY DEF Inv
<1> QED BY <1>1, InvHolds, PTL
=============================================================================

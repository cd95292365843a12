--------------------------- MODULE ContextCommand ---------------------------
(***************************************************************************)
(* Commands of the application to a target: create, delete and control of  *)
(* a node (vx_context.c).  A context has a few command objects, each with  *)
(* an event.  A thread takes one, fills it, sends it to the target and     *)
(* waits, with or without a timeout, for the event; the target task runs   *)
(* the command and sends the same object to the HOST task, which posts the *)
(* event (vx_target.c).                                                    *)
(*                                                                         *)
(* Nothing cancels a command: after a timeout the target may still have it *)
(* in its queue, and the answer may come later.  An object given out again *)
(* then would carry two commands, and its late answer would be taken for   *)
(* that of the second.                                                     *)
(***************************************************************************)
EXTENDS Naturals, Sequences, FiniteSets, Functions

CONSTANTS
  Caller,         \* threads that send commands
  Timed,          \* those that wait with a timeout, or not at all (NO_WAIT)
  CmdObj,         \* the TIVX_MAX_CTRL_CMD_OBJECTS command objects
  SendFailures,   \* whether the queue of the target, or the IPC, may refuse
  AckFailures,    \* whether the queue of the HOST task may refuse
  MaxCalls        \* bound of the model: commands ever sent

None == "none"

ASSUME CallerAssumption == IsFiniteSet(Caller) /\ Timed \subseteq Caller
ASSUME CmdObjAssumption == IsFiniteSet(CmdObj) /\ CmdObj # {} /\ None \notin CmdObj
ASSUME MaxCallsAssumption == MaxCalls \in Nat
ASSUME SwitchAssumption == {SendFailures, AckFailures} \subseteq BOOLEAN

VARIABLES
  free_queue,  \* objects that may be given out, oldest first
  pend_queue,  \* objects whose answer did not come in time
  is_ack,      \* obj_desc_cmd[o]->flags has TIVX_CMD_FLAG_IS_ACK
  cmd_status,  \* obj_desc_cmd[o]->cmd_status
  ack_event,   \* is_set of cmd_ack_event[o]
  job_q,       \* job queues of the target and the HOST task: the objects in them
  task,        \* the command either task carries out
  pc,          \* where each thread is in its call
  obj,         \* the object a thread holds
  ret,         \* status of the latest call of each thread
  calls,       \* history: commands ever sent
  lost,        \* history: objects that went to neither queue
  unanswered,  \* history: objects whose answer was refused
  answer       \* history: what the target answered to the current call

pool == <<free_queue, pend_queue>>
objects == <<is_ack, cmd_status, ack_event>>
tasks == <<job_q, task>>
callers == <<pc, obj, ret>>
history == <<calls, lost, unanswered, answer>>
vars == <<pool, objects, tasks, callers, history>>

Target == {"TARGET", "HOST"}
Status == {"SUCCESS", "FAILURE"}

(* The order in which the objects are created.                               *)
CmdObjSeqs == {s \in [1 .. Cardinality(CmdObj) -> CmdObj] : IsInjective(s)}

(* ownContextCreateCmdObj                                                    *)
Init ==
  /\ free_queue \in CmdObjSeqs
  /\ pend_queue = <<>>
  /\ is_ack = [o \in CmdObj |-> FALSE]
  /\ cmd_status = [o \in CmdObj |-> "SUCCESS"]
  /\ ack_event = [o \in CmdObj |-> FALSE]
  /\ job_q = [t \in Target |-> <<>>]
  /\ task = [t \in Target |-> None]
  /\ pc = [c \in Caller |-> "idle"]
  /\ obj = [c \in Caller |-> None]
  /\ ret = [c \in Caller |-> "SUCCESS"]
  /\ calls = 0 /\ lost = {} /\ unanswered = {}
  /\ answer = [c \in Caller |-> None]

-----------------------------------------------------------------------------
(* The caller: ownContextSendCmd, ownContextSendControlCmd.                  *)

Call(c) ==
  /\ pc[c] = "idle" /\ calls < MaxCalls
  /\ pc' = [pc EXCEPT ![c] = "get"]
  /\ calls' = calls + 1
  /\ answer' = [answer EXCEPT ![c] = None]
  /\ UNCHANGED <<pool, objects, tasks, obj, ret, lost, unanswered>>

(* The call waits for an object without a limit, whatever its timeout.       *)
GetObject(c) ==
  /\ pc[c] = "get" /\ free_queue # <<>>
  /\ obj' = [obj EXCEPT ![c] = Head(free_queue)]
  /\ free_queue' = Tail(free_queue)
  /\ pc' = [pc EXCEPT ![c] = "send"]
  /\ UNCHANGED <<pend_queue, objects, tasks, ret, history>>

(* The object id is a local variable of the call.                            *)
Returns(c, status) ==
  /\ pc' = [pc EXCEPT ![c] = "idle"]
  /\ obj' = [obj EXCEPT ![c] = None]
  /\ ret' = [ret EXCEPT ![c] = status]

(***************************************************************************)
(* The object is filled in, which clears IS_ACK, and sent.  An object that *)
(* cannot be sent goes to neither queue.                                   *)
(***************************************************************************)
Send(c) ==
  /\ pc[c] = "send"
  /\ is_ack' = [is_ack EXCEPT ![obj[c]] = FALSE]
  /\ \/ /\ job_q' = [job_q EXCEPT !["TARGET"] = Append(@, obj[c])]
        /\ pc' = [pc EXCEPT ![c] = "wait"]
        /\ UNCHANGED <<obj, ret, lost>>
     \/ /\ SendFailures
        /\ Returns(c, "FAILURE")
        /\ lost' = lost \cup {obj[c]}
        /\ UNCHANGED job_q
  /\ UNCHANGED <<pool, cmd_status, ack_event, task, calls, unanswered, answer>>

(* tivxEventWait takes the event.                                            *)
EventAfterWait_Set(o) == ack_event
EventAfterWait(o) == [ack_event EXCEPT ![o] = FALSE]

WaitEvent(c) ==
  /\ pc[c] = "wait" /\ ack_event[obj[c]]
  /\ ack_event' = EventAfterWait(obj[c])
  /\ pc' = [pc EXCEPT ![c] = "answered"]
  /\ UNCHANGED <<pool, is_ack, cmd_status, tasks, obj, ret, history>>

GiveBack_Dropped(o) == free_queue
GiveBack(o) == Append(free_queue, o)

(* Awake, it reads the status of the command and gives the object back.      *)
Answered(c) ==
  /\ pc[c] = "answered"
  /\ Returns(c, cmd_status[obj[c]])
  /\ free_queue' = GiveBack(obj[c])
  /\ UNCHANGED <<pend_queue, objects, tasks, history>>

(* The target may still have the object of a call that timed out.            *)
FreeAfterTimeout_GivenBack(o) == Append(free_queue, o)
FreeAfterTimeout(o) == free_queue

WaitTimeout(c) ==
  /\ c \in Timed
  /\ pc[c] = "wait"
  /\ free_queue' = FreeAfterTimeout(obj[c])
  /\ pend_queue' = Append(pend_queue, obj[c])
  /\ Returns(c, "EVENT_TIMEOUT")
  /\ UNCHANGED <<objects, tasks, history>>

(***************************************************************************)
(* A wait with TIVX_EVENT_TIMEOUT_NO_WAIT, and one that cannot read the    *)
(* clock, fails with VX_FAILURE, which is not the timeout: the object goes *)
(* to neither queue, though the target may still have it.                  *)
(***************************************************************************)
WaitFails(c) ==
  /\ c \in Timed
  /\ pc[c] = "wait" /\ ~ack_event[obj[c]]
  /\ lost' = lost \cup {obj[c]}
  /\ Returns(c, "FAILURE")
  /\ UNCHANGED <<pool, objects, tasks, calls, unanswered, answer>>

-----------------------------------------------------------------------------
(* Both tasks handle an object the same way: ownTargetCmdDescHandler.        *)

(* An object that says IS_ACK is an answer: ownTargetCmdDescHandleAck.       *)
HandleAck(t) ==
  /\ task[t] = None /\ job_q[t] # <<>>
  /\ LET o == Head(job_q[t])
     IN /\ is_ack[o]
        /\ is_ack' = [is_ack EXCEPT ![o] = FALSE]
        /\ ack_event' = [ack_event EXCEPT ![o] = TRUE]
  /\ job_q' = [job_q EXCEPT ![t] = Tail(@)]
  /\ UNCHANGED <<pool, cmd_status, task, callers, history>>

(* One that does not is a command, which takes its time.                     *)
TakeCommand(t) ==
  /\ task[t] = None /\ job_q[t] # <<>>
  /\ ~is_ack[Head(job_q[t])]
  /\ task' = [task EXCEPT ![t] = Head(job_q[t])]
  /\ job_q' = [job_q EXCEPT ![t] = Tail(@)]
  /\ UNCHANGED <<pool, objects, callers, history>>

(***************************************************************************)
(* ownTargetCmdDescSendAck.  The answer is that to the call which uses the *)
(* object now.  The status of the send is not looked at.                   *)
(***************************************************************************)
SendAck(t) ==
  /\ task[t] # None
  /\ LET o == task[t]
     IN /\ is_ack' = [is_ack EXCEPT ![o] = TRUE]
        /\ \E status \in Status :
             /\ cmd_status' = [cmd_status EXCEPT ![o] = status]
             /\ answer' = [c \in Caller |-> IF obj[c] = o THEN status ELSE answer[c]]
        /\ \/ /\ job_q' = [job_q EXCEPT !["HOST"] = Append(@, o)]
              /\ UNCHANGED unanswered
           \/ /\ AckFailures
              /\ unanswered' = unanswered \cup {o}
              /\ UNCHANGED job_q
  /\ task' = [task EXCEPT ![t] = None]
  /\ UNCHANGED <<pool, ack_event, callers, calls, lost>>

-----------------------------------------------------------------------------

CallerGoesOn(c) ==
  \/ GetObject(c) \/ Send(c) \/ WaitEvent(c) \/ Answered(c)
  \/ WaitTimeout(c) \/ WaitFails(c)

TargetTask(t) == HandleAck(t) \/ TakeCommand(t) \/ SendAck(t)

Next ==
  \/ \E c \in Caller : Call(c) \/ CallerGoesOn(c)
  \/ \E t \in Target : TargetTask(t)

Spec == Init /\ [][Next]_vars

(* Tasks work off their queues; a thread goes on, and time passes.           *)
Fairness ==
  /\ \A c \in Caller : WF_vars(CallerGoesOn(c))
  /\ \A t \in Target : WF_vars(TargetTask(t))

FairSpec == Spec /\ Fairness

-----------------------------------------------------------------------------

(* Who holds an object, and who does not.                                    *)
Typed ==
  /\ free_queue \in Seq(CmdObj) /\ pend_queue \in Seq(CmdObj)
  /\ is_ack \in [CmdObj -> BOOLEAN] /\ ack_event \in [CmdObj -> BOOLEAN]
  /\ cmd_status \in [CmdObj -> Status]
  /\ job_q \in [Target -> Seq(CmdObj)]
  /\ task \in [Target -> CmdObj \cup {None}]
  /\ pc \in [Caller -> {"idle", "get", "send", "wait", "answered"}]
  /\ obj \in [Caller -> CmdObj \cup {None}]
  /\ \A c \in Caller : obj[c] = None <=> pc[c] \in {"idle", "get"}
  /\ ret \in [Caller -> Status \cup {"EVENT_TIMEOUT"}]
  /\ calls \in Nat
  /\ lost \subseteq CmdObj /\ unanswered \subseteq CmdObj
  /\ answer \in [Caller -> Status \cup {None}]

(***************************************************************************)
(* Types; and no queue is asked to hold more than it has places for, so    *)
(* that the NO_WAIT puts of the calls never fail.                          *)
(***************************************************************************)
TypeOK ==
  /\ Typed
  /\ Len(free_queue) <= Cardinality(CmdObj) /\ Len(pend_queue) <= Cardinality(CmdObj)

(***************************************************************************)
(* An object is in one place: free, once; left in pend_queue; in use by    *)
(* one thread; or lost with a command that could not be sent or waited for. *)
(* Given to two threads it would carry the command of one and the          *)
(* parameters of the other.                                                *)
(***************************************************************************)
ObjectAccounted ==
  /\ IsInjective(free_queue) /\ IsInjective(pend_queue)
  /\ \A c, d \in Caller : obj[c] = obj[d] /\ obj[c] # None => c = d
  /\ LET held == {obj[c] : c \in Caller} \ {None}
     IN /\ UNION {Range(free_queue), Range(pend_queue), held, lost} = CmdObj
        /\ Range(free_queue) \cap (Range(pend_queue) \cup held \cup lost) = {}
        /\ held \cap (Range(pend_queue) \cup lost) = {}
        /\ Range(pend_queue) \cap lost = {}

(* Nothing is under way for an object, and no old answer is left in it.      *)
Quiet(o) ==
  /\ ~is_ack[o] /\ ~ack_event[o]
  /\ \A t \in Target : task[t] # o /\ o \notin Range(job_q[t])

(***************************************************************************)
(* An object that may be given out is out of the hands of the target and   *)
(* the HOST task, and its event is clear: no answer to an earlier command  *)
(* can meet the next one, also when that command timed out.                *)
(***************************************************************************)
FreeIsQuiet == \A o \in Range(free_queue) : Quiet(o)

(***************************************************************************)
(* A thread that was woken reads the status of the command it sent: "the   *)
(* API returns either when the command execution finishes or if the        *)
(* timeout occurs" (tivx.h:690-691).                                       *)
(***************************************************************************)
AnswerIsOwn ==
  \A c \in Caller :
    pc[c] = "answered" => answer[c] # None /\ cmd_status[obj[c]] = answer[c]

(* The thread waits, without a timeout, for an answer the HOST queue refused. *)
Stranded(c) == c \notin Timed /\ pc[c] = "wait" /\ obj[c] \in unanswered

(* No object is left that could become free.                                 *)
PoolDry ==
  \A o \in CmdObj :
    \/ o \in Range(pend_queue) \cup lost
    \/ \E c \in Caller : obj[c] = o /\ Stranded(c)

(***************************************************************************)
(* A call ends, also when there are more callers than objects, unless its  *)
(* answer was refused, or earlier calls that timed out, failed or were refused *)
(* have used up the objects: nothing moves an object from pend_queue back. *)
(***************************************************************************)
CallsEnd ==
  \A c \in Caller : pc[c] # "idle" ~> (pc[c] = "idle" \/ Stranded(c) \/ PoolDry)
=============================================================================

# Verification of the TIOVX graph framework

TLA+ models, model-checking runs and machine-checked proofs for the core of the
TI firmware builder for AM62A: **TIOVX**, the OpenVX implementation in
`src/tiovx`, whose framework schedules a graph of nodes, runs them on target
tasks, moves buffers between them through queues, and hands references to and
from the application (the OpenVX pipelining extension); and for the log that the
CPUs of the device share (`src/vision_apps`).

Paths below are relative to `src/tiovx/source/framework/` unless they start
with another tree.

## 1. The system

The repository holds six trees: `tiovx` (framework, OpenVX kernels, conformance
tests, platform layers), `vision_apps` (applications, log ring, inter-processor
calls), `imaging` (sensor drivers and image tuning), `edgeai-gst-plugins`,
`edgeai-tiovx-modules` and `edgeai-tiovx-kernels` (GStreamer elements, node
wrappers and kernels on top of TIOVX). Almost everything concurrent and stateful that
belongs to this code base itself meets in the framework; the other trees call
it, or compute on pixels, or wrap vendor drivers that are not in the repository.
The exception is the log ring of `vision_apps`, which is modelled too.

### How a graph runs

```
 application threads            HOST target task            other target tasks
 vxScheduleGraph  ----------->  (graph lock)   <----------  leaf node complete
 enqueueReadyRef -> ready queue ------------------------->  acquire parameters
 dequeueDoneRef <- done queue   <-------------------------  release parameters
      ^  event                  DATA_REF_CONSUMED command <-  ref consumed
      +-------------------------+
 vxWaitGraph    <- all_graph_completed_event
 vxWaitEvent    <- event queue
```

A *pipeline id* (0 .. depth-1) is one slot of graph execution; each node has one
descriptor per id. Starting an execution takes an id from `free_q`, clears the
executed flags of its descriptors and puts the head nodes into the job queues of
their targets. A target task takes one descriptor after the other, acquires its
parameters, runs the kernel, releases the parameters, tells the HOST task when
the node is a leaf or has a callback or an event, and triggers each successor all of whose predecessors have
executed. A descriptor that finds a queue empty, or its predecessor in the
pipeline blocked, is left aside until whoever unblocks it triggers it again. The
HOST task counts leaf completions; with the last one of an id it gives the id
back, takes over the pending requests and schedules them.

### Inventory

| Component (source) | State | Operations | Interacts with | What is hard | What makes it correct |
|---|---|---|---|---|---|
| Object descriptor queue (`vx_obj_desc_queue.c`) | ring of ids, read and write index, count, list of blocked nodes | create, release, enqueue, dequeue, count, add and extract blocked nodes | called by data reference queues and target tasks under one system lock | wrap-around, full and empty, reuse of a released descriptor, the list's bound of eight | first in first out, nothing lost or duplicated |
| OS queue (`platform/os/posix/tivx_queue.c`) | ring, count, mutex, two condition variables | create, delete, put, get, peek | job queues, `free_q`, event queues, command pool | lost wake-ups, barging, spurious wake-ups | first in first out, each call atomic, nobody sleeps beside an element |
| OS event (`platform/os/posix/tivx_event.c`) | one bit, mutex, condition variable | post, wait, clear | completion, done references, acknowledgements | several posts are one; a waiter takes the bit; time-outs | a wait ends if and only if something was posted |
| Graph scheduling (`vx_graph_pipeline.c`, `vx_graph.c`) | graph state, `free_q`, submitted and pending counts, state and leaf count of each id, completion event | schedule, wait, process, leaf completion, reschedule | application threads and HOST task share it under the graph lock, with some reads outside | hand-over of pending requests, the event cleared by a new start, abandon after completion | no id lost or doubled, no request lost, waits end when and only when they should |
| Target task (`vx_target.c`) | job queue, flags and state of the node descriptors | execute a descriptor, trigger, tell the HOST, node commands | other target tasks, HOST, object descriptors in shared memory | flags read without a lock, one trigger mistaken for another | each node once per execution, in order, after its predecessors |
| Parameter acquisition (`vx_target_acquire_parameters.c`) | acquired flag, reference and consumer count per id, consumer count of the reference | acquire, release | data reference queues, target tasks | several consumers, blocking against filling | a buffer belongs to one execution and is given back once |
| Data reference queue (`vx_data_ref_queue.c`) | ready and done queue, wait event, consumed command | enqueue, dequeue, wait, consumed event | application, target tasks, HOST task | queue and event are not updated together | every reference is somewhere, nobody waits beside one |
| Event queue (`vx_event_queue.c`) | free and ready index queues | add, wait, enable, disable | everything that reports to the application | full queue drops | an event is delivered once, in order |
| Verification (`vx_graph_verify.c`, `vx_graph_sort.c`) | edges, head and leaf nodes, order, allocation of descriptors | verify | builds what the rest executes | cycles, repeated verification | the computed edges are those of the graph |
| Streaming (`vx_graph_stream.c`) | state of the streaming task, two events | start, stop, run | graph scheduling, user events | stop against run | stop returns and nothing runs after it |
| Commands (`vx_context.c`, `vx_node.c`) | pool of command objects with events | create, delete, control, acknowledge | target tasks | time-out against a late acknowledgement, pool that runs dry | an object serves one command at a time |
| Delays (`vx_delay.c`) | slots, auto-ageing | age | parameter release | ageing while executions are in flight | every slot holds a different buffer |
| References, context (`vx_reference.c`, `vx_context.c`) | reference counts, object pools | create, retain, release | all objects | internal and external counts | freed once, when the last count goes |
| Super nodes (`vx_super_node.c`, `vx_graph_supernode.c`) | node groups | verify | verification | continuity of the group | a group has no path that leaves and enters it |
| Object descriptors (`vx_obj_desc.c`) | shared table | allocate, free, send | all | allocation by several cores | an id is allocated once |
| Log ring (`vision_apps/utils/console_io/src/app_log_*.c`) | a ring and a handshake word for each CPU, in shared memory | write a line, read and print, wait for the other CPUs | every CPU writes, one host reads; no lock between them | two indices are all they share; words left by an earlier boot | lines come out whole, once, in order; the handshake is a barrier |

The remaining components (kernels and their registration, data objects, logs,
platform layers, the rest of the other trees) are listed in `PROJECT.json` with the
reason why they are not modelled. The hazards, one per line of code where one
bites, with the properties that cover each, are there as well.

## 2. Modules

| Module | Models |
|---|---|
| `BlockingFifo` | what an object descriptor queue promises (abstract) |
| `ObjDescQueue` | `vx_obj_desc_queue.c`, the ring that implements it |
| `ObjDescQueueProofs` | type correctness, ring invariant, refinement |
| `BoundedQueue` | what a `tivx_queue` promises to the threads that share it (abstract) |
| `TivxQueue` | `tivx_queue.c`: ring, mutex, condition variables |
| `TivxQueueProofs` | no lost wake-up, refinement |
| `GraphSchedule` | scheduling, waiting, completion (`vx_graph.c`, `vx_graph_pipeline.c`, HOST part of `vx_target.c`) |
| `GraphScheduleProofs` | its safety invariants for all constants, and what a wait reports |
| `GraphPipeline` | execution of a pipelined graph: composes `GraphSchedule` (INSTANCE) with the target tasks, parameter acquisition and the data reference queues |
| `GraphPipelineProofs` | that it implements `GraphSchedule`, and its safety invariants for all graphs (those on joins under a condition) |
| `GraphStream` | streaming (`vx_graph_stream.c`): composes `GraphSchedule` (INSTANCE) with the streaming task, its event queue and the calls that start, stop and release |
| `GraphStreamProofs` | its safety invariants for all constants, and that its event queue never drops an event |
| `GraphParameter` | one queued graph parameter as the application sees it: enqueue, dequeue, wait, consumed events |
| `GraphParameterProofs` | its safety invariants for all constants |
| `ContextCommand` | the commands of a context to a target and their answers (`vx_context.c`, `vx_target.c`) |
| `ContextCommandProofs` | its safety invariants for all constants |
| `AppLog` | the log ring and the boot handshake of `vision_apps` (`app_log_writer.c`, `app_log_reader.c`) |
| `AppLogProofs` | the handshake is a barrier for any number of CPUs; what is printed are the lines in order, for every size of the ring |
| `MC...` | instances for TLC |

### Correspondence with the code

**ObjDescQueue.** Variables are the fields of `tivx_obj_desc_queue_t`
(`queue_mem`, `cur_rd`, `cur_wr`, `count`, `blocked_nodes`) plus whether the
descriptor is allocated. Each function is one action, because its callers hold
`TIVX_PLATFORM_LOCK_DATA_REF_QUEUE`. The refinement mapping reads the ring from
`cur_rd` for `count` elements.

**TivxQueue.** A thread is idle, at the mutex (`put`, `get`) or asleep on a
condition variable. One turn of the loop, from having the mutex to giving it up
or to `pthread_cond_wait`, is one action: `Put`, `Get`, `GivesUp`, `Sleep`. A
signal wakes one sleeper, who then competes for the mutex again;
`SpuriousWakeup` is the only external action. Any timeout other than `NO_WAIT`
sleeps without limit, as in the code.

**GraphSchedule.** The variables up to `running` are fields of the graph and of
its object descriptors; `host` and `pc` say where the HOST task and each
application thread are. What happens between `ownReferenceLock` and
`ownReferenceUnlock` is one action: `Schedule` (`ownGraphScheduleGraph`),
`LeafCompletes` and `GraphCompletes` (`ownCheckGraphCompleted`); what the code
does before the lock, after it, or without it is an action of its own:
`ScheduleCall` and `WaitCall` (the look at `graph->state`), `WaitEvent`,
`WaitReturn`, `Reschedule` (the pending requests, once the lock is released),
`SetAbandon` (`ownTargetSetGraphStateAbandon` after the completion). The
execution of nodes is left open: leaf nodes of running ids complete in any order.
`requested`, `completed`, `goal`, `abandoned`, `last_abandoned` are history.

**GraphPipeline** fills that gap. A target task goes through `Take`,
`Acquire` (one parameter per step), `Complete`, `Release` (one parameter per
step), `SendComplete`, `TriggerNext` (one successor per step); what a step does
is done under one lock in the code, or is one access to flags other tasks use.
`CanNodeExecute` looks at the flags of all predecessors at once, where the code reads
one after the other. A flag that is found not set decides at the moment it is read;
flags that are all found set are all set at the last read, for they are not cleared
before the execution is complete. Only in a join over several targets, where the other
predecessor may trigger the node as well, can the execution complete and its id start
again between two reads; this is left out.
`TaskTrigger` and `AppTrigger` are the triggers of nodes that were blocked on a
queue, which the code issues after the unlock. The HOST takes one completion after
the other from its job queue: `HostCompletes`, that of a leaf node, is
`GraphSchedule`'s own action under the graph lock; `HostNotifies`, that of another node
with a callback or an event (`Notified`, those with TIVX_NODE_FLAG_IS_USER_CALLBACK),
only runs the callback and sends the event. An execution starts under the graph lock
for as many pipeline ids as are free: `StartNodes` clears the flags of their
descriptors, and `KernelSchedule` triggers their head nodes one after the other
(`starting` is what is left of this loop), while the target tasks already run the first
ones. Whoever needs the lock waits until it is through (`Unlocked`), and the thread in
the loop does nothing else (`MayGoOn`). `Holds` names the places of a descriptor between its trigger and the end of its
kernel.

**GraphStream** adds the streaming task to `GraphSchedule`. `event_q` is the
graph's own event queue, `stream_state` the local `state` of the task, and each
action of `StreamingTask` one transition of its state machine, selected by the
event at the head: `StartIdle`, `RunRunning`, `TriggerRunning`, `Stop`, `Delete`, and
`Ignore` for every event the state has no branch for (`ActsOn` names those it has).
Each takes its event off the queue. A transition that waits for the graph is cut at
the wait (`RunWaited`, `Waited`), and the wait ends with the completion or, when
TIVX_GRAPH_TIMEOUT is set, by the timeout (`WaitGraphEnds`): the task prints the status
and goes on as if nothing were. `timeouts` counts these ends, `MaxTimeouts` bounds
them. The HOST task reports the trigger node, before the completion when it
is an inner node (`TriggerCompletes`), after it when it is a leaf (`Notify`). The
application starts, stops (`StopGraphStreaming` to `StopReturns`) and releases;
the other threads wait for the graph and compete for its completion event.

**GraphParameter** looks at one parameter: the target task puts a reference into
the done queue under the lock (`Release`), sends the command after the unlock
(`SendRefConsumed`), which is lost when the HOST's queue is full (`HostDepth`), the
HOST task posts the wait event and adds to the event queue (`SendRefConsumedEvent`); the application's call alternates `TakeRef` and
`WaitDoneRef`, or ends with `WaitFails`.

**ContextCommand.** `free_queue` and `pend_queue` are those of the context,
`is_ack`, `cmd_status` and `ack_event` the fields of a command object. A call goes
through `GetObject` (`ownContextGetCmdObj`), `Send`, then `WaitEvent`, `WaitTimeout` or
`WaitFails` (a wait that fails with VX_FAILURE, as one with NO_WAIT: the object goes to
neither queue), and `Answered`, where it reads the status and gives the object back. The target
and the HOST task run the same handler (`HandleAck`, `TakeCommand`, `SendAck`):
what tells a command from an answer is the flag in the object itself. A refused
send and a refused answer are disjuncts of `Send` and `SendAck`. `lost`,
`unanswered`, `answer` are history.

**AppLog.** The ring of a CPU is `log_rd_idx`, `log_wr_idx`, `log_area_is_valid`
and `log_mem`, its handshake word `log_cpu_sync_state`. No lock exists between
CPUs, so each access to shared memory that another CPU can see is an action:
`PutString` measures the room, `CopyChar` stores one character, `Publish` the
write index; `Look` reads both indices, `ReadChar` one character, `Store` the read
index. A character stands for the number of its line, so that a line printed
from parts of two is told from a whole one; `writer.text` is the line without what
ends it, which is what the reader is to print. The loops of `appLogCpuSyncInit` over
the slaves are `MasterTest`, `MasterPoll`, `MasterStart`; a slave goes through
`SlaveInit`, `SlaveTested`, `SlaveConfirm`, `SlaveRuns`. The words of the slaves
start with any value, because nothing initialises them. Lines are put into the
ring one after the other on each CPU: the writer holds the CPU's own lock.

## 3. What is checked

Each property has a mutant: a definition of the model changed the way a
plausible bug would change the code, under which TLC finds the property
violated. The mutated definitions stand beside the originals
(`FreePipe_Lost`, `SignalsGet_WhenEmpty`, ...).

| Run | Instance | Shows |
|---|---|---|
| `obj_desc_queue` | ring of 3, blocked list of 2, any number of calls | `RingConsistent`, `ImplementsFifo` |
| `os_queue` | 3 threads, 2 places, 2 values | `NoLostWakeup`, `ImplementsQueue` |
| `schedule_auto` | 2 threads, depth 2, 2 leaf nodes, 4 requests, timeouts, leaf callbacks that abandon | `PipesPartitioned`, `RequestsConserved`, `PendingHasCarrier`, `WaitCoversRequests`, `TypeOK` |
| `schedule_manual` | 1 thread, manual mode, depth 2, timeouts, inner callbacks that abandon | `AbandonReported`, and with fairness `RequestsComplete`, `WaitEnds` |
| `pipeline` | a triangle of three nodes on two targets, one of them with a callback and no leaf, depth 2, job queues of 4, 3 requests | `InputsIntact`, `RefInOnePlace`, `RunsInOrder`, `CompletionExpected`, `TriggeredOnce`, `TypeOK`, and with fairness `RequestsComplete`: blocked nodes are triggered again |
| `graph_parameter` | 3 references, 2 releasing tasks, 1 dequeuing thread, event queue of 1, 2 places in the HOST's queue | `EveryRefAccounted`, `WakeUpUnderWay`, `EventsBacked`, `TypeOK`, and with fairness `DoneRefDelivered` |
| `context_command` | 3 threads (2 with a timeout), 2 command objects, sends and answers may be refused and waits may fail, 4 calls | `ObjectAccounted`, `FreeIsQuiet`, `AnswerIsOwn`, `TypeOK`, and with fairness `CallsEnd` |
| `stream` | depths 1 and 2, 2 leaf nodes, trigger node a leaf or before one or both, 1 more waiting thread, 1 wait that times out, event queue of 7 | `StoppedMeansStopped`, `OneRound`, `StarvedOnlyIfTaken`, `TypeOK`, and with fairness `KeepsStreaming`, `CallsReturn` |
| `log` | 3 CPUs, one of which logs 3 lines into a ring of 5, any words left from before | `PrintedInOrder`, `SyncIsBarrier`, `TypeOK`, and with fairness `SyncEnds`, `LinesPrinted` |
| `abandon_of_leaf` | violation of `AbandonReported` | see finding 1 |
| `join_order` | violation of `RunsInOrder` | see finding 2 |
| `log_full` | violation of `PrintsAll` | see finding 3 |

What some of these say, and what they leave out:

- `RequestsComplete` says that the completions always catch up with the requests.
  Requests are bounded in the model, so this is the same as that each of them
  completes, those kept pending included.
- `StarvedOnlyIfTaken`, `KeepsStreaming` and `CallsReturn` name the case in which
  the streaming task waits for a completion that another thread's `vxWaitGraph`
  took (the event is one bit and wakes one waiter): streaming stands still and
  `vxStopGraphStreaming` does not return. The other case is the release of a graph
  that streams without pipelining, where the task has itself taken the event it
  waits for. Nothing else makes it starve.
- `OneRound` allows two rounds for a trigger node that is a leaf: its event is
  sent after the completion that lets `vxStopGraphStreaming` return
  (`vx_target.c:1060`), and a graph started again by then has one more.
- `StoppedMeansStopped`, `OneRound` and `KeepsStreaming` are about graphs none of
  whose waits ended by the timeout (`InTime`); after one they need not hold (section 4).
  `StarvedOnlyIfTaken` and `CallsReturn` hold with timeouts as well.
- `CompletionExpected` has two parts: the HOST hears of a leaf node once for each
  execution, and while the execution is not complete (`LeafToldOnce`); and it hears
  of the other nodes with a callback before it completes their execution
  (`CallbackInTime`), so that a callback never abandons a later execution of the id.
- `CallsEnd` names the cases in which a call does not end: its answer was refused,
  or all objects are used up by earlier calls that timed out, whose wait failed, or
  that could not be sent.
- `WakeUpUnderWay` and `DoneRefDelivered` hold for one dequeuing thread per
  parameter. With two, two posts of the one-bit event may coalesce. They also hold
  when commands are lost because the queue of the HOST is full of commands of this
  parameter, for one that is left is enough; a queue that is full of other commands
  may lose the only wake-up, and the thread then waits until the next reference.
- `PrintedInOrder` and `LinesPrinted` leave out the CPUs one of whose lines filled
  its ring to the last place; that is finding 3.

### Bounds and why they are enough

- Pipeline depth 2 is the least at which one execution completes while another
  runs, an id is taken by one thread between the HOST's unlock and its
  rescheduling, and a descriptor has a predecessor. Four requests (three in the
  pipeline) exceed the depth, so requests stay pending and ids are reused. For
  the scheduling invariants depth, threads, leaf nodes and requests are removed
  by the proofs.
- Two leaf nodes: a completion that is the last of its id, and one that is not.
- Ring sizes below the number of calls reach wrap-around, full and empty.
- Three threads at the OS queue: two sleepers and a third that signals, or a
  sleeper, a signaller and one that is faster. Data are two values, so a
  reordering shows.
- The triangle is the smallest graph with a buffer that two nodes read and a node
  with two predecessors. The output has one buffer, so C blocks until the
  application gives it back; a second queue from A to B (`aux`) has one buffer,
  so A blocks until B has run and B's target triggers it (`TaskTrigger`); the
  depth makes nodes block on their predecessor in the pipeline. B, which is no leaf,
  has a callback, so completions of leaf nodes and others mix in the HOST's queue: up
  to four, as many as its places, and four are the descriptors of the target of A and
  B.
- Streaming with depth 1 (no pipelining) and depth 2, where a graph started again can
  run two rounds at once. Two leaf nodes, so that a completion may be the last of its
  execution or not, and the trigger node may come before one of them, before both, or
  be one. One other thread takes the completion. One wait of the task ends by the
  timeout, which is what leaves executions, events and rounds behind. Without
  timeouts the event queue never needs more than four elements (proved:
  `NoEventDropped`); with one it holds a few more, and the size of seven is as good as
  the 256 of the code (`TIVX_EVENT_QUEUE_MAX_SIZE`). Depth, leaf nodes and number of
  threads are removed by the proofs.
- Two command objects for three threads: one thread waits for an object, and two
  objects can be left in `pend_queue` or lost.
- Three CPUs, the master not the first: a slave before and one after it, so both
  loops skip the master. A ring of five places and lines of one character with and
  without a line end take two or three places with the terminator: a line runs
  over the end, one does not fit, and the ring is emptied in parts. One CPU logs;
  rings are independent of each other. The number of CPUs is removed by the proofs,
  and so are the size of the ring, the length of the lines and their number.
- `MaxRequests`, `MaxEnqueues`, `MaxCalls`, `MaxTimeouts` and `MaxLines` bound the history in the
  guards of what the application begins; everything else is finite by itself.
- `CHECK_DEADLOCK FALSE`: with the bound used up and everything dequeued the
  application stops calling and all tasks wait on their queues, which is what the
  program does. What must not stop is stated as liveness. (`TivxQueue` may stop
  where all threads sleep, a legal use of a queue nobody else serves.) The log
  reader polls for ever, so `log` is checked for deadlock.

### Fairness

Weak fairness only. `GraphSchedule`: the HOST task, which waits only on an empty
queue; and the steps of a thread that is inside a call, once enabled. That nodes
which run complete is part of `HostTask` there: it stands for kernels that
return. `GraphPipeline`: each target task, the HOST, the thread that triggers head
nodes, and an application that goes on taking references back and enqueueing them; without it the pipeline
rightly stops. `GraphStream`: the streaming task, the HOST, and the return of a
call whose event is set; starting, stopping and the other threads' waits are not
fair. `GraphParameter`: the graph, the HOST, and the thread inside its call;
nothing that the application is free not to do. `ContextCommand`: both tasks work
off their queues, and a thread inside a call goes on, where time passes (a timed
wait ends, by the answer or the timeout). `AppLog`: a CPU goes on with a line or a
handshake it has begun, a reader that was started polls; that a CPU boots, that
the reader starts and that a line is written is not fair. A call into the
framework and a callback's answer are never fair. The proofs and the safety runs
use the specification without fairness.

## 4. Findings

1. **An ABANDON of the last leaf's callback is not reported** (`abandon_of_leaf`).
   `vx_target.c:1167` calls the callback handler, which completes the graph and
   posts the event, before it records the abandon; `vxWaitGraph` returns success
   though `vx_types.h:382` promises `VX_ERROR_GRAPH_ABANDONED`.
2. **A join can be triggered twice and run out of order** (`join_order`): two
   predecessors on two targets both see the other executed (`vx_target.c:260`);
   the second trigger is taken for the one that unblocks the descriptor. In the
   triangle of `pipeline`, where one predecessor also feeds the other, it does
   not happen.
3. **A line that fills the ring erases it** (`log_full`): the writer accepts
   `max_bytes - 1` characters and adds a terminator (`app_log_writer.c:164`), so
   the write index meets the read index and the ring looks empty. The lines in it
   are never printed, and later ones overwrite them, also while they are read.

Differences between code and documents that need no run, because one line of the
model shows them:

- `vxScheduleGraph` on a graph that is running does nothing and returns success
  (`vx_graph.c:762-797`); `vx_api.h:970-973` describes it as scheduling for
  future execution.
- `vxGraphParameterDequeueDoneRef` returns when it has all `max_refs`
  (`vx_graph_pipeline.c:360`); `vx_khr_pipelining.h:243` says that it blocks
  until at least one is dequeued.
- A command with a timeout waits without a limit for a free command object
  (`vx_context.c:764`); `tivx.h:690-691` says that it returns when the timeout
  occurs.
- With TIVX_GRAPH_TIMEOUT set the streaming task's wait for the executions that run
  ends by the timeout (`vx_graph.c:852`; `Waited("EVENT_TIMEOUT")`); it prints that and
  posts `stop_done` all the same (`vx_graph_stream.c:196-203`), and
  `vxStopGraphStreaming` returns success with executions running.
  `vx_khr_pipelining.h:688-689` says that it blocks until all are completed. A graph
  started again by then is not scheduled, because it still runs
  (`vx_graph_stream.c:157`), and stands still until it is stopped.
- `app_log.h:100-102` says the reader initialises its index and the writer its
  own; `appLogWrInit` resets both.

## 5. What is proved

TLAPS checks the theorems for every value of the constants; the assumptions are
the named ones of each module.

**Scheduling** (`GraphScheduleProofs`): `TypeCorrect`, `PipesStayPartitioned`,
`NoRequestLost`, `PendingIsCarried`, `WaitIsCovered`, `AbandonIsReported`.
Assumptions are those
the module names: the depth is positive and no larger than `free_q`
(`ownGraphAllocAndEnqueueObjDescForPipeline` refuses a larger one), leaf nodes
are a finite, non-empty set, the mode is one of three.

The invariant the properties follow from is

    Inv == TypeOK /\ PipesPartitioned /\ RequestsConserved /\ PendingHasCarrier
           /\ WaitCoversRequests /\ LeavesCounted /\ EventMeansIdle
           /\ HandOver /\ NormalHasNone /\ GoalRequested

None of the first five properties is inductive. `PipesPartitioned` needs
`LeavesCounted` (an id's counter and its leaf nodes still to complete make up all
leaf nodes), or the last completion could leave a leaf running on an id that is
free. `WaitCoversRequests` needs `EventMeansIdle` (the event is set only when
nothing runs, is pending or is in the HOST's hands), `RequestsConserved` to turn
that into a count, and `GoalRequested`. `HandOver`
(the HOST task goes to schedule exactly when it took requests along) makes sure
that it does not forget them, and with `NormalHasNone` (nothing is ever pending
in the normal mode) keeps the counts exact where the queueing modes and the
normal mode part. The step proof has
one lemma per action and one step per conjunct the action can disturb;
cardinality facts about ids and leaf nodes are separate lemmas.

`AbandonIsReported` is an action property, and it has two hypotheses: one thread at
most, and leaf nodes whose callbacks go on. Without the second it is false; that is
finding 1. Without the first another thread can schedule the graph between the
wake-up and the look at its state. The abandon travels from the callback to the
descriptor, from there to the graph and from there to the caller, and the further
invariant `TellsInv` says of each of the first two that it is not lost on the way:
the descriptor of an id that runs tells of it (`DescTells`), the graph at rest tells
it of the execution completed last (`GraphTells`), and the thread that is awake has
the graph to itself until it has looked (`AloneWhenWoken`).

**Streaming** (`GraphStreamProofs`): `TypeCorrect`, `StoppedIsStopped`,
`OneRoundAlways`, `StarvedOnlyIfTakenAlways` and `NoEventDropped`, for every depth,
number of other threads and both kinds of trigger node, over the actions of
`GraphSchedule`. Assumed: the depth as above, leaf nodes that are finite in number and not none, and an
event queue of at least four elements. The theorems but `TypeCorrect` and
`StarvedOnlyIfTakenAlways` speak of a graph none of whose waits has timed out (`InTime`):
after one old executions and events run beside the new ones, and what is said of rounds
and stops need not hold (section 4). The argument counts. A round is what will make the task schedule
the graph again: an event in the queue, or an execution that has yet to send one
(`UnderWay`). While the graph streams no step makes a round or loses one
(`RoundsHold`), so that its number stays what START brought, one, or two with the
late event of a leaf. What makes the counting hard are stops and starts: behind a
STOP old events may still lie in the queue, and the next START comes behind those.
So the invariant names the position of START and that of STOP or DELETE (`QueueIs`,
an existential over both), counts the events behind START separately, because
those before it are ignored (`LateTicks`), and says for each position how far the
calls and the task can be (`CallsHold`). `GraphRuns` carries over what is needed of
the scheduling: what is submitted runs, the event means rest. From the bound
on rounds follows the bound on events, which nothing in the code but this protocol
enforces: `NoEventDropped` says that each place that adds an event finds a free
element, for an event refused is dropped without a word and its caller would wait
for ever.

**Object descriptor queue** (`ObjDescQueueProofs`): `InvariantHolds`
(`TypeOK /\ RingConsistent`) and `RefinesFifo`: `Spec => BlockingFifo!Spec` for
every ring size. The key lemmas say what an enqueue and a dequeue do to the
abstract sequence in modular arithmetic.

**OS queue** (`TivxQueueProofs`): `TypeCorrect`, `NoWakeupLost` and
`RefinesQueue`: `Spec => BoundedQueue!Spec`. A lost wake-up is a matter of
counting: while a thread sleeps beside `count` elements, as many threads are
awake at the mutex on their way to take one. A put adds an element and wakes one
sleeper; a get takes an element and is itself one fewer. The invariant adds to
this the shape of the ring and that a thread sleeps only on a condition variable
that is signalled (a queue without the flag signals nobody, and nobody sleeps on
it). Assumed: the number of threads is finite.

**Graph parameter** (`GraphParameterProofs`): `TypeCorrect`,
`ReferencesAccounted`, `EventsAreBacked`, and `WakeUpsUnderWay` for a single
dequeuing thread, which is a hypothesis of that theorem and needed.
`EveryRefAccounted` counts; what is inductive is `OnePlace`, which says of each
reference that it is in exactly one place, and once. `EventsBacked` becomes
inductive when the tasks that have released a reference and not yet told the HOST
are counted as well (`EventsCounted`). `WakeUpUnderWay` is inductive by itself.

**Commands** (`ContextCommandProofs`): `TypeCorrect`, `ObjectsAccounted`,
`FreeObjectsAreQuiet`, `AnswersAreOwn`, for any number of threads, objects,
timeouts and refusals. The invariant follows one object: it is in one place
(`Places`), in the hands of at most one task and there once (`FlightOnce`); an
event that is set is the last thing that happens to it (`EventIsLast`), so a
thread that was answered (`HolderIsQuiet`), and with it `free_queue`
(`FreeAtRest`), has an object nobody else touches; and an answer under way to a
thread is that to its own command (`AnswerUnderWay`). An object that timed out is
in none of these: that is why it is never given out again.

**Log** (`AppLogProofs`): `SyncIsABarrier`, for any number of CPUs and any
words found at boot. The invariant says what a word that the master has written,
and what one that the slave has confirmed, tells of where that slave is
(`WordIsNew`): a confirmation left by an earlier boot is overwritten before the
master looks at it.

`TypeCorrect` and `PrintedInOrderAlways` are about the rings, for every size of at
least two places, any set of line lengths and any number of lines. The invariant
reads the ring from the read index on: the lines that are accepted and not printed
lie there one behind the other up to the write index (`LiesAt`, with the beginning
of each line as a layout that is shifted when the reader stores its index and
extended when the writer publishes his); what the reader holds of a line is a
beginning of the line that is next (`ReadsAt`); and what the writer has copied lies
behind the write index, where it fits without touching what is not read
(`WriterHolds`). The read index the writer measures with may be old by then, which
only makes the ring look fuller. All this ends with a line that fills the ring to
the last place, and the theorem, like the property, says nothing of such a CPU.

**Pipeline** (`GraphPipelineProofs`): `SchedulesAsSpecified`, `TypeCorrect`,
`LeavesToldOnce`, `CompletionIsExpected`, `TriggersOnce`, `RefsInOnePlace`, `ProducedInputsIntact`,
`RunsInTurn`, `InputsStayIntact`, for every acyclic graph whose references have one
writer each (`GraphAssumption`, what verification refuses otherwise), any assignment
of nodes to targets, and any depth, number of buffers, threads and sizes of the
queues, and with any of the nodes telling the HOST besides the leaf nodes (`Notified`).

`SchedulesAsSpecified` is the composition: `Spec => S!Spec`. A step of the target
tasks, and the HOST's for a node that is no leaf, changes nothing of the schedule; a start and a completion are steps of
`GraphSchedule`. What makes the completions steps of it is that the HOST's queue
names leaf nodes that have yet to complete and that the counters agree, so the proof uses the invariant
of `GraphScheduleProofs` through an instance of that module, and all that is proved
there holds of the pipelined graph.

The invariants build on one another:

- `Typed`: the types, and for each point in a target task's work what it then holds
  (`Shaped`: how many parameters are acquired, whether there is something to
  trigger), and that descriptors lie in the queue of their own target.
- `Expected`, for `LeafToldOnce`: a completion of a leaf node in the HOST's queue, or
  still in the hands of a task, is that of one that ran (`executed`) and has yet to
  complete (`running`), and the HOST's queue holds it once, whatever it holds of other
  nodes; a node that runs has not executed; nothing is placed or
  runs for a pipeline id that never started.
- `Ready`, for `TriggeredOnce`: a descriptor is in one place, and there once; all of
  its predecessors have executed and it has not; and what a task has yet to trigger
  (`ToTrigger`) has no place. The last part is what makes it inductive, and where
  joins matter: of the predecessors of a node only the task that runs the last one
  may find it ready.
- `RefsPlaced`, for `RefInOnePlace`: an entry is acquired only while one of its last
  users has yet to release it; its counter and that of its reference are the number
  of consumers that are done (`EntryCounted`); who holds a parameter finds it in the
  entry (`EntryHeld`); each buffer is in one place (`OnePlace`).
- `EntryContent`, for `ProducedIntact`: once the producer has run, the entry holds
  what it wrote in this execution.
- `Told`, for `CompletionExpected`: before any completion in the HOST's queue there is
  a leaf node of its execution that runs and is not ahead of it (`LeafAhead`). A node
  that is no leaf tells the HOST before it triggers what follows it, so no leaf that
  depends on it has been told of yet; a leaf may complete early only if it does not
  depend on the node, and another one then keeps the execution open.
- `InTurn`, for `RunsInOrder`. Pipeline ids are taken in turn (`Clock`: an execution
  is on the id that its number gives, and `free_q` holds the next ones in order),
  because leaf nodes complete in order at the HOST (`HostOrder`). A node has run the
  executions up to one number (`LastFrames`), and what a task works on is the next
  (`TaskFrames`). A descriptor that is ready is accounted for (`NoneLost`): placed,
  or about to be; one that no queue or task holds is blocked (`AsideBlocked`), and
  one that is blocked ahead of its turn is the `blocked_node_id` of its predecessor
  (`Behind`), so it is triggered when that is done. In a job queue an execution comes
  before a later one of the same node unless that one has been blocked already
  (`JobsInOrder`); and the head nodes that a start has yet to trigger are in order and
  the latest of their node (`StartsInOrder`), so they go behind the others.
- `DrawnInTurn`, for `InputsIntact`: of the references that were enqueued at a graph
  parameter nobody writes (`Sources`), those taken from the acquire queue are those
  of the first executions (`Drawn`), and the entry of each of these executions holds
  its own until a consumer has run (`DrawnFor`).

`RunsInOrder` is the hardest of them, because before a node runs only the state of its
predecessor in the pipeline is looked at: a descriptor waits if that is blocked. The
argument (`TakesInTurn`) is about a descriptor that is taken up while its predecessor
has yet to run. All that feeds the node runs in order, so the predecessor is ready
as well, and with `NoneLost` it is accounted for. It is not blocked, or this
descriptor would have been put aside behind it; it is not in the queue, where it
would be in front (`JobsInOrder`); the task, which is idle, does not work on it; and
nobody has yet to trigger it, for whoever did would not have run the later execution.

`CompletionIsExpected` and the theorems from `TriggersOnce` on assume `SamePredTarget`: the nodes that feed one
node run on one target. The triangle of the run `pipeline` meets it (B and A both
feed C, and share a target), as does every graph without joins; the graph of
`join_order` does not, and there `TriggeredOnce` and with it the rest is false
(finding 2): the test of the flags and the trigger are not one step, and two tasks
can make them at the same time. So the theorems say that this is the only way in
which a node is triggered twice. `ProducedIntact` is the part of `InputsIntact` about
inputs that a node of the graph produces.

`RunsInTurn` and `InputsStayIntact` assume two things more.

- `Capacity`: a job queue has room for all descriptors of its target, and that of the
  HOST for the leaf nodes, and those with a callback or an event, of all executions. Nobody acts on a put that is refused: the
  descriptor is lost, and `ownTargetQueueObjDesc` tells the integrator to increase
  `TIVX_TARGET_MAX_JOB_QUEUE_DEPTH` (`vx_target.c:1371`). The run `pipeline` has just
  the places it asks for; with one fewer `RequestsComplete` is violated, because a
  completion of the leaf node is lost, while the invariants still hold.
- `QueuesProduced`, for `InputsStayIntact` only: a reference with a queue that is no
  graph parameter is written by a node. Verification makes such a queue at an
  output parameter that another node reads, and nowhere else
  (`vx_graph_verify.c:1647`).

The proofs hold what they need about queues themselves: what `Append`, `Tail` and
taking the first few do to the set of the elements, and that the length of a queue
without doubles is their number.

**Only model-checked**: liveness, which is out of reach of the prover. Every
invariant and every action property without fairness that a passing run checks is
proved, those of `GraphPipeline` from `TriggeredOnce` on under the conditions above.

## 6. What is not modelled

- Kernels, pixels and buffer contents, beyond the number of the execution whose
  data a buffer holds. They make up by far the most of the lines: image sensor
  drivers and their tables, kernels, demonstrations, fonts and look-up tables.
- Everything before execution: building a graph, verification, topological
  sort, target kernel creation; the modules start from a verified graph. A graph
  that is verified again, which puts its pipeline ids into `free_q` a second
  time, is among the hazards.
- Pipe-up buffers of source nodes, delays, object arrays with consumer counts of
  their parent, replicated nodes, super nodes.
- User events; streaming of a graph whose schedule mode is not NORMAL; enabling a trigger node.
- The index queues inside an event queue, enabling and disabling events.
- Reference counts and object pools; allocation of object descriptors.
- Durations: where a wait has a timeout, it may end it at any time, or never
  (`timed` waits of commands, `vxWaitGraph` of threads and of the streaming task).
- Commands that tell the HOST of a released reference in the queue that also holds its
  completions: `GraphParameter` has the former, `GraphPipeline` the latter, and what
  they take of each other's places is left out (`Capacity` counts completions only).
- Other cores: a target task on another core differs in the transport of its job
  queue, which is a vendor driver.
- Of the log: a reader or a CPU that is started again while the others run, the
  reader of a host without Linux (it also resets the write indices), a stale
  `log_area_is_valid`, formatting.

## 7. Plan

1. `EventQueue`: free and ready queues over `BoundedQueue`, delivered once and in
   order, an index never in both; `TivxEvent`: the one-bit monitor.
2. `Reverify` as an action of `GraphSchedule`: ids enqueued a second time.
3. `DelayPipeline`: rotation of slots on release; blocked list at its bound.
4. `References`: retain and release with internal and external counts.
5. `GraphSort`, `SuperNode`: pure algorithms against reference definitions.

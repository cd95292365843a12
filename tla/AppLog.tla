------------------------------- MODULE AppLog -------------------------------
(***************************************************************************)
(* The shared log memory of vision_apps: every CPU writes its lines into a *)
(* ring of its own (app_log_writer.c), one reader, a process of the Linux  *)
(* host, empties the rings in turn and prints what it finds                *)
(* (app_log_reader.c).  No lock is shared between CPUs: the two indices of *)
(* a ring are all the writer and the reader have.  The same memory carries *)
(* the handshake by which the CPUs wait for each other when they boot      *)
(* (appLogCpuSyncInit); the words it uses are never initialised, so a      *)
(* boot may find in them what an earlier one has left.                     *)
(*                                                                         *)
(* A character of a line is the number of the line, so that a printed line *)
(* shows where each of its characters came from.                           *)
(***************************************************************************)
EXTENDS Integers, Sequences, SequencesExt

CONSTANTS
  NumCpus,    \* the CPUs are 0 .. NumCpus - 1
  Master,     \* master_cpu_id of the handshake
  MemSize,    \* APP_LOG_PER_CPU_MEM_SIZE
  TextLen,    \* the numbers of characters a line may have
  Logger,     \* bound: the CPUs whose lines are followed
  MaxLines    \* bound: lines a CPU writes

ASSUME NumCpusAssumption == NumCpus \in Nat \ {0, 1}
ASSUME MasterAssumption == Master \in 0 .. NumCpus - 1
ASSUME MemSizeAssumption == MemSize \in Nat \ {0, 1}
ASSUME TextLenAssumption == TextLen \subseteq Nat \ {0}
ASSUME LoggerAssumption == Logger \subseteq 0 .. NumCpus - 1
ASSUME MaxLinesAssumption == MaxLines \in Nat

VARIABLES
  log_rd_idx, log_wr_idx, log_area_is_valid, log_mem,  \* the shared ring of a CPU
  log_cpu_sync_state,                                  \* its word of the handshake
  phase,      \* where the main thread of a CPU is
  peer,       \* the CPU the master's loop is at
  writer,     \* a CPU inside appLogWrPutString: what it copies, how that
              \* should be printed, and where to
  reader,     \* the reader task and its locals
  accepted,   \* history: the lines each CPU has written, as they should be printed
  printed,    \* history: the lines the reader printed for each CPU
  filled      \* history: a line of this CPU left no place free in its ring

ringVars == <<log_rd_idx, log_wr_idx, log_area_is_valid, log_mem>>
syncVars == <<log_cpu_sync_state, phase, peer>>
vars == <<ringVars, syncVars, writer, reader, accepted, printed, filled>>

Cpu == 0 .. NumCpus - 1
Slave == Cpu \ {Master}
Nul == 0
NewLine == -1
Idle == [str |-> <<>>, text |-> <<>>, done |-> 0, at |-> 0]
Off == [pc |-> "off", cpu |-> 0, rd |-> 0, left |-> 0, buf |-> <<>>]

Invalid == 0
InitDone == 1
TestInitDone == 2
ConfirmInitDone == 3
Run == 4

Init ==
  /\ log_rd_idx = [c \in Cpu |-> 0]
  /\ log_wr_idx = [c \in Cpu |-> 0]
  /\ log_area_is_valid = [c \in Cpu |-> FALSE]
  /\ log_mem = [c \in Cpu |-> [i \in 0 .. MemSize - 1 |-> Nul]]
  /\ \E word \in [Slave -> Invalid .. Run] :    \* the master has no use for its own
       log_cpu_sync_state = [c \in Cpu |-> IF c = Master THEN Invalid ELSE word[c]]
  /\ phase = [c \in Cpu |-> "off"]
  /\ peer = 0
  /\ writer = [c \in Cpu |-> Idle]
  /\ reader = Off
  /\ accepted = [c \in Cpu |-> <<>>]
  /\ printed = [c \in Cpu |-> <<>>]
  /\ filled = [c \in Cpu |-> FALSE]

(***************************************************************************)
(* The writer                                                              *)
(***************************************************************************)
WrInit(c) ==
  /\ phase[c] = "off"
  /\ log_rd_idx' = [log_rd_idx EXCEPT ![c] = 0]
  /\ log_wr_idx' = [log_wr_idx EXCEPT ![c] = 0]
  /\ log_area_is_valid' = [log_area_is_valid EXCEPT ![c] = TRUE]
  /\ phase' = [phase EXCEPT ![c] = "booted"]
  /\ UNCHANGED <<log_mem, log_cpu_sync_state, peer, writer, reader,
                 accepted, printed, filled>>

Wrap_OffByOne(i) == IF i > MemSize THEN 0 ELSE i
Wrap(i) == IF i >= MemSize THEN 0 ELSE i

\* max_bytes: the places from the write index up to the read index
MaxBytes_Whole(c) == (MemSize - Wrap(log_wr_idx[c])) + Wrap(log_rd_idx[c])
MaxBytes(c) ==
  LET wr == Wrap(log_wr_idx[c])
      rd == Wrap(log_rd_idx[c])
  IN  IF wr < rd THEN rd - wr ELSE (MemSize - wr) + rd

\* The string is copied with its terminator; strlen does not count that one.
HasRoom(c, num_bytes) == ~(num_bytes > MaxBytes(c) - 1)

\* What the next line of a CPU says, without what ends it.
Line(c, n) == [i \in 1 .. n |-> Len(accepted[c]) + 1]

PutString(c) ==
  /\ phase[c] \in {"booted", "up"}
  /\ writer[c] = Idle
  /\ Len(accepted[c]) < MaxLines
  /\ \E n \in TextLen, end \in {<<>>, <<NewLine>>} :
       LET num_bytes == n + Len(end)
       IN  /\ HasRoom(c, num_bytes)
           /\ writer' = [writer EXCEPT ![c] =
                [str |-> Line(c, n) \o end \o <<Nul>>, text |-> Line(c, n),
                 done |-> 0, at |-> Wrap(log_wr_idx[c])]]
           /\ filled' = [filled EXCEPT ![c] = @ \/ num_bytes + 1 = MaxBytes(c)]
  /\ UNCHANGED <<ringVars, syncVars, reader, accepted, printed>>

CopyChar(c) ==
  LET w == writer[c] IN
  /\ w.done < Len(w.str)
  /\ log_mem' = [log_mem EXCEPT ![c][Wrap(w.at)] = w.str[w.done + 1]]
  /\ writer' = [writer EXCEPT ![c] = [w EXCEPT !.done = w.done + 1, !.at = Wrap(w.at) + 1]]
  /\ UNCHANGED <<log_rd_idx, log_wr_idx, log_area_is_valid, syncVars, reader,
                 accepted, printed, filled>>

\* When the new index is stored: after the last character.
CanPublish(w) == w # Idle /\ w.done = Len(w.str)

Publish(c) ==
  /\ CanPublish(writer[c])
  /\ log_wr_idx' = [log_wr_idx EXCEPT ![c] = Wrap(writer[c].at)]
  /\ accepted' = [accepted EXCEPT ![c] = Append(@, writer[c].text)]
  /\ writer' = [writer EXCEPT ![c] = Idle]
  /\ UNCHANGED <<log_rd_idx, log_area_is_valid, log_mem, syncVars, reader,
                 printed, filled>>

(***************************************************************************)
(* The reader                                                              *)
(***************************************************************************)
RdInit ==
  /\ reader.pc = "off"
  /\ log_rd_idx' = [c \in Cpu |-> 0]
  /\ reader' = [reader EXCEPT !.pc = "look"]
  /\ UNCHANGED <<log_wr_idx, log_area_is_valid, log_mem, syncVars, writer,
                 accepted, printed, filled>>

\* num_bytes: what there is to read
NumBytes_NoWrap(c) ==
  IF log_rd_idx[c] > log_wr_idx[c] THEN 0 ELSE log_wr_idx[c] - log_rd_idx[c]
NumBytes(c) ==
  LET wr == log_wr_idx[c]
      rd == log_rd_idx[c]
  IN  IF rd > wr THEN (MemSize - rd) + wr ELSE wr - rd

Look ==
  LET c == reader.cpu IN
  /\ reader.pc = "look"
  /\ reader' =
       IF log_area_is_valid[c] /\ NumBytes(c) > 0
         THEN [pc |-> "read", cpu |-> c, rd |-> log_rd_idx[c],
               left |-> NumBytes(c), buf |-> <<>>]
         ELSE [Off EXCEPT !.pc = "look", !.cpu = (c + 1) % NumCpus]
  /\ UNCHANGED <<ringVars, syncVars, writer, accepted, printed, filled>>

ReadChar ==
  LET ch == log_mem[reader.cpu][Wrap(reader.rd)]
      ends == ch \in {Nul, NewLine}
  IN
  /\ reader.pc = "read"
  /\ reader' = [reader EXCEPT !.rd = Wrap(@) + 1,
                              !.left = @ - 1,
                              !.buf = IF ends THEN @ ELSE Append(@, ch),
                              !.pc = IF ends \/ reader.left = 1 THEN "store" ELSE "read"]
  /\ UNCHANGED <<ringVars, syncVars, writer, accepted, printed, filled>>

Store ==
  LET c == reader.cpu IN
  /\ reader.pc = "store"
  /\ log_rd_idx' = [log_rd_idx EXCEPT ![c] = reader.rd]
  /\ printed' = IF reader.buf = <<>> THEN printed
                ELSE [printed EXCEPT ![c] = Append(@, reader.buf)]
  /\ reader' = [Off EXCEPT !.pc = "look", !.cpu = c]
  /\ UNCHANGED <<log_wr_idx, log_area_is_valid, log_mem, syncVars, writer,
                 accepted, filled>>

(***************************************************************************)
(* The handshake: the master visits the others one by one, then starts     *)
(* them one by one.                                                        *)
(***************************************************************************)
FirstSlave == IF Master = 0 THEN 1 ELSE 0
Following(c) == IF c + 1 = Master THEN c + 2 ELSE c + 1
IsLast(c) == Following(c) \notin Cpu

\* The end of a loop over sync_cpu_id_list, or its next round.
NextPeer(again, then) ==
  IF IsLast(peer) THEN phase' = [phase EXCEPT ![Master] = then] /\ peer' = FirstSlave
                  ELSE phase' = [phase EXCEPT ![Master] = again] /\ peer' = Following(peer)

SetSync(c, state) == log_cpu_sync_state' = [log_cpu_sync_state EXCEPT ![c] = state]
Move(c, from, to) == phase[c] = from /\ phase' = [phase EXCEPT ![c] = to]

BeginSync(c) ==
  /\ phase[c] = "booted"
  /\ writer[c] = Idle
  /\ phase' = [phase EXCEPT ![c] = IF c = Master THEN "test" ELSE "init"]
  /\ peer' = IF c = Master THEN FirstSlave ELSE peer
  /\ UNCHANGED log_cpu_sync_state

\* What the master writes into the word of a slave it visits, and again when asked to
TestWord_LeftAsFound(c) == log_cpu_sync_state[c]
TestWord(c) == TestInitDone

MasterTest ==
  /\ Move(Master, "test", "poll")
  /\ SetSync(peer, TestWord(peer))
  /\ UNCHANGED peer

\* A slave that began after the master has overwritten the master's word.
AsksAgain_Never(c) == FALSE
AsksAgain(c) == log_cpu_sync_state[c] = InitDone

MasterPoll ==
  /\ phase[Master] = "poll"
  /\ \/ /\ AsksAgain(peer)
        /\ phase' = [phase EXCEPT ![Master] = "test"]
        /\ UNCHANGED peer
     \/ /\ log_cpu_sync_state[peer] = ConfirmInitDone
        /\ NextPeer("test", "start")
  /\ UNCHANGED log_cpu_sync_state

MasterStart ==
  /\ phase[Master] = "start"
  /\ SetSync(peer, Run)
  /\ NextPeer("start", "up")

SlaveInit(c) ==
  /\ Move(c, "init", "wait_test")
  /\ SetSync(c, InitDone)
  /\ UNCHANGED peer

SlaveTested(c) ==
  /\ Move(c, "wait_test", "confirm")
  /\ log_cpu_sync_state[c] = TestInitDone
  /\ UNCHANGED <<log_cpu_sync_state, peer>>

SlaveConfirm(c) ==
  /\ Move(c, "confirm", "wait_run")
  /\ SetSync(c, ConfirmInitDone)
  /\ UNCHANGED peer

SlaveRuns(c) ==
  /\ Move(c, "wait_run", "up")
  /\ log_cpu_sync_state[c] = Run
  /\ UNCHANGED <<log_cpu_sync_state, peer>>

SyncStep(c) ==
  /\ \/ BeginSync(c)
     \/ c = Master /\ (MasterTest \/ MasterPoll \/ MasterStart)
     \/ c # Master /\ (SlaveInit(c) \/ SlaveTested(c) \/ SlaveConfirm(c) \/ SlaveRuns(c))
  /\ UNCHANGED <<ringVars, writer, reader, accepted, printed, filled>>

(***************************************************************************)
Writes(c) == CopyChar(c) \/ Publish(c)
Reads == Look \/ ReadChar \/ Store

Next ==
  \/ \E c \in Cpu : WrInit(c) \/ Writes(c) \/ SyncStep(c)
  \/ \E c \in Logger : PutString(c)
  \/ RdInit \/ Reads

Spec == Init /\ [][Next]_vars

\* Every CPU goes on with what it has begun, and a reader that runs polls for ever.
FairSpec ==
  /\ Spec
  /\ \A c \in Cpu : WF_vars(Writes(c)) /\ WF_vars(SyncStep(c))
  /\ WF_vars(Reads)

(***************************************************************************)
(* Properties                                                              *)
(***************************************************************************)
\* The indices stay in the ring: the write index has wrapped when it is stored, the read index
\* may stand one behind the last place.
TypeOK ==
  /\ log_rd_idx \in [Cpu -> 0 .. MemSize]
  /\ log_wr_idx \in [Cpu -> 0 .. MemSize - 1]
  /\ log_area_is_valid \in [Cpu -> BOOLEAN]
  /\ log_mem \in [Cpu -> [0 .. MemSize - 1 -> NewLine .. MaxLines]]
  /\ log_cpu_sync_state \in [Cpu -> Invalid .. Run]
  /\ phase \in [Cpu -> {"off", "booted", "test", "poll", "start", "init",
                         "wait_test", "confirm", "wait_run", "up"}]
  /\ peer \in Cpu
  /\ \A c \in Cpu : /\ writer[c].str \in Seq(NewLine .. MaxLines)
                    /\ writer[c].done \in 0 .. Len(writer[c].str)
                    /\ writer[c].at \in 0 .. MemSize
  /\ reader.pc \in {"off", "look", "read", "store"}
  /\ reader.cpu \in Cpu
  /\ reader.rd \in 0 .. MemSize
  /\ reader.left \in 0 .. MemSize
  /\ reader.buf \in Seq(1 .. MaxLines)

\* What is printed for a CPU are its lines, whole, each once, in the order they were written,
\* and none is left out: with the indices read and stored at different times, and lines that
\* run over the end of the ring, and the room measured before the copy; unless a line has
\* filled the ring to its last place (app_log_reader.c:162-260).
PrintedInOrder ==
  \A c \in Cpu : ~filled[c] => IsPrefix(printed[c], accepted[c])

\* Every line that the writer took is printed in its turn, and nothing else: app_log.h:71-72,
\* "logging from remote cores to a central host core which prints all the logs to a common
\* console".
PrintsAll == \A c \in Cpu : IsPrefix(printed[c], accepted[c])

\* No CPU leaves the handshake before every other has initialised its log and entered the
\* handshake, whatever an earlier boot has left in the words (app_log_writer.c:309-388).
SyncIsBarrier ==
  \A c \in Cpu : phase[c] = "up" =>
     \A d \in Cpu : log_area_is_valid[d] /\ phase[d] \notin {"off", "booted", "test", "poll", "init"}

\* When all CPUs have booted all get through the handshake, in whatever order they came and
\* whatever was in the words (app_log_writer.c:309-388).
SyncEnds == (\A c \in Cpu : phase[c] # "off") ~> (\A c \in Cpu : phase[c] = "up")

\* A reader that runs catches up with every CPU: all lines written are printed, those written
\* before the reader was started too; unless one filled the ring (appLogRdRun,
\* app_log_reader.c:270-322).
LinesPrinted ==
  \A c \in Logger :
     (reader.pc # "off" /\ Len(printed[c]) < Len(accepted[c]))
        ~> (filled[c] \/ Len(printed[c]) = Len(accepted[c]))
=============================================================================

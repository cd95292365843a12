---------------------------- MODULE AppLogProofs ----------------------------
(***************************************************************************)
(* Two results about the shared log memory.  The handshake of the CPUs is  *)
(* a barrier, for every number of CPUs, whichever is the master and        *)
(* whatever an earlier boot has left in the words.  And the rings: for     *)
(* every size of a ring, all lengths of lines and any number of them, the  *)
(* indices stay in the ring and what is printed for a CPU are its lines,   *)
(* whole, each once and in order, as long as none fills the ring.          *)
(*                                                                         *)
(* The invariant of the rings counts the characters that the reader has    *)
(* not given back, from the read index on: the lines that are not printed  *)
(* lie there one behind the other up to the write index, and at which of   *)
(* them each begins is the layout.  What the writer copies lies behind     *)
(* the write index, so that it does not touch them; the reader moves the   *)
(* read index only over what it has read.                                  *)
(***************************************************************************)
EXTENDS AppLog, SequenceTheorems, TLAPS

-----------------------------------------------------------------------------
(* The inductive invariant                                                 *)

MasterPhases == {"off", "booted", "test", "poll", "start", "up"}
SlavePhases == {"off", "booted", "init", "wait_test", "confirm", "wait_run", "up"}
Early == {"off", "booted", "init"}

(* The master has heard from every other CPU. *)
HeardAll == phase[Master] \in {"start", "up"}

(* The master is done with s in its first loop, or is asking it now. *)
Passed(s) == HeardAll \/ (phase[Master] \in {"test", "poll"} /\ s < peer)
Asked(s) == phase[Master] = "poll" /\ peer = s

SyncTypes ==
  /\ log_cpu_sync_state \in [Cpu -> Invalid .. Run]
  /\ log_area_is_valid \in [Cpu -> BOOLEAN]
  /\ phase \in [Cpu -> MasterPhases \cup SlavePhases]
  /\ phase[Master] \in MasterPhases
  /\ \A s \in Slave : phase[s] \in SlavePhases
  /\ peer \in Cpu
  /\ phase[Master] \in {"test", "poll", "start"} => peer \in Slave

BootedIsValid == \A c \in Cpu : phase[c] # "off" => log_area_is_valid[c]

(* What the word of a slave says once it is the master that has written last, *)
(* or the slave itself: from here on nothing of an earlier boot is left in it. *)
WordIsNew(s) ==
  /\ phase[s] = "up" => HeardAll
  /\ Passed(s) => phase[s] \in {"wait_run", "up"}
  /\ phase[s] = "wait_run" =>
       Passed(s) \/ Asked(s)
  /\ phase[s] = "wait_run" /\ ~HeardAll => log_cpu_sync_state[s] = ConfirmInitDone
  /\ phase[s] = "confirm" => Asked(s) /\ log_cpu_sync_state[s] = TestInitDone
  /\ phase[s] = "wait_test" =>
       \/ log_cpu_sync_state[s] = InitDone
       \/ log_cpu_sync_state[s] = TestInitDone /\ Asked(s)
  /\ phase[s] \in Early /\ Asked(s) => log_cpu_sync_state[s] = TestInitDone

SyncInv ==
  /\ SyncTypes
  /\ BootedIsValid
  /\ \A s \in Slave : WordIsNew(s)

-----------------------------------------------------------------------------
(* The master's loop goes through the slaves in ascending order. *)
LEMMA LoopOrder ==
  /\ FirstSlave \in Slave
  /\ \A s \in Slave : ~(s < FirstSlave)
  /\ \A p \in Slave : ~IsLast(p) => Following(p) \in Slave
  /\ \A p, s \in Slave : s < Following(p) <=> (s < p \/ s = p)
  /\ \A p, s \in Slave : IsLast(p) => s < p \/ s = p
<1> USE NumCpusAssumption, MasterAssumption DEF Slave, Cpu
<1>1. FirstSlave \in Slave /\ \A s \in Slave : ~(s < FirstSlave)
  BY DEF FirstSlave
<1>2. \A p \in Slave : ~IsLast(p) => Following(p) \in Slave
  BY DEF IsLast, Following
<1>3. \A p, s \in Slave : s < Following(p) <=> (s < p \/ s = p)
  BY DEF Following
<1>4. \A p, s \in Slave : IsLast(p) => s < p \/ s = p
  BY DEF IsLast, Following
<1> QED BY <1>1, <1>2, <1>3, <1>4

LEMMA CpuIsMasterOrSlave ==
  /\ Master \in Cpu /\ Master \notin Slave
  /\ \A c \in Cpu : c = Master \/ c \in Slave
  /\ Slave \subseteq Cpu
  BY MasterAssumption DEF Cpu, Slave

LEMMA InitSync ==
  ASSUME Init
  PROVE  SyncInv
<1> USE CpuIsMasterOrSlave, NumCpusAssumption DEF Init
<1>1. SyncTypes
  <2>1. log_cpu_sync_state \in [Cpu -> Invalid .. Run]
    <3>1. PICK word \in [Slave -> Invalid .. Run] :
            log_cpu_sync_state = [c \in Cpu |-> IF c = Master THEN Invalid ELSE word[c]]
      OBVIOUS
    <3>2. \A c \in Cpu : (IF c = Master THEN Invalid ELSE word[c]) \in Invalid .. Run
      BY DEF Invalid, Run
    <3> QED BY <3>1, <3>2
  <2>2. peer \in Cpu
    BY DEF Cpu
  <2> QED BY <2>1, <2>2 DEF SyncTypes, MasterPhases, SlavePhases
<1>2. BootedIsValid
  BY DEF BootedIsValid
<1>3. \A s \in Slave : WordIsNew(s)
  BY DEF WordIsNew, Passed, Asked, HeardAll
<1> QED BY <1>1, <1>2, <1>3 DEF SyncInv

(* Nothing but the handshake and the start of a CPU touches its state. *)
LEMMA Untouched ==
  ASSUME SyncInv,
         UNCHANGED <<log_area_is_valid, log_cpu_sync_state, phase, peer>>
  PROVE  SyncInv'
  BY DEF SyncInv, SyncTypes, BootedIsValid, WordIsNew, Passed, Asked, HeardAll

LEMMA WrInitStep ==
  ASSUME SyncInv, NEW c \in Cpu, WrInit(c)
  PROVE  SyncInv'
<1> USE CpuIsMasterOrSlave DEF SyncInv, WrInit
<1>1. SyncTypes'
  BY DEF SyncTypes, MasterPhases, SlavePhases
<1>2. BootedIsValid'
  BY DEF BootedIsValid, SyncTypes
<1>3. ASSUME NEW s \in Slave  PROVE WordIsNew(s)'
  BY <1>3 DEF WordIsNew, Passed, Asked, HeardAll, SyncTypes, Early
<1> QED BY <1>1, <1>2, <1>3

-----------------------------------------------------------------------------
(* The steps of the handshake                                              *)

LEMMA BeginStep ==
  ASSUME SyncInv, NEW c \in Cpu, BeginSync(c),
         UNCHANGED log_area_is_valid
  PROVE  SyncInv'
<1> USE CpuIsMasterOrSlave DEF SyncInv
<1>1. /\ phase[c] = "booted"
      /\ phase' = [phase EXCEPT ![c] = IF c = Master THEN "test" ELSE "init"]
      /\ peer' = IF c = Master THEN FirstSlave ELSE peer
      /\ UNCHANGED log_cpu_sync_state
  BY DEF BeginSync
<1>2. SyncTypes'
  BY <1>1, LoopOrder DEF SyncTypes, MasterPhases, SlavePhases
<1>3. BootedIsValid'
  BY <1>1 DEF BootedIsValid, SyncTypes
<1>4. ASSUME NEW s \in Slave  PROVE WordIsNew(s)'
  <2>1. CASE c = Master
    BY <1>1, <1>4, <2>1, LoopOrder DEF WordIsNew, Passed, Asked, HeardAll, SyncTypes
  <2>2. CASE c # Master
    BY <1>1, <1>4, <2>2 DEF WordIsNew, Passed, Asked, HeardAll, SyncTypes, Early
  <2> QED BY <2>1, <2>2
<1> QED BY <1>2, <1>3, <1>4

LEMMA MasterTestStep ==
  ASSUME SyncInv, MasterTest, UNCHANGED log_area_is_valid
  PROVE  SyncInv'
<1> USE CpuIsMasterOrSlave DEF SyncInv
<1>1. /\ phase[Master] = "test" /\ phase' = [phase EXCEPT ![Master] = "poll"]
      /\ log_cpu_sync_state' = [log_cpu_sync_state EXCEPT ![peer] = TestInitDone]
      /\ peer \in Slave /\ peer' = peer
  BY DEF MasterTest, Move, SetSync, TestWord, SyncTypes
<1>2. SyncTypes'
  BY <1>1 DEF SyncTypes, MasterPhases, SlavePhases, Invalid, Run, TestInitDone
<1>3. BootedIsValid'
  BY <1>1 DEF BootedIsValid, SyncTypes
<1>4. ASSUME NEW s \in Slave  PROVE WordIsNew(s)'
  BY <1>1, <1>4
  DEF WordIsNew, Passed, Asked, HeardAll, SyncTypes, Cpu, Slave, Early,
      InitDone, TestInitDone, ConfirmInitDone
<1> QED BY <1>2, <1>3, <1>4

LEMMA MasterPollStep ==
  ASSUME SyncInv, MasterPoll, UNCHANGED log_area_is_valid
  PROVE  SyncInv'
<1> USE CpuIsMasterOrSlave DEF SyncInv
<1>1. /\ phase[Master] = "poll" /\ peer \in Slave
      /\ UNCHANGED log_cpu_sync_state
  BY DEF MasterPoll, SyncTypes
<1>2. CASE /\ log_cpu_sync_state[peer] = InitDone
           /\ phase' = [phase EXCEPT ![Master] = "test"]
           /\ UNCHANGED peer
  <2>1. SyncTypes' /\ BootedIsValid'
    BY <1>1, <1>2 DEF SyncTypes, MasterPhases, SlavePhases, BootedIsValid
  <2>2. ASSUME NEW s \in Slave  PROVE WordIsNew(s)'
    BY <1>1, <1>2, <2>2
    DEF WordIsNew, Passed, Asked, HeardAll, SyncTypes, Early,
        InitDone, TestInitDone, ConfirmInitDone
  <2> QED BY <2>1, <2>2
<1>3. CASE log_cpu_sync_state[peer] = ConfirmInitDone /\ NextPeer("test", "start")
  <2>1. phase[peer] = "wait_run"
    BY <1>1, <1>3
    DEF WordIsNew, Passed, Asked, HeardAll, SyncTypes, SlavePhases, Early,
        InitDone, TestInitDone, ConfirmInitDone, Cpu, Slave
  <2>2. CASE /\ IsLast(peer)
             /\ phase' = [phase EXCEPT ![Master] = "start"] /\ peer' = FirstSlave
    <3>1. SyncTypes' /\ BootedIsValid'
      BY <1>1, <2>2, LoopOrder DEF SyncTypes, MasterPhases, SlavePhases, BootedIsValid
    <3>2. ASSUME NEW s \in Slave  PROVE WordIsNew(s)'
      <4>1. phase[s] \in {"wait_run", "up"}
        BY <1>1, <2>1, <2>2, LoopOrder DEF WordIsNew, Passed
      <4> QED BY <1>1, <2>2, <4>1 DEF WordIsNew, Passed, Asked, HeardAll, SyncTypes, Early
    <3> QED BY <3>1, <3>2
  <2>3. CASE /\ ~IsLast(peer)
             /\ phase' = [phase EXCEPT ![Master] = "test"] /\ peer' = Following(peer)
    <3>1. SyncTypes' /\ BootedIsValid'
      BY <1>1, <2>3, LoopOrder DEF SyncTypes, MasterPhases, SlavePhases, BootedIsValid
    <3>2. ASSUME NEW s \in Slave  PROVE WordIsNew(s)'
      <4>1. Passed(s)' <=> Passed(s) \/ s = peer
        BY <1>1, <2>3, LoopOrder DEF Passed, HeardAll, SyncTypes
      <4>2. ~HeardAll /\ ~HeardAll' /\ ~Asked(s)' /\ phase'[s] = phase[s]
        BY <1>1, <2>3 DEF HeardAll, Asked, SyncTypes
      <4>3. CASE s = peer
        BY <1>1, <2>1, <4>1, <4>2, <4>3 DEF WordIsNew, Early
      <4>4. CASE s # peer
        BY <1>1, <4>1, <4>2, <4>4 DEF WordIsNew, Asked
      <4> QED BY <4>3, <4>4
    <3> QED BY <3>1, <3>2
  <2> QED BY <1>3, <2>2, <2>3 DEF NextPeer
<1> QED BY <1>2, <1>3 DEF MasterPoll, AsksAgain

LEMMA MasterStartStep ==
  ASSUME SyncInv, MasterStart, UNCHANGED log_area_is_valid
  PROVE  SyncInv'
<1> USE CpuIsMasterOrSlave DEF SyncInv
<1>1. /\ phase[Master] = "start" /\ peer \in Slave /\ HeardAll
      /\ log_cpu_sync_state' = [log_cpu_sync_state EXCEPT ![peer] = Run]
  BY DEF MasterStart, SetSync, SyncTypes, HeardAll
<1>2. \/ /\ phase' = [phase EXCEPT ![Master] = "up"] /\ peer' = FirstSlave
      \/ /\ ~IsLast(peer)
         /\ phase' = [phase EXCEPT ![Master] = "start"] /\ peer' = Following(peer)
  BY DEF MasterStart, NextPeer
<1>3. SyncTypes'
  BY <1>1, <1>2, LoopOrder DEF SyncTypes, MasterPhases, SlavePhases, Invalid, Run
<1>4. BootedIsValid'
  BY <1>1, <1>2 DEF BootedIsValid, SyncTypes
<1>5. ASSUME NEW s \in Slave  PROVE WordIsNew(s)'
  <2>1. phase[s] \in {"wait_run", "up"} /\ phase'[s] = phase[s]
    BY <1>1, <1>2 DEF WordIsNew, Passed, SyncTypes
  <2>2. HeardAll' /\ Passed(s)' /\ ~Asked(s)'
    BY <1>1, <1>2 DEF HeardAll, Passed, Asked, SyncTypes
  <2> QED BY <2>1, <2>2 DEF WordIsNew, Early
<1> QED BY <1>3, <1>4, <1>5

(* A slave writes its own word only, and moves only itself. *)
LEMMA SlaveStep ==
  ASSUME SyncInv, NEW c \in Slave, UNCHANGED log_area_is_valid,
         SlaveInit(c) \/ SlaveTested(c) \/ SlaveConfirm(c) \/ SlaveRuns(c)
  PROVE  SyncInv'
<1> USE CpuIsMasterOrSlave DEF SyncInv, Move, SetSync
<1>0. /\ UNCHANGED peer /\ phase[c] # "off"
      /\ \E to \in SlavePhases \ {"off"}, word \in Invalid .. Run :
           /\ phase' = [phase EXCEPT ![c] = to]
           /\ log_cpu_sync_state' = [log_cpu_sync_state EXCEPT ![c] = word]
  <2>1. CASE SlaveInit(c)
    <3>1. "wait_test" \in SlavePhases \ {"off"} /\ InitDone \in Invalid .. Run
      BY DEF SlavePhases, Invalid, Run, InitDone
    <3> QED BY <2>1, <3>1 DEF SlaveInit
  <2>2. CASE SlaveTested(c) \/ SlaveRuns(c)
    <3>1. {"confirm", "up"} \subseteq SlavePhases \ {"off"}
      BY DEF SlavePhases
    <3>2. /\ log_cpu_sync_state[c] \in Invalid .. Run
          /\ log_cpu_sync_state = [log_cpu_sync_state EXCEPT ![c] = log_cpu_sync_state[c]]
      BY DEF SyncTypes
    <3> QED BY <2>2, <3>1, <3>2 DEF SlaveTested, SlaveRuns
  <2>3. CASE SlaveConfirm(c)
    <3>1. "wait_run" \in SlavePhases \ {"off"} /\ ConfirmInitDone \in Invalid .. Run
      BY DEF SlavePhases, Invalid, Run, ConfirmInitDone
    <3> QED BY <2>3, <3>1 DEF SlaveConfirm
  <2> QED BY <2>1, <2>2, <2>3
<1>1. PICK to \in SlavePhases \ {"off"}, word \in Invalid .. Run :
        /\ phase' = [phase EXCEPT ![c] = to]
        /\ log_cpu_sync_state' = [log_cpu_sync_state EXCEPT ![c] = word]
  BY <1>0
<1>2. SyncTypes'
  BY <1>0, <1>1 DEF SyncTypes
<1>3. BootedIsValid'
  BY <1>0, <1>1 DEF BootedIsValid, SyncTypes
<1>4. (HeardAll' <=> HeardAll) /\ \A s \in Slave : (Passed(s)' <=> Passed(s)) /\ (Asked(s)' <=> Asked(s))
  BY <1>0, <1>1 DEF HeardAll, Passed, Asked, SyncTypes
<1>5. WordIsNew(c)'
  <2>1. CASE SlaveInit(c)
    <3>1. /\ phase[c] = "init" /\ phase'[c] = "wait_test"
          /\ log_cpu_sync_state'[c] = InitDone
      BY <2>1 DEF SlaveInit, SyncTypes
    <3> QED BY <1>4, <3>1 DEF WordIsNew, Early
  <2>2. CASE SlaveTested(c)
    <3>1. /\ phase[c] = "wait_test" /\ phase'[c] = "confirm"
          /\ log_cpu_sync_state[c] = TestInitDone /\ log_cpu_sync_state'[c] = TestInitDone
      BY <2>2 DEF SlaveTested, SyncTypes
    <3> QED BY <1>4, <3>1 DEF WordIsNew, Early, InitDone, TestInitDone
  <2>3. CASE SlaveConfirm(c)
    <3>1. /\ phase[c] = "confirm" /\ phase'[c] = "wait_run"
          /\ log_cpu_sync_state'[c] = ConfirmInitDone
      BY <2>3 DEF SlaveConfirm, SyncTypes
    <3> QED BY <1>4, <3>1 DEF WordIsNew, Early
  <2>4. CASE SlaveRuns(c)
    <3>1. /\ phase[c] = "wait_run" /\ phase'[c] = "up"
          /\ log_cpu_sync_state[c] = Run
      BY <2>4 DEF SlaveRuns, SyncTypes
    <3> QED BY <1>4, <3>1 DEF WordIsNew, Early, ConfirmInitDone, Run
  <2> QED BY <2>1, <2>2, <2>3, <2>4
<1>6. ASSUME NEW s \in Slave, s # c  PROVE WordIsNew(s)'
  <2>1. phase'[s] = phase[s] /\ log_cpu_sync_state'[s] = log_cpu_sync_state[s]
    BY <1>1, <1>6 DEF SyncTypes
  <2> QED BY <1>4, <2>1 DEF WordIsNew
<1> QED BY <1>2, <1>3, <1>5, <1>6

-----------------------------------------------------------------------------

LEMMA SyncInductive ==
  ASSUME SyncInv, [Next]_vars
  PROVE  SyncInv'
<1>1. CASE UNCHANGED vars
  BY <1>1, Untouched DEF vars, ringVars, syncVars
<1>2. ASSUME NEW c \in Cpu, WrInit(c)  PROVE SyncInv'
  BY <1>2, WrInitStep
<1>3. ASSUME NEW c \in Cpu, Writes(c)  PROVE SyncInv'
  BY <1>3, Untouched DEF Writes, CopyChar, Publish, syncVars
<1>4. ASSUME NEW c \in Cpu, SyncStep(c)  PROVE SyncInv'
  <2>1. UNCHANGED log_area_is_valid
    BY <1>4 DEF SyncStep, ringVars
  <2> QED BY <1>4, <2>1, BeginStep, MasterTestStep, MasterPollStep, MasterStartStep,
             SlaveStep, CpuIsMasterOrSlave DEF SyncStep
<1>5. ASSUME NEW c \in Logger, PutString(c)  PROVE SyncInv'
  BY <1>5, Untouched DEF PutString, ringVars, syncVars
<1>6. ASSUME RdInit \/ Reads  PROVE SyncInv'
  BY <1>6, Untouched DEF RdInit, Reads, Look, ReadChar, Store, ringVars, syncVars
<1> QED BY <1>1, <1>2, <1>3, <1>4, <1>5, <1>6 DEF Next

(* No CPU leaves the handshake before every other has initialised its log and *)
(* entered the handshake (app_log_writer.c:309-388).                          *)
THEOREM SyncIsABarrier == Spec => []SyncIsBarrier
<1>1. SyncInv => SyncIsBarrier
  <2> SUFFICES ASSUME SyncInv, NEW c \in Cpu, phase[c] = "up", NEW d \in Cpu
               PROVE  /\ log_area_is_valid[d]
                      /\ phase[d] \notin {"off", "booted", "test", "poll", "init"}
    BY DEF SyncIsBarrier
  <2>1. HeardAll
    BY CpuIsMasterOrSlave DEF SyncInv, WordIsNew, HeardAll
  <2>2. CASE d = Master
    BY <2>1, <2>2 DEF HeardAll, SyncInv, BootedIsValid
  <2>3. CASE d \in Slave
    <3>1. phase[d] \in {"wait_run", "up"}
      BY <2>1, <2>3 DEF SyncInv, WordIsNew, Passed
    <3> QED BY <3>1 DEF SyncInv, BootedIsValid
  <2> QED BY <2>2, <2>3, CpuIsMasterOrSlave
<1> QED BY <1>1, InitSync, SyncInductive, PTL DEF Spec
-----------------------------------------------------------------------------
(* The ring: what lies between the indices                                 *)

(* The place k places after i, and how far it is from one index to the other. *)
Place(i, k) == IF i + k >= MemSize THEN i + k - MemSize ELSE i + k
Distance(rd, wr) == IF rd > wr THEN (MemSize - rd) + wr ELSE wr - rd

(* The k-th of the characters that the reader has not given back. *)
Unread(c, k) == log_mem[c][Place(log_rd_idx[c], k)]

NumPrinted(c) == Len(printed[c])
NumAccepted(c) == Len(accepted[c])
Unprinted(c) == NumPrinted(c) + 1 .. NumAccepted(c)
Starts(c) == NumPrinted(c) + 1 .. NumAccepted(c) + 1

(* Line k starts `at' characters behind the read index and ends before `end': *)
(* its text, a newline or none, the terminator.                               *)
LineAt(c, k, at, end) ==
  LET n == Len(accepted[c][k]) IN
  /\ \A i \in 0 .. n - 1 : Unread(c, at + i) = k
  /\ \/ end = at + n + 1 /\ Unread(c, at + n) = Nul
     \/ end = at + n + 2 /\ Unread(c, at + n) = NewLine /\ Unread(c, at + n + 1) = Nul

(* The lines that are not printed lie one behind the other up to the write   *)
(* index; before the first there is at most the terminator of a line that    *)
(* was printed up to its newline.                                            *)
Layouts == [Nat -> Int]

LiesAt(c, at) ==
  /\ \/ at[NumPrinted(c) + 1] = 0
     \/ at[NumPrinted(c) + 1] = 1 /\ Unread(c, 0) = Nul
  /\ \A k \in Starts(c) : at[k] \in 0 .. NumBytes(c) /\ \A j \in Starts(c) : j < k => at[j] <= at[k]
  /\ at[NumAccepted(c) + 1] = NumBytes(c)
  /\ \A k \in Unprinted(c) : LineAt(c, k, at[k], at[k + 1])

(* What the reader has read of the line: all its characters so far, before    *)
(* the end it stored the index for; or the left terminator and nothing else.  *)
ReadsAt(c, at) ==
  LET k == NumPrinted(c) + 1
      r == Len(reader.buf)
      next == Wrap(reader.rd)
  IN \/ /\ at[k] = 1 /\ reader.buf = <<>>
        /\ next = Place(log_rd_idx[c], IF reader.pc = "read" THEN 0 ELSE 1)
     \/ /\ at[k] = 0 /\ k \in Unprinted(c)
        /\ r <= Len(accepted[c][k]) /\ \A i \in 1 .. r : reader.buf[i] = k
        /\ \/ /\ reader.pc = "read" /\ next = Place(log_rd_idx[c], r)
              /\ reader.left >= at[k + 1] - r
           \/ /\ reader.pc = "store" /\ next = Place(log_rd_idx[c], r + 1)
              /\ r = Len(accepted[c][k])

Reading(c) == reader.cpu = c /\ reader.pc \in {"read", "store"}

RingHolds(c) == \E at \in Layouts : LiesAt(c, at) /\ (Reading(c) => ReadsAt(c, at))

(* The lines that were accepted, and those of them that were printed. *)
LinesNumbered(c) ==
  /\ \A k \in 1 .. NumAccepted(c) :
       /\ accepted[c][k] # <<>>
       /\ \A i \in 1 .. Len(accepted[c][k]) : accepted[c][k][i] = k
  /\ NumPrinted(c) <= NumAccepted(c)
  /\ \A k \in 1 .. NumPrinted(c) : printed[c][k] = accepted[c][k]

(* The line that is being written: numbered next, it fits behind the unread   *)
(* ones, and what was copied of it is there.                                  *)
WriterHolds(c) ==
  LET w == writer[c]
      n == Len(w.text)
      len == Len(w.str)
  IN w # Idle =>
     /\ w.text # <<>> /\ \A i \in 1 .. n : w.text[i] = NumAccepted(c) + 1 /\ w.str[i] = w.text[i]
     /\ \/ len = n + 1 /\ w.str[n + 1] = Nul
        \/ len = n + 2 /\ w.str[n + 1] = NewLine /\ w.str[n + 2] = Nul
     /\ NumBytes(c) + len < MemSize
     /\ Wrap(w.at) = Place(log_wr_idx[c], w.done)
     /\ \A i \in 0 .. w.done - 1 : log_mem[c][Place(log_wr_idx[c], i)] = w.str[i + 1]

(* Before it booted a CPU has an empty ring, and nobody reads it. *)
OffIsEmpty(c) ==
  /\ phase[c] = "off" =>
       /\ log_rd_idx[c] = 0 /\ log_wr_idx[c] = 0 /\ writer[c] = Idle
       /\ accepted[c] = <<>> /\ ~log_area_is_valid[c]
  /\ Reading(c) => phase[c] # "off"
  /\ reader.pc = "off" => log_rd_idx[c] = 0

LogHolds(c) == ~filled[c] => LinesNumbered(c) /\ RingHolds(c) /\ WriterHolds(c)

LogInv == \A c \in Cpu : OffIsEmpty(c) /\ LogHolds(c)
-----------------------------------------------------------------------------
(* Places of the ring: numbers below MemSize, one behind the other and round. *)

LEMMA DistanceIs ==
  ASSUME NEW rd \in 0 .. MemSize, NEW wr \in 0 .. MemSize - 1
  PROVE  Distance(rd, wr) \in 0 .. MemSize - 1 /\ Place(rd, Distance(rd, wr)) = wr
  BY MemSizeAssumption DEF Distance, Place

LEMMA PlacesDiffer ==
  ASSUME NEW i \in 0 .. MemSize, NEW j \in 0 .. MemSize - 1
  PROVE  /\ Place(i, j) \in 0 .. MemSize - 1
         /\ \A k \in 0 .. MemSize - 1 : Place(i, j) = Place(i, k) => j = k
  BY MemSizeAssumption DEF Place

(* The read index moves n places on; of MemSize and 0, one place, it may be either. *)
LEMMA ReadIndexMoves ==
  ASSUME NEW rd \in 0 .. MemSize, NEW next \in 0 .. MemSize, NEW wr \in 0 .. MemSize - 1,
         NEW n \in 0 .. Distance(rd, wr), Wrap(next) = Place(rd, n)
  PROVE  /\ Distance(next, wr) = Distance(rd, wr) - n
         /\ \A k \in 0 .. MemSize - 1 - n : Place(next, k) = Place(rd, n + k)
  BY MemSizeAssumption DEF Distance, Place, Wrap

(* The write index moves n places on, and does not reach the read index. *)
LEMMA WriteIndexMoves ==
  ASSUME NEW rd \in 0 .. MemSize, NEW wr \in 0 .. MemSize - 1,
         NEW n \in Nat, Distance(rd, wr) + n < MemSize
  PROVE  /\ Distance(rd, Place(wr, n)) = Distance(rd, wr) + n
         /\ \A i \in 0 .. n - 1 : Place(wr, i) = Place(rd, Distance(rd, wr) + i)
         /\ Place(wr, n) \in 0 .. MemSize - 1
  BY MemSizeAssumption DEF Distance, Place

LEMMA NextPlace ==
  ASSUME NEW i \in 0 .. MemSize, NEW at \in 0 .. MemSize, NEW k \in 0 .. MemSize - 2,
         Wrap(at) = Place(i, k)
  PROVE  Wrap(Wrap(at) + 1) = Place(i, k + 1) /\ Wrap(at) + 1 \in 0 .. MemSize
  BY MemSizeAssumption DEF Place, Wrap

LEMMA WrapIs ==
  ASSUME NEW i \in 0 .. MemSize
  PROVE  Wrap(i) \in 0 .. MemSize - 1 /\ Wrap(i) = Place(i, 0) /\ Wrap(Wrap(i)) = Wrap(i)
  BY MemSizeAssumption DEF Place, Wrap

(* How much room the writer finds: what the unread characters leave. *)
LEMMA RoomIs ==
  ASSUME NEW c \in Cpu, log_rd_idx[c] \in 0 .. MemSize, log_wr_idx[c] \in 0 .. MemSize - 1
  PROVE  MaxBytes(c) = MemSize - NumBytes(c) /\ NumBytes(c) = Distance(log_rd_idx[c], log_wr_idx[c])
  BY MemSizeAssumption DEF MaxBytes, NumBytes, Distance, Wrap

(* A text is as many times the number of its line. *)
LEMMA TextIs ==
  ASSUME NEW S, NEW x \in S, NEW n \in Nat
  PROVE  LET text == [i \in 1 .. n |-> x]
         IN  text \in Seq(S) /\ Len(text) = n /\ \A i \in 1 .. n : text[i] = x
<1> DEFINE text == [i \in 1 .. n |-> x]
<1>1. text \in [1 .. n -> S]
  OBVIOUS
<1>2. text \in Seq(S)
  BY <1>1, SeqDef
<1>3. Len(text) = n
  <2>1. DOMAIN text = 1 .. Len(text) /\ Len(text) \in Nat
    BY <1>2, LenProperties
  <2>2. 1 .. Len(text) = 1 .. n
    BY <2>1
  <2> QED BY <2>1, <2>2
<1> QED BY <1>2, <1>3

(* A line is its text, what ends it, and the terminator. *)
LEMMA StringIs ==
  ASSUME NEW S, Nul \in S, NewLine \in S,
         NEW text \in Seq(S), NEW end \in {<<>>, <<NewLine>>}
  PROVE  LET str == text \o end \o <<Nul>>
             n == Len(text)
         IN  /\ str \in Seq(S)
             /\ Len(str) = n + Len(end) + 1
             /\ \A i \in 1 .. n : str[i] = text[i]
             /\ \/ Len(str) = n + 1 /\ str[n + 1] = Nul
                \/ Len(str) = n + 2 /\ str[n + 1] = NewLine /\ str[n + 2] = Nul
<1> DEFINE n == Len(text)
           both == text \o end
           str == both \o <<Nul>>
<1>1. /\ end \in Seq(S) /\ <<Nul>> \in Seq(S) /\ Len(<<Nul>>) = 1 /\ <<Nul>>[1] = Nul
      /\ n \in Nat /\ Len(end) \in Nat
      /\ \/ end = <<>> /\ Len(end) = 0
         \/ end = <<NewLine>> /\ Len(end) = 1 /\ end[1] = NewLine
  <2>1. CASE end = <<>>
    BY <2>1
  <2>2. CASE end = <<NewLine>>
    BY <2>2
  <2> QED BY <2>1, <2>2
<1>2. /\ both \in Seq(S) /\ Len(both) = n + Len(end)
      /\ \A i \in 1 .. n + Len(end) : both[i] = IF i <= n THEN text[i] ELSE end[i - n]
  BY <1>1, ConcatProperties
<1> HIDE DEF both
<1>3. /\ str \in Seq(S) /\ Len(str) = n + Len(end) + 1
      /\ \A i \in 1 .. n + Len(end) + 1 :
           str[i] = IF i <= n + Len(end) THEN both[i] ELSE <<Nul>>[i - (n + Len(end))]
  BY <1>1, <1>2, ConcatProperties
<1> HIDE DEF str
<1>4. \A i \in 1 .. n : str[i] = text[i]
  BY <1>1, <1>2, <1>3
<1>5. CASE end = <<>> /\ Len(end) = 0
  <2>1. Len(str) = n + 1 /\ str[n + 1] = <<Nul>>[1]
    BY <1>1, <1>3, <1>5
  <2> QED BY <1>1, <1>3, <1>4, <2>1 DEF both, str
<1>6. CASE end = <<NewLine>> /\ Len(end) = 1 /\ end[1] = NewLine
  <2>1. Len(str) = n + 2 /\ str[n + 2] = <<Nul>>[1] /\ str[n + 1] = both[n + 1]
    BY <1>1, <1>3, <1>6
  <2>2. both[n + 1] = end[1]
    BY <1>1, <1>2, <1>6
  <2> QED BY <1>1, <1>3, <1>4, <1>6, <2>1, <2>2 DEF both, str
<1> QED BY <1>1, <1>5, <1>6
-----------------------------------------------------------------------------
(* Types                                                                   *)

Char == NewLine .. MaxLines

WriterTypes ==
  /\ writer \in [Cpu -> [str : Seq(Char), text : Seq(1 .. MaxLines), done : Nat, at : 0 .. MemSize]]
  /\ \A c \in Cpu : writer[c].done <= Len(writer[c].str)

ReaderTypes ==
  /\ reader \in [pc : {"off", "look", "read", "store"}, cpu : Cpu, rd : 0 .. MemSize,
                 left : 0 .. MemSize, buf : Seq(1 .. MaxLines)]
  /\ reader.pc = "read" => reader.left > 0

RingTypes ==
  /\ log_rd_idx \in [Cpu -> 0 .. MemSize]
  /\ log_wr_idx \in [Cpu -> 0 .. MemSize - 1]
  /\ log_mem \in [Cpu -> [0 .. MemSize - 1 -> Char]]

HistoryTypes ==
  /\ accepted \in [Cpu -> Seq(Seq(1 .. MaxLines))]
  /\ printed \in [Cpu -> Seq(Seq(1 .. MaxLines))]
  /\ filled \in [Cpu -> BOOLEAN]

LogTypes == WriterTypes /\ ReaderTypes /\ RingTypes /\ HistoryTypes

LEMMA LogTypesInit ==
  ASSUME Init
  PROVE  LogTypes
<1> USE NumCpusAssumption, MemSizeAssumption, MaxLinesAssumption DEF Init
<1>1. Idle \in [str : Seq(Char), text : Seq(1 .. MaxLines), done : Nat, at : 0 .. MemSize]
      /\ Idle.done = 0 /\ Len(Idle.str) = 0
  BY DEF Idle
<1>2. WriterTypes
  BY <1>1 DEF WriterTypes
<1>3. ReaderTypes
  BY DEF ReaderTypes, Off, Cpu
<1>4. RingTypes
  <2>1. Nul \in Char
    BY DEF Nul, NewLine, Char
  <2> QED BY <2>1 DEF RingTypes
<1>5. HistoryTypes
  BY DEF HistoryTypes
<1> QED BY <1>2, <1>3, <1>4, <1>5 DEF LogTypes

(* What one line is while it is written. *)
LEMMA PutStringIs ==
  ASSUME LogTypes, NEW c \in Cpu, PutString(c)
  PROVE  /\ writer[c] = Idle /\ NumAccepted(c) \in Nat /\ NumAccepted(c) + 1 \in 1 .. MaxLines
         /\ phase[c] # "off"
         /\ \E str \in Seq(Char), text \in Seq(1 .. MaxLines) :
              LET n == Len(text)
                  len == Len(str)
              IN /\ writer' = [writer EXCEPT ![c] =
                      [str |-> str, text |-> text, done |-> 0, at |-> Wrap(log_wr_idx[c])]]
                 /\ filled' = [filled EXCEPT ![c] = @ \/ len = MaxBytes(c)]
                 /\ len <= MaxBytes(c)
                 /\ text # <<>>
                 /\ \A i \in 1 .. n : text[i] = NumAccepted(c) + 1 /\ str[i] = text[i]
                 /\ \/ len = n + 1 /\ str[n + 1] = Nul
                    \/ len = n + 2 /\ str[n + 1] = NewLine /\ str[n + 2] = Nul
<1> DEFINE x == Len(accepted[c]) + 1
<1>1. Len(accepted[c]) \in Nat /\ x \in 1 .. MaxLines
  BY MaxLinesAssumption DEF PutString, LogTypes, HistoryTypes
<1>2. PICK n \in TextLen, end \in {<<>>, <<NewLine>>} :
        LET num_bytes == n + Len(end)
        IN  /\ HasRoom(c, num_bytes)
            /\ writer' = [writer EXCEPT ![c] =
                 [str |-> Line(c, n) \o end \o <<Nul>>, text |-> Line(c, n),
                  done |-> 0, at |-> Wrap(log_wr_idx[c])]]
            /\ filled' = [filled EXCEPT ![c] = @ \/ num_bytes + 1 = MaxBytes(c)]
  BY DEF PutString
<1> HIDE DEF x
<1>3. n \in Nat \ {0} /\ Len(end) \in Nat
  BY TextLenAssumption
<1> DEFINE text == Line(c, n)
           str == text \o end \o <<Nul>>
<1>4. text = [i \in 1 .. n |-> x]
  BY DEF Line, x
<1>5. /\ text \in Seq(1 .. MaxLines) /\ Len(text) = n /\ \A i \in 1 .. n : text[i] = x
  <2> HIDE DEF text
  <2> QED BY <1>1, <1>3, <1>4, TextIs
<1>6. /\ str \in Seq(Char) /\ Len(str) = n + Len(end) + 1
      /\ \A i \in 1 .. n : str[i] = x
      /\ \/ Len(str) = n + 1 /\ str[n + 1] = Nul
         \/ Len(str) = n + 2 /\ str[n + 1] = NewLine /\ str[n + 2] = Nul
  <2> HIDE DEF text
  <2>1. text \in Seq(Char) /\ Nul \in Char /\ NewLine \in Char
    <3>1. 1 .. MaxLines \subseteq Char /\ Nul \in Char /\ NewLine \in Char
      BY MaxLinesAssumption DEF Char, Nul, NewLine
    <3> QED BY <1>5, <3>1, SeqMonotonic
  <2>2. /\ str \in Seq(Char) /\ Len(str) = Len(text) + Len(end) + 1
        /\ \A i \in 1 .. Len(text) : str[i] = text[i]
        /\ \/ Len(str) = Len(text) + 1 /\ str[Len(text) + 1] = Nul
           \/ Len(str) = Len(text) + 2 /\ str[Len(text) + 1] = NewLine /\ str[Len(text) + 2] = Nul
    BY <2>1, StringIs
  <2> HIDE DEF str
  <2> QED BY <1>3, <1>5, <2>2
<1>7. MaxBytes(c) \in Int
  BY MemSizeAssumption DEF LogTypes, RingTypes, MaxBytes, Wrap
<1>8. /\ Len(str) <= MaxBytes(c)
      /\ filled' = [filled EXCEPT ![c] = @ \/ Len(str) = MaxBytes(c)]
      /\ writer' = [writer EXCEPT ![c] =
           [str |-> str, text |-> text, done |-> 0, at |-> Wrap(log_wr_idx[c])]]
  <2>1. Len(str) = n + Len(end) + 1
    BY <1>6
  <2>2. /\ HasRoom(c, n + Len(end))
        /\ writer' = [writer EXCEPT ![c] =
             [str |-> str, text |-> text, done |-> 0, at |-> Wrap(log_wr_idx[c])]]
        /\ filled' = [filled EXCEPT ![c] = @ \/ n + Len(end) + 1 = MaxBytes(c)]
    BY <1>2
  <2> HIDE DEF str
  <2> QED BY <1>3, <1>7, <2>1, <2>2 DEF HasRoom
<1> HIDE DEF str, text
<1>9. text # <<>>
  BY <1>3, <1>5
<1>10. /\ writer[c] = Idle /\ NumAccepted(c) \in Nat /\ NumAccepted(c) + 1 \in 1 .. MaxLines
       /\ phase[c] # "off" /\ x = NumAccepted(c) + 1
  BY <1>1 DEF PutString, NumAccepted, x
<1>11. \A i \in 1 .. Len(text) : text[i] = NumAccepted(c) + 1 /\ str[i] = text[i]
  BY <1>5, <1>6, <1>10
<1> QED BY <1>5, <1>6, <1>8, <1>9, <1>10, <1>11

LEMMA LogTypesStep ==
  ASSUME SyncInv, LogTypes, [Next]_vars
  PROVE  LogTypes'
<1> USE MemSizeAssumption, NumCpusAssumption
<1>1. CASE UNCHANGED <<ringVars, writer, reader, accepted, printed, filled>>
  BY <1>1 DEF LogTypes, WriterTypes, ReaderTypes, RingTypes, HistoryTypes, ringVars
<1>2. ASSUME NEW c \in Cpu, WrInit(c)  PROVE LogTypes'
  <2>1. RingTypes'
    BY <1>2 DEF WrInit, LogTypes, RingTypes
  <2> QED BY <1>2, <2>1 DEF WrInit, LogTypes, WriterTypes, ReaderTypes, HistoryTypes
<1>3. ASSUME NEW c \in Cpu, CopyChar(c)  PROVE LogTypes'
  <2> USE DEF LogTypes
  <2>1. /\ writer[c].done < Len(writer[c].str) /\ Wrap(writer[c].at) \in 0 .. MemSize - 1
        /\ writer[c].str[writer[c].done + 1] \in Char
    BY <1>3, ElementOfSeq DEF CopyChar, WriterTypes, Wrap
  <2>2. WriterTypes'
    <3> DEFINE w == writer[c]
               next == [w EXCEPT !.done = w.done + 1, !.at = Wrap(w.at) + 1]
    <3>1. writer' = [writer EXCEPT ![c] = next]
      BY <1>3 DEF CopyChar
    <3>2. /\ next \in [str : Seq(Char), text : Seq(1 .. MaxLines), done : Nat, at : 0 .. MemSize]
          /\ next.done = writer[c].done + 1 /\ next.str = writer[c].str
      <4>1. /\ w \in [str : Seq(Char), text : Seq(1 .. MaxLines), done : Nat, at : 0 .. MemSize]
            /\ w.done + 1 \in Nat /\ Wrap(w.at) + 1 \in 0 .. MemSize
        BY <2>1 DEF WriterTypes
      <4> HIDE DEF w
      <4>2. next \in [str : Seq(Char), text : Seq(1 .. MaxLines), done : Nat, at : 0 .. MemSize]
        BY <4>1, Zenon
      <4>3. next.done = w.done + 1 /\ next.str = w.str
        BY <4>1, Zenon
      <4> QED BY <4>2, <4>3, Zenon DEF w
    <3> HIDE DEF next
    <3> QED BY <2>1, <3>1, <3>2 DEF WriterTypes
  <2>3. RingTypes'
    BY <1>3, <2>1 DEF CopyChar, RingTypes
  <2> QED BY <1>3, <2>2, <2>3 DEF CopyChar, ReaderTypes, HistoryTypes, syncVars
<1>4. ASSUME NEW c \in Cpu, Publish(c)  PROVE LogTypes'
  <2> USE DEF LogTypes
  <2>1. Wrap(writer[c].at) \in 0 .. MemSize - 1 /\ writer[c].text \in Seq(1 .. MaxLines)
    BY DEF WriterTypes, Wrap
  <2>2. Idle \in [str : Seq(Char), text : Seq(1 .. MaxLines), done : Nat, at : 0 .. MemSize]
        /\ Idle.done = 0 /\ Len(Idle.str) = 0
    BY DEF Idle
  <2>3. WriterTypes'
    BY <1>4, <2>2 DEF Publish, WriterTypes
  <2>4. RingTypes'
    BY <1>4, <2>1 DEF Publish, RingTypes
  <2>5. HistoryTypes'
    BY <1>4, <2>1 DEF Publish, HistoryTypes
  <2> QED BY <1>4, <2>3, <2>4, <2>5 DEF Publish, ReaderTypes
<1>5. ASSUME NEW c \in Logger, PutString(c)  PROVE LogTypes'
  <2>0. c \in Cpu
    BY LoggerAssumption DEF Cpu
  <2>1. PICK str \in Seq(Char), text \in Seq(1 .. MaxLines) :
          /\ writer' = [writer EXCEPT ![c] =
               [str |-> str, text |-> text, done |-> 0, at |-> Wrap(log_wr_idx[c])]]
          /\ filled' = [filled EXCEPT ![c] = @ \/ Len(str) = MaxBytes(c)]
    BY <1>5, <2>0, PutStringIs
  <2>2. Wrap(log_wr_idx[c]) \in 0 .. MemSize /\ Len(str) \in Nat
    BY <2>0 DEF LogTypes, RingTypes, Wrap
  <2>3. WriterTypes'
    BY <2>0, <2>1, <2>2 DEF LogTypes, WriterTypes
  <2>4. HistoryTypes'
    BY <1>5, <2>0, <2>1 DEF LogTypes, HistoryTypes, PutString
  <2> QED BY <1>5, <2>3, <2>4 DEF PutString, LogTypes, ReaderTypes, RingTypes, ringVars
<1>6. CASE RdInit
  <2>1. ReaderTypes'
    BY <1>6 DEF RdInit, LogTypes, ReaderTypes
  <2>2. RingTypes'
    BY <1>6 DEF RdInit, LogTypes, RingTypes
  <2> QED BY <1>6, <2>1, <2>2 DEF RdInit, LogTypes, WriterTypes, HistoryTypes
<1>7. CASE Look
  <2> USE DEF LogTypes
  <2> DEFINE c == reader.cpu
  <2>1. c \in Cpu /\ NumBytes(c) \in 0 .. MemSize /\ log_rd_idx[c] \in 0 .. MemSize
    BY DEF ReaderTypes, RingTypes, NumBytes
  <2>2. (c + 1) % NumCpus \in Cpu
    BY <2>1 DEF Cpu
  <2>3. ReaderTypes'
    <3>1. CASE log_area_is_valid[c] /\ NumBytes(c) > 0
      BY <1>7, <2>1, <3>1 DEF Look, ReaderTypes
    <3>2. CASE ~(log_area_is_valid[c] /\ NumBytes(c) > 0)
      <4>1. reader' = [pc |-> "look", cpu |-> (c + 1) % NumCpus, rd |-> 0, left |-> 0, buf |-> <<>>]
        BY <1>7, <3>2 DEF Look, Off
      <4> QED BY <2>2, <4>1 DEF ReaderTypes
    <3> QED BY <3>1, <3>2
  <2> QED BY <1>7, <2>3 DEF Look, WriterTypes, RingTypes, HistoryTypes, ringVars
<1>8. CASE ReadChar
  <2> USE DEF LogTypes
  <2> DEFINE ch == log_mem[reader.cpu][Wrap(reader.rd)]
  <2>1. Wrap(reader.rd) \in 0 .. MemSize - 1 /\ Wrap(reader.rd) + 1 \in 0 .. MemSize
    BY DEF ReaderTypes, Wrap
  <2>2. ch \in Char /\ (ch \notin {Nul, NewLine} => ch \in 1 .. MaxLines)
    <3>1. ch \in Char
      BY <2>1 DEF ReaderTypes, RingTypes
    <3> QED BY <3>1, MaxLinesAssumption DEF Char, Nul, NewLine
  <2>3. ReaderTypes'
    <3> DEFINE buf == IF ch \in {Nul, NewLine} THEN reader.buf ELSE Append(reader.buf, ch)
    <3>1. \E pc \in {"read", "store"} :
            /\ pc = "read" => reader.left # 1
            /\ reader' = [pc |-> pc, cpu |-> reader.cpu, rd |-> Wrap(reader.rd) + 1,
                          left |-> reader.left - 1, buf |-> buf]
      BY <1>8 DEF ReadChar, ReaderTypes
    <3>2. buf \in Seq(1 .. MaxLines)
      <4> HIDE DEF ch
      <4>1. reader.buf \in Seq(1 .. MaxLines)
        BY DEF ReaderTypes
      <4>2. CASE ch \in {Nul, NewLine}
        BY <4>1, <4>2
      <4>3. CASE ch \notin {Nul, NewLine}
        BY <2>2, <4>1, <4>3, AppendProperties
      <4> QED BY <4>2, <4>3
    <3>3. reader.left \in 1 .. MemSize /\ reader.cpu \in Cpu
      BY <1>8 DEF ReadChar, ReaderTypes
    <3> HIDE DEF ch, buf
    <3> QED BY <2>1, <3>1, <3>2, <3>3 DEF ReaderTypes
  <2> QED BY <1>8, <2>3 DEF ReadChar, WriterTypes, RingTypes, HistoryTypes, ringVars
<1>9. CASE Store
  <2> USE DEF LogTypes
  <2>1. ReaderTypes'
    <3>1. reader' = [pc |-> "look", cpu |-> reader.cpu, rd |-> 0, left |-> 0, buf |-> <<>>]
      BY <1>9 DEF Store, Off
    <3> QED BY <3>1 DEF ReaderTypes
  <2>2. RingTypes'
    BY <1>9 DEF Store, RingTypes, ReaderTypes
  <2>3. HistoryTypes'
    BY <1>9 DEF Store, HistoryTypes, ReaderTypes
  <2> QED BY <1>9, <2>1, <2>2, <2>3 DEF Store, WriterTypes
<1>10. ASSUME NEW c \in Cpu, SyncStep(c)  PROVE LogTypes'
  BY <1>1, <1>10 DEF SyncStep
<1>11. CASE UNCHANGED vars
  BY <1>1, <1>11 DEF vars
<1> QED BY <1>2, <1>3, <1>4, <1>5, <1>6, <1>7, <1>8, <1>9, <1>10, <1>11 DEF Next, Writes, Reads
-----------------------------------------------------------------------------
(* The log of a CPU as the steps change it                                 *)

LEMMA LogInit ==
  ASSUME Init
  PROVE  LogInv
<1> SUFFICES ASSUME NEW c \in Cpu  PROVE OffIsEmpty(c) /\ LogHolds(c)
  BY DEF LogInv
<1> USE MemSizeAssumption, NumCpusAssumption DEF Init
<1>1. /\ log_rd_idx[c] = 0 /\ log_wr_idx[c] = 0 /\ writer[c] = Idle
      /\ accepted[c] = <<>> /\ printed[c] = <<>> /\ ~log_area_is_valid[c] /\ phase[c] = "off"
      /\ reader.pc = "off"
  BY DEF Off
<1>2. OffIsEmpty(c)
  BY <1>1 DEF OffIsEmpty, Reading
<1>3. NumPrinted(c) = 0 /\ NumAccepted(c) = 0 /\ NumBytes(c) = 0
  BY <1>1 DEF NumPrinted, NumAccepted, NumBytes
<1>4. LiesAt(c, [k \in Nat |-> 0]) /\ [k \in Nat |-> 0] \in Layouts
  BY <1>3 DEF LiesAt, Layouts, Starts, Unprinted
<1>5. RingHolds(c)
  BY <1>1, <1>4 DEF RingHolds, Reading
<1> QED BY <1>1, <1>2, <1>3, <1>5 DEF LogHolds, LinesNumbered, WriterHolds

(* A log that the step leaves alone; the reader may leave it, or go on as it was. *)
SameLog(c) ==
  /\ log_rd_idx'[c] = log_rd_idx[c] /\ log_wr_idx'[c] = log_wr_idx[c] /\ log_mem'[c] = log_mem[c]
  /\ accepted'[c] = accepted[c] /\ printed'[c] = printed[c]
  /\ Reading(c)' => Reading(c) /\ reader' = reader

LEMMA SameLogKept ==
  ASSUME NEW c \in Cpu, SameLog(c)
  PROVE  /\ NumBytes(c)' = NumBytes(c) /\ NumAccepted(c)' = NumAccepted(c)
         /\ LinesNumbered(c) => LinesNumbered(c)'
         /\ RingHolds(c) => RingHolds(c)'
         /\ WriterHolds(c) /\ writer'[c] = writer[c] => WriterHolds(c)'
<1> USE DEF SameLog
<1>1. NumBytes(c)' = NumBytes(c) /\ NumAccepted(c)' = NumAccepted(c) /\ NumPrinted(c)' = NumPrinted(c)
  BY DEF NumBytes, NumAccepted, NumPrinted
<1>2. LinesNumbered(c) => LinesNumbered(c)'
  BY <1>1 DEF LinesNumbered
<1>3. ASSUME RingHolds(c)  PROVE RingHolds(c)'
  <2>1. PICK at \in Layouts : LiesAt(c, at) /\ (Reading(c) => ReadsAt(c, at))
    BY <1>3 DEF RingHolds
  <2>2. LiesAt(c, at)'
    BY <1>1, <2>1 DEF LiesAt, LineAt, Unread, Starts, Unprinted
  <2>3. Reading(c)' => ReadsAt(c, at)'
    BY <1>1, <2>1 DEF ReadsAt, Unprinted
  <2> QED BY <2>2, <2>3 DEF RingHolds, Layouts
<1>4. WriterHolds(c) /\ writer'[c] = writer[c] => WriterHolds(c)'
  BY <1>1 DEF WriterHolds
<1> QED BY <1>1, <1>2, <1>3, <1>4

LEMMA OthersKept ==
  ASSUME NEW c \in Cpu, OffIsEmpty(c), LogHolds(c), SameLog(c),
         writer'[c] = writer[c], filled'[c] = filled[c],
         phase'[c] = "off" <=> phase[c] = "off",
         log_area_is_valid'[c] = log_area_is_valid[c],
         reader'.pc = "off" => reader.pc = "off"
  PROVE  OffIsEmpty(c)' /\ LogHolds(c)'
<1>1. OffIsEmpty(c)'
  BY DEF OffIsEmpty, SameLog
<1>2. LogHolds(c)'
  BY SameLogKept DEF LogHolds
<1> QED BY <1>1, <1>2

(* What the types say of one CPU and of the reader. *)
LEMMA TypesOf ==
  ASSUME LogTypes, NEW c \in Cpu
  PROVE  /\ log_rd_idx[c] \in 0 .. MemSize /\ log_wr_idx[c] \in 0 .. MemSize - 1
         /\ NumBytes(c) = Distance(log_rd_idx[c], log_wr_idx[c]) /\ NumBytes(c) \in 0 .. MemSize - 1
         /\ accepted[c] \in Seq(Seq(1 .. MaxLines)) /\ NumAccepted(c) \in Nat
         /\ printed[c] \in Seq(Seq(1 .. MaxLines)) /\ NumPrinted(c) \in Nat
         /\ writer[c].str \in Seq(Char) /\ writer[c].text \in Seq(1 .. MaxLines)
         /\ writer[c].done \in 0 .. Len(writer[c].str) /\ writer[c].at \in 0 .. MemSize
         /\ log_mem[c] \in [0 .. MemSize - 1 -> Char]
<1> USE DEF LogTypes
<1>1. log_rd_idx[c] \in 0 .. MemSize /\ log_wr_idx[c] \in 0 .. MemSize - 1
  BY DEF RingTypes
<1>2. NumBytes(c) = Distance(log_rd_idx[c], log_wr_idx[c]) /\ NumBytes(c) \in 0 .. MemSize - 1
  BY <1>1, RoomIs, DistanceIs
<1>3. /\ accepted[c] \in Seq(Seq(1 .. MaxLines)) /\ printed[c] \in Seq(Seq(1 .. MaxLines))
  BY DEF HistoryTypes
<1>4. NumAccepted(c) \in Nat /\ NumPrinted(c) \in Nat
  BY <1>3 DEF NumAccepted, NumPrinted
<1>5. /\ writer[c].str \in Seq(Char) /\ writer[c].text \in Seq(1 .. MaxLines)
      /\ writer[c].done \in 0 .. Len(writer[c].str) /\ writer[c].at \in 0 .. MemSize
  BY DEF WriterTypes
<1>6. log_mem[c] \in [0 .. MemSize - 1 -> Char]
  BY DEF RingTypes
<1> QED BY <1>1, <1>2, <1>3, <1>4, <1>5, <1>6

LEMMA PutStringStep ==
  ASSUME LogTypes, LogInv, NEW c \in Cpu, PutString(c)
  PROVE  OffIsEmpty(c)' /\ LogHolds(c)'
<1>1. PICK str \in Seq(Char), text \in Seq(1 .. MaxLines) :
        LET n == Len(text)
            len == Len(str)
        IN /\ writer' = [writer EXCEPT ![c] =
                [str |-> str, text |-> text, done |-> 0, at |-> Wrap(log_wr_idx[c])]]
           /\ filled' = [filled EXCEPT ![c] = @ \/ len = MaxBytes(c)]
           /\ len <= MaxBytes(c)
           /\ text # <<>>
           /\ \A i \in 1 .. n : text[i] = NumAccepted(c) + 1 /\ str[i] = text[i]
           /\ \/ len = n + 1 /\ str[n + 1] = Nul
              \/ len = n + 2 /\ str[n + 1] = NewLine /\ str[n + 2] = Nul
  BY PutStringIs
<1>2. /\ SameLog(c) /\ OffIsEmpty(c) /\ LogHolds(c)
      /\ phase[c] # "off" /\ phase' = phase /\ reader' = reader
  BY DEF PutString, SameLog, ringVars, syncVars, LogInv, Reading
<1>3. OffIsEmpty(c)'
  BY <1>2 DEF OffIsEmpty, Reading, SameLog
<1>4. ASSUME ~filled'[c]  PROVE LinesNumbered(c)' /\ RingHolds(c)' /\ WriterHolds(c)'
  <2>1. ~filled[c] /\ Len(str) # MaxBytes(c)
    BY <1>1, <1>4 DEF LogTypes, HistoryTypes
  <2>2. LinesNumbered(c)' /\ RingHolds(c)'
    BY <1>2, <2>1, SameLogKept DEF LogHolds
  <2>3. writer'[c] = [str |-> str, text |-> text, done |-> 0, at |-> Wrap(log_wr_idx[c])]
    BY <1>1 DEF LogTypes, WriterTypes
  <2>4. NumBytes(c)' + Len(str) < MemSize /\ NumAccepted(c)' = NumAccepted(c)
    BY <1>1, <1>2, <2>1, RoomIs, TypesOf, SameLogKept, MemSizeAssumption
  <2>5. Wrap(Wrap(log_wr_idx[c])) = Place(log_wr_idx[c], 0)
    <3>1. log_wr_idx[c] \in 0 .. MemSize
      BY TypesOf, MemSizeAssumption
    <3> QED BY <3>1, WrapIs
  <2>6. log_wr_idx'[c] = log_wr_idx[c]
    BY <1>2 DEF SameLog
  <2>7. WriterHolds(c)'
    BY <1>1, <2>3, <2>4, <2>5, <2>6 DEF WriterHolds
  <2> QED BY <2>2, <2>7
<1> QED BY <1>3, <1>4 DEF LogHolds

LEMMA WrInitLog ==
  ASSUME SyncInv, LogTypes, LogInv, NEW c \in Cpu, WrInit(c)
  PROVE  OffIsEmpty(c)' /\ LogHolds(c)'
<1>1. phase[c] = "off" /\ OffIsEmpty(c) /\ LogHolds(c)
  BY DEF WrInit, LogInv
<1>2. /\ SameLog(c) /\ writer' = writer /\ filled' = filled /\ phase'[c] = "booted"
      /\ log_rd_idx'[c] = 0
  BY <1>1 DEF WrInit, SameLog, OffIsEmpty, Reading, SyncInv, SyncTypes, LogTypes, RingTypes
<1>3. OffIsEmpty(c)'
  BY <1>2 DEF OffIsEmpty
<1>4. LogHolds(c)'
  BY <1>1, <1>2, SameLogKept DEF LogHolds
<1> QED BY <1>3, <1>4

LEMMA RdInitLog ==
  ASSUME LogTypes, LogInv, NEW c \in Cpu, RdInit
  PROVE  OffIsEmpty(c)' /\ LogHolds(c)'
<1>1. reader.pc = "off" /\ OffIsEmpty(c) /\ LogHolds(c) /\ log_rd_idx[c] = 0
  BY DEF RdInit, LogInv, OffIsEmpty
<1>2. reader'.pc = "look"
  BY DEF RdInit, LogTypes, ReaderTypes
<1>3. SameLog(c)
  BY <1>1, <1>2 DEF RdInit, SameLog, Reading
<1> QED BY <1>1, <1>2, <1>3, OthersKept DEF RdInit, syncVars

(* A step of the reader leaves everything but its own state, at another CPU's log. *)
LEMMA LookLog ==
  ASSUME SyncInv, LogTypes, LogInv, NEW c \in Cpu, Look
  PROVE  OffIsEmpty(c)' /\ LogHolds(c)'
<1>1. /\ OffIsEmpty(c) /\ LogHolds(c)
      /\ reader.pc = "look" /\ ~Reading(c)
      /\ UNCHANGED <<log_rd_idx, log_wr_idx, log_area_is_valid, log_mem,
                     phase, writer, accepted, printed, filled>>
  BY DEF Look, LogInv, Reading, ringVars, syncVars
<1>2. CASE ~Reading(c)'
  <2>1. SameLog(c)
    BY <1>1, <1>2 DEF SameLog
  <2>2. reader'.pc # "off"
    BY DEF Look, Off
  <2> QED BY <1>1, <2>1, <2>2, OthersKept
<1>3. CASE Reading(c)'
  <2>1. /\ log_area_is_valid[c] /\ NumBytes(c) > 0 /\ reader.cpu = c
        /\ reader' = [pc |-> "read", cpu |-> c, rd |-> log_rd_idx[c],
                      left |-> NumBytes(c), buf |-> <<>>]
    BY <1>3 DEF Look, Reading, Off
  <2>2. OffIsEmpty(c)'
    BY <1>1, <2>1 DEF OffIsEmpty
  <2>3. ASSUME ~filled[c]  PROVE LinesNumbered(c)' /\ RingHolds(c)' /\ WriterHolds(c)'
    <3>1. LinesNumbered(c) /\ RingHolds(c) /\ WriterHolds(c)
      BY <1>1, <2>3 DEF LogHolds
    <3>2. /\ NumBytes(c)' = NumBytes(c) /\ NumAccepted(c)' = NumAccepted(c)
          /\ NumPrinted(c)' = NumPrinted(c)
      BY <1>1 DEF NumBytes, NumAccepted, NumPrinted
    <3>3. LinesNumbered(c)' /\ WriterHolds(c)'
      BY <1>1, <3>1, <3>2 DEF LinesNumbered, WriterHolds
    <3>4. PICK at \in Layouts : LiesAt(c, at)
      BY <3>1 DEF RingHolds
    <3>5. LiesAt(c, at)'
      BY <1>1, <3>2, <3>4 DEF LiesAt, LineAt, Unread, Starts, Unprinted
    <3>6. ReadsAt(c, at)'
      <4> DEFINE k == NumPrinted(c) + 1
      <4>1. /\ Wrap(log_rd_idx[c]) = Place(log_rd_idx[c], 0) /\ NumPrinted(c) \in Nat
            /\ NumAccepted(c) \in Nat /\ NumPrinted(c) <= NumAccepted(c)
        BY <3>1, TypesOf, WrapIs DEF LinesNumbered
      <4>2. /\ reader'.pc = "read" /\ reader'.buf = <<>> /\ Len(reader'.buf) = 0
            /\ Wrap(reader'.rd) = Place(log_rd_idx[c], 0) /\ reader'.left = NumBytes(c)
        BY <2>1, <4>1
      <4>3. CASE at[k] = 1
        BY <1>1, <3>2, <4>2, <4>3 DEF ReadsAt
      <4>4. CASE at[k] = 0
        <5>1. k \in Unprinted(c)
          BY <2>1, <3>4, <4>1, <4>4 DEF LiesAt, Unprinted
        <5>2. at[k + 1] \in 0 .. NumBytes(c)
          BY <3>4, <4>1, <5>1 DEF LiesAt, Unprinted, Starts
        <5>3. Len(accepted[c][k]) \in Nat
          BY <4>1, <5>1, TypesOf DEF Unprinted, NumAccepted
        <5>4. NumBytes(c) >= at[k + 1] - 0
          BY <5>2, TypesOf
        <5>5. Unprinted(c)' = Unprinted(c)
          BY <3>2 DEF Unprinted
        <5>6. log_rd_idx' = log_rd_idx /\ accepted' = accepted
          BY <1>1
        <5> QED BY <3>2, <4>2, <4>4, <5>1, <5>3, <5>4, <5>5, <5>6 DEF ReadsAt
      <4> QED BY <3>4, <4>3, <4>4 DEF LiesAt
    <3>7. RingHolds(c)'
      BY <3>5, <3>6 DEF RingHolds, Layouts
    <3> QED BY <3>3, <3>7
  <2> QED BY <1>1, <2>2, <2>3 DEF LogHolds
<1> QED BY <1>2, <1>3

(* Where a line that is read lies: behind the read index, and before the write index. *)
LEMMA LineIsThere ==
  ASSUME LogTypes, NEW c \in Cpu, NEW at \in Layouts, LiesAt(c, at),
         NEW k \in Unprinted(c)
  PROVE  /\ k \in Nat \ {0} /\ k \in 1 .. NumAccepted(c) /\ k \in Starts(c) /\ k + 1 \in Starts(c)
         /\ Len(accepted[c][k]) \in Nat
         /\ at[k] \in 0 .. NumBytes(c) /\ at[k + 1] \in 0 .. NumBytes(c)
         /\ at[k + 1] >= at[k] + Len(accepted[c][k]) + 1
         /\ LineAt(c, k, at[k], at[k + 1])
<1>1. NumPrinted(c) \in Nat /\ NumAccepted(c) \in Nat /\ NumBytes(c) \in 0 .. MemSize - 1
  BY TypesOf
<1>2. k \in 1 .. NumAccepted(c) /\ k \in Starts(c) /\ k + 1 \in Starts(c)
  BY <1>1 DEF Unprinted, Starts
<1>3. Len(accepted[c][k]) \in Nat
  BY <1>1, <1>2, TypesOf DEF NumAccepted
<1>4. at[k] \in 0 .. NumBytes(c) /\ at[k + 1] \in 0 .. NumBytes(c) /\ LineAt(c, k, at[k], at[k + 1])
  BY <1>2 DEF LiesAt
<1>5. at[k + 1] >= at[k] + Len(accepted[c][k]) + 1
  BY <1>1, <1>3, <1>4 DEF LineAt
<1> QED BY <1>1, <1>2, <1>3, <1>4, <1>5

LEMMA ReadCharLog ==
  ASSUME LogTypes, LogInv, NEW c \in Cpu, ReadChar
  PROVE  OffIsEmpty(c)' /\ LogHolds(c)'
<1> USE MemSizeAssumption
<1>1. /\ OffIsEmpty(c) /\ LogHolds(c) /\ reader.pc = "read"
      /\ UNCHANGED <<log_rd_idx, log_wr_idx, log_area_is_valid, log_mem,
                     phase, writer, accepted, printed, filled>>
  BY DEF ReadChar, LogInv, ringVars, syncVars
<1> DEFINE ch == log_mem[reader.cpu][Wrap(reader.rd)]
           ends == ch \in {Nul, NewLine}
<1>2. reader' = [pc |-> IF ends \/ reader.left = 1 THEN "store" ELSE "read",
                 cpu |-> reader.cpu, rd |-> Wrap(reader.rd) + 1, left |-> reader.left - 1,
                 buf |-> IF ends THEN reader.buf ELSE Append(reader.buf, ch)]
  BY DEF ReadChar, LogTypes, ReaderTypes
<1> HIDE DEF ends, ch
<1>3. CASE reader.cpu # c
  <2>1. SameLog(c) /\ reader'.pc # "off"
    BY <1>1, <1>2, <1>3 DEF SameLog, Reading
  <2> QED BY <1>1, <2>1, OthersKept
<1>4. CASE reader.cpu = c
  <2>1. Reading(c) /\ Reading(c)' /\ OffIsEmpty(c)'
    BY <1>1, <1>2, <1>4 DEF Reading, OffIsEmpty
  <2>2. ASSUME ~filled[c]  PROVE LinesNumbered(c)' /\ RingHolds(c)' /\ WriterHolds(c)'
    <3>1. LinesNumbered(c) /\ RingHolds(c) /\ WriterHolds(c)
      BY <1>1, <2>2 DEF LogHolds
    <3>2. /\ NumBytes(c)' = NumBytes(c) /\ NumAccepted(c)' = NumAccepted(c)
          /\ NumPrinted(c)' = NumPrinted(c)
      BY <1>1 DEF NumBytes, NumAccepted, NumPrinted
    <3>3. LinesNumbered(c)' /\ WriterHolds(c)'
      BY <1>1, <3>1, <3>2 DEF LinesNumbered, WriterHolds
    <3>4. PICK at \in Layouts : LiesAt(c, at) /\ ReadsAt(c, at)
      BY <2>1, <3>1 DEF RingHolds
    <3>5. LiesAt(c, at)'
      BY <1>1, <3>2, <3>4 DEF LiesAt, LineAt, Unread, Starts, Unprinted
    <3> DEFINE k == NumPrinted(c) + 1
               r == Len(reader.buf)
               n == Len(accepted[c][k])
    <3>6. /\ log_rd_idx[c] \in 0 .. MemSize /\ reader.rd \in 0 .. MemSize
          /\ NumBytes(c) \in 0 .. MemSize - 1
          /\ reader.buf \in Seq(1 .. MaxLines) /\ reader.left \in Nat /\ r \in Nat
          /\ NumPrinted(c) \in Nat /\ NumAccepted(c) \in Nat
      BY TypesOf DEF LogTypes, ReaderTypes
    <3>7. \A i \in Nat : Wrap(reader.rd) = Place(log_rd_idx[c], i) => ch = Unread(c, i)
      BY <1>4 DEF Unread, ch
    <3>8. ReadsAt(c, at)'
      <4>0. /\ Unprinted(c)' = Unprinted(c) /\ k' = k /\ log_rd_idx' = log_rd_idx
            /\ accepted' = accepted
        BY <1>1, <3>2 DEF Unprinted
      <4>1. CASE at[k] = 1
        <5>1. /\ reader.buf = <<>> /\ Wrap(reader.rd) = Place(log_rd_idx[c], 0)
              /\ Unread(c, 0) = Nul
          BY <1>1, <3>4, <4>1 DEF ReadsAt, LiesAt
        <5>2. ends
          BY <3>7, <5>1 DEF ends
        <5>3. reader'.pc = "store" /\ reader'.buf = <<>> /\ reader'.rd = Wrap(reader.rd) + 1
          BY <1>2, <5>1, <5>2
        <5>4. Wrap(reader'.rd) = Place(log_rd_idx[c], 1)
          BY <3>6, <5>1, <5>3, NextPlace, MemSizeAssumption
        <5> QED BY <4>0, <4>1, <5>3, <5>4 DEF ReadsAt
      <4>2. CASE at[k] = 0
        <5>1. /\ k \in Unprinted(c) /\ r <= n /\ \A i \in 1 .. r : reader.buf[i] = k
              /\ Wrap(reader.rd) = Place(log_rd_idx[c], r)
              /\ reader.left >= at[k + 1] - r
          BY <1>1, <3>4, <4>2 DEF ReadsAt
        <5>2. /\ n \in Nat /\ at[k + 1] \in 0 .. NumBytes(c) /\ at[k + 1] >= n + 1
              /\ LineAt(c, k, 0, at[k + 1]) /\ k \in Nat \ {0}
          BY <3>4, <4>2, <5>1, LineIsThere
        <5> DEFINE end == at[k + 1]
        <5>0. /\ r \in Nat /\ n \in Nat /\ r <= n /\ end \in Int /\ n + 1 <= end /\ end < MemSize
              /\ reader.left \in Nat /\ reader.left >= end - r
          BY <3>6, <5>1, <5>2
        <5> HIDE DEF r, n, end
        <5>3. r \in 0 .. MemSize - 2
          BY <5>0
        <5>4. ch = Unread(c, r) /\ Wrap(reader'.rd) = Place(log_rd_idx[c], r + 1)
          BY <1>2, <3>6, <3>7, <5>1, <5>3, NextPlace DEF r
        <5>5. CASE r < n
          <6>1. ch = k /\ ~ends
            BY <5>0, <5>2, <5>4, <5>5 DEF LineAt, ends, Nul, NewLine, n, end
          <6>2. reader.left # 1
            BY <5>0, <5>5
          <6>3. /\ reader'.pc = "read" /\ reader'.buf = Append(reader.buf, k)
                /\ reader'.left = reader.left - 1
            BY <1>2, <6>1, <6>2
          <6>4. Len(reader'.buf) = r + 1 /\ \A i \in 1 .. r + 1 : reader'.buf[i] = k
            <7>1. k \in 1 .. MaxLines
              <8>1. Wrap(reader.rd) \in 0 .. MemSize - 1 /\ log_mem[c] \in [0 .. MemSize - 1 -> Char]
                BY <3>6, TypesOf, WrapIs
              <8>2. k \in Char /\ k \in Nat \ {0}
                BY <1>4, <3>6, <6>1, <8>1 DEF ch
              <8> HIDE DEF k
              <8> QED BY <8>2, MaxLinesAssumption DEF Char
            <7>2. reader.buf \in Seq(1 .. MaxLines) /\ \A i \in 1 .. Len(reader.buf) : reader.buf[i] = k
              BY <3>6, <5>1 DEF r
            <7> HIDE DEF k
            <7> QED BY <6>3, <7>1, <7>2, AppendProperties DEF r
          <6>5. reader'.left >= end - (r + 1)
            BY <5>0, <6>3
          <6>6. r + 1 <= n
            BY <5>0, <5>5
          <6> QED BY <4>0, <4>2, <5>1, <5>4, <6>3, <6>4, <6>5, <6>6 DEF ReadsAt, n, end
        <5>6. CASE r = n
          <6>1. ends
            BY <5>0, <5>2, <5>4, <5>6 DEF LineAt, ends, n, end
          <6>2. reader'.pc = "store" /\ reader'.buf = reader.buf
            BY <1>2, <6>1
          <6> QED BY <4>0, <4>2, <5>1, <5>4, <5>6, <6>2 DEF ReadsAt, r, n
        <5> QED BY <5>0, <5>5, <5>6
      <4> QED BY <3>4, <4>1, <4>2 DEF LiesAt
    <3>9. RingHolds(c)'
      BY <3>5, <3>8 DEF RingHolds, Layouts
    <3> QED BY <3>3, <3>9
  <2> QED BY <1>1, <2>1, <2>2 DEF LogHolds
<1> QED BY <1>3, <1>4

LEMMA CopyCharLog ==
  ASSUME LogTypes, LogInv, NEW c \in Cpu, CopyChar(c)
  PROVE  OffIsEmpty(c)' /\ LogHolds(c)'
<1> USE MemSizeAssumption
<1> DEFINE w == writer[c]
           wr == log_wr_idx[c]
           rd == log_rd_idx[c]
           bytes == NumBytes(c)
<1>1. /\ OffIsEmpty(c) /\ LogHolds(c) /\ w.done < Len(w.str)
      /\ log_mem' = [log_mem EXCEPT ![c][Wrap(w.at)] = w.str[w.done + 1]]
      /\ UNCHANGED <<log_rd_idx, log_wr_idx, log_area_is_valid, reader,
                     phase, accepted, printed, filled>>
  BY DEF CopyChar, LogInv, syncVars
<1>2. /\ w.str \in Seq(Char) /\ Len(w.str) \in Nat /\ w.done \in Nat /\ w.at \in 0 .. MemSize
      /\ rd \in 0 .. MemSize /\ wr \in 0 .. MemSize - 1
      /\ bytes = Distance(rd, wr) /\ bytes \in 0 .. MemSize - 1
      /\ log_mem[c] \in [0 .. MemSize - 1 -> Char]
  BY TypesOf
<1>3. /\ writer'[c].str = w.str /\ writer'[c].text = w.text /\ writer'[c].done = w.done + 1
      /\ writer'[c].at = Wrap(w.at) + 1
  <2>1. /\ w \in [str : Seq(Char), text : Seq(1 .. MaxLines), done : Nat, at : 0 .. MemSize]
        /\ writer'[c] = [w EXCEPT !.done = w.done + 1, !.at = Wrap(w.at) + 1]
    BY DEF CopyChar, LogTypes, WriterTypes
  <2> HIDE DEF w
  <2> QED BY <2>1
<1>4. w # Idle
  BY <1>1, <1>2 DEF Idle
<1>5. OffIsEmpty(c)'
  BY <1>1, <1>4 DEF OffIsEmpty, Reading
<1>6. ASSUME ~filled[c]  PROVE LinesNumbered(c)' /\ RingHolds(c)' /\ WriterHolds(c)'
  <2>1. LinesNumbered(c) /\ RingHolds(c) /\ WriterHolds(c)
    BY <1>1, <1>6 DEF LogHolds
  <2>2. /\ bytes' = bytes /\ NumAccepted(c)' = NumAccepted(c) /\ NumPrinted(c)' = NumPrinted(c)
    BY <1>1 DEF NumBytes, NumAccepted, NumPrinted
  <2>3. LinesNumbered(c)'
    BY <1>1, <2>1, <2>2 DEF LinesNumbered
  <2>4. bytes + Len(w.str) < MemSize /\ Wrap(w.at) = Place(wr, w.done)
    BY <1>4, <2>1 DEF WriterHolds
  <2>5. Place(wr, w.done) = Place(rd, bytes + w.done) /\ Place(wr, w.done) \in 0 .. MemSize - 1
    <3> DEFINE len == Len(w.str)
    <3>1. /\ len \in Nat /\ w.done \in 0 .. len - 1 /\ Distance(rd, wr) + len < MemSize
      BY <1>1, <1>2, <2>4
    <3>2. \A i \in 0 .. len - 1 : Place(wr, i) = Place(rd, bytes + i)
      BY <1>2, <3>1, WriteIndexMoves
    <3>3. bytes + w.done \in 0 .. MemSize - 1
      BY <1>2, <3>1
    <3>4. Place(rd, bytes + w.done) \in 0 .. MemSize - 1
      BY <1>2, <3>3, PlacesDiffer
    <3> QED BY <3>1, <3>2, <3>4
  <2>6. /\ log_mem'[c][Place(wr, w.done)] = w.str[w.done + 1]
        /\ \A p \in 0 .. MemSize - 1 : p # Place(wr, w.done) => log_mem'[c][p] = log_mem[c][p]
    BY <1>1, <1>2, <2>4, <2>5 DEF LogTypes, RingTypes
  <2>7. \A i \in 0 .. bytes - 1 : Unread(c, i)' = Unread(c, i)
    <3> SUFFICES ASSUME NEW i \in 0 .. bytes - 1  PROVE Unread(c, i)' = Unread(c, i)
      OBVIOUS
    <3>1. /\ i \in 0 .. MemSize - 1 /\ bytes + w.done \in 0 .. MemSize - 1
          /\ i # bytes + w.done
      BY <1>1, <1>2, <2>4
    <3>2. Place(rd, i) \in 0 .. MemSize - 1 /\ Place(rd, i) # Place(wr, w.done)
      <4> DEFINE k == bytes + w.done
      <4>1. rd \in 0 .. MemSize /\ k \in 0 .. MemSize - 1 /\ i # k /\ Place(wr, w.done) = Place(rd, k)
        BY <1>2, <2>5, <3>1
      <4> HIDE DEF k, rd, wr, w
      <4> QED BY <3>1, <4>1, PlacesDiffer
    <3> QED BY <1>1, <2>6, <3>2 DEF Unread
  <2>8. RingHolds(c)'
    <3>1. PICK at \in Layouts : LiesAt(c, at) /\ (Reading(c) => ReadsAt(c, at))
      BY <2>1 DEF RingHolds
    <3>2. NumPrinted(c) \in Nat /\ NumAccepted(c) \in Nat /\ NumPrinted(c) <= NumAccepted(c)
      BY <2>1, TypesOf DEF LinesNumbered
    <3>3. Starts(c)' = Starts(c) /\ Unprinted(c)' = Unprinted(c) /\ at' = at
      BY <2>2 DEF Starts, Unprinted
    <3>4. ASSUME NEW k \in Unprinted(c)  PROVE LineAt(c, k, at[k], at[k + 1])'
      <4>1. /\ Len(accepted[c][k]) \in Nat
            /\ at[k] \in 0 .. bytes /\ at[k + 1] \in 0 .. bytes
            /\ LineAt(c, k, at[k], at[k + 1]) /\ at[k + 1] >= at[k] + Len(accepted[c][k]) + 1
        BY <3>1, LineIsThere
      <4>2. accepted' = accepted
        BY <1>1
      <4> DEFINE n == Len(accepted[c][k])
                 from == at[k]
                 to == at[k + 1]
      <4>3. n' = n /\ n \in Nat /\ bytes \in Nat /\ from \in Nat /\ to \in Nat /\ to <= bytes
            /\ to >= from + n + 1
        BY <1>2, <4>1, <4>2
      <4>4. LineAt(c, k, from, to)
        BY <4>1
      <4> HIDE DEF bytes, n, from, to
      <4>5. \A i \in 0 .. n - 1 : Unread(c, from + i)' = k
        <5> SUFFICES ASSUME NEW i \in 0 .. n - 1  PROVE Unread(c, from + i)' = k
          OBVIOUS
        <5>1. from + i \in 0 .. bytes - 1 /\ Unread(c, from + i) = k
          BY <4>3, <4>4 DEF LineAt, n
        <5> QED BY <2>7, <5>1
      <4>6. from + n \in 0 .. bytes - 1
        BY <4>3
      <4>7. to = from + n + 2 => from + n + 1 \in 0 .. bytes - 1
        BY <4>3
      <4>8. \/ to = from + n + 1 /\ Unread(c, from + n)' = Nul
            \/ to = from + n + 2 /\ Unread(c, from + n)' = NewLine /\ Unread(c, from + n + 1)' = Nul
        BY <2>7, <4>3, <4>4, <4>6, <4>7 DEF LineAt, n
      <4> QED BY <4>2, <4>5, <4>8 DEF LineAt, n, from, to
    <3>5. LiesAt(c, at)'
      <4>1. at[NumPrinted(c) + 1] \in 0 .. bytes
        BY <3>1, <3>2 DEF LiesAt, Starts
      <4>2. at[NumPrinted(c) + 1] = 1 => Unread(c, 0)' = Unread(c, 0)
        BY <1>2, <2>7, <4>1
      <4> QED BY <2>2, <3>1, <3>3, <3>4, <4>2 DEF LiesAt
    <3>6. Reading(c)' => ReadsAt(c, at)'
      BY <1>1, <2>2, <3>1, <3>3 DEF ReadsAt, Reading
    <3> QED BY <3>5, <3>6 DEF RingHolds, Layouts
  <2>9. WriterHolds(c)'
    <3>1. Wrap(writer'[c].at) = Place(wr, w.done + 1)
      <4>1. w.done \in 0 .. MemSize - 2 /\ wr \in 0 .. MemSize
        BY <1>1, <1>2, <2>4
      <4> QED BY <1>2, <1>3, <2>4, <4>1, NextPlace
    <3>2. ASSUME NEW i \in 0 .. w.done
          PROVE  log_mem'[c][Place(wr, i)] = w.str[i + 1]
      <4>1. CASE i = w.done
        BY <2>6, <4>1
      <4>2. CASE i < w.done
        <5>1. log_mem[c][Place(wr, i)] = w.str[i + 1]
          BY <1>2, <1>4, <2>1, <4>2 DEF WriterHolds
        <5>2. i \in 0 .. MemSize - 1 /\ w.done \in 0 .. MemSize - 1
          BY <1>1, <1>2, <2>4, <4>2
        <5>3. Place(wr, i) \in 0 .. MemSize - 1 /\ Place(wr, i) # Place(wr, w.done)
          <6>1. wr \in 0 .. MemSize /\ i # w.done
            BY <1>2, <4>2
          <6> QED BY <5>2, <6>1, PlacesDiffer
        <5> QED BY <2>6, <5>1, <5>3
      <4> QED BY <1>2, <4>1, <4>2
    <3>3. (w.done + 1) - 1 = w.done
      BY <1>2
    <3> HIDE DEF w, wr
    <3> QED BY <1>1, <1>3, <1>4, <2>1, <2>2, <3>1, <3>2, <3>3 DEF WriterHolds, w, wr
  <2> QED BY <2>3, <2>8, <2>9
<1> QED BY <1>1, <1>5, <1>6 DEF LogHolds

(* A layout with the place of one more line behind it. *)
LEMMA LayoutGrows ==
  ASSUME NEW at \in Layouts, NEW k \in Nat, NEW x \in Int
  PROVE  \E to \in Layouts : to[k] = x /\ \A j \in Nat : j # k => to[j] = at[j]
<1> DEFINE to == [at EXCEPT ![k] = x]
<1>1. to \in Layouts /\ to[k] = x /\ \A j \in Nat : j # k => to[j] = at[j]
  BY DEF Layouts
<1> QED BY <1>1

LEMMA PublishLog ==
  ASSUME LogTypes, LogInv, NEW c \in Cpu, Publish(c)
  PROVE  OffIsEmpty(c)' /\ LogHolds(c)'
<1> USE MemSizeAssumption
<1> DEFINE w == writer[c]
           len == Len(w.str)
           wr == log_wr_idx[c]
           rd == log_rd_idx[c]
           bytes == NumBytes(c)
           last == NumAccepted(c)
<1>1. /\ OffIsEmpty(c) /\ LogHolds(c) /\ w # Idle /\ w.done = len
      /\ log_wr_idx' = [log_wr_idx EXCEPT ![c] = Wrap(w.at)]
      /\ accepted' = [accepted EXCEPT ![c] = Append(@, w.text)]
      /\ writer' = [writer EXCEPT ![c] = Idle]
      /\ UNCHANGED <<log_rd_idx, log_area_is_valid, log_mem, reader, phase, printed, filled>>
  BY DEF Publish, CanPublish, LogInv, syncVars
<1>2. /\ w.str \in Seq(Char) /\ len \in Nat /\ w.at \in 0 .. MemSize
      /\ w.text \in Seq(1 .. MaxLines) /\ Len(w.text) \in Nat
      /\ rd \in 0 .. MemSize /\ wr \in 0 .. MemSize - 1
      /\ bytes = Distance(rd, wr) /\ bytes \in 0 .. MemSize - 1
      /\ accepted[c] \in Seq(Seq(1 .. MaxLines)) /\ last \in Nat /\ NumPrinted(c) \in Nat
  BY TypesOf
<1>3. OffIsEmpty(c)'
  BY <1>1 DEF OffIsEmpty, Reading
<1>4. ASSUME ~filled[c]  PROVE LinesNumbered(c)' /\ RingHolds(c)' /\ WriterHolds(c)'
  <2>1. LinesNumbered(c) /\ RingHolds(c) /\ WriterHolds(c)
    BY <1>1, <1>4 DEF LogHolds
  <2>2. /\ log_wr_idx'[c] = Wrap(w.at) /\ accepted'[c] = Append(accepted[c], w.text)
        /\ writer'[c] = Idle
    BY <1>1 DEF LogTypes, RingTypes, HistoryTypes, WriterTypes
  <2>3. /\ NumAccepted(c)' = last + 1 /\ accepted'[c][last + 1] = w.text
        /\ \A k \in 1 .. last : accepted'[c][k] = accepted[c][k]
        /\ NumPrinted(c)' = NumPrinted(c)
    <3>1. NumPrinted(c)' = NumPrinted(c)
      BY <1>1 DEF NumPrinted
    <3> HIDE DEF w
    <3> QED BY <1>2, <2>2, <3>1, AppendProperties DEF NumAccepted
  <2>4. /\ bytes + len < MemSize /\ Wrap(w.at) = Place(wr, len)
        /\ w.text # <<>> /\ \A i \in 1 .. Len(w.text) : w.text[i] = last + 1 /\ w.str[i] = w.text[i]
        /\ \/ len = Len(w.text) + 1 /\ w.str[Len(w.text) + 1] = Nul
           \/ /\ len = Len(w.text) + 2
              /\ w.str[Len(w.text) + 1] = NewLine /\ w.str[Len(w.text) + 2] = Nul
        /\ \A i \in 0 .. len - 1 : log_mem[c][Place(wr, i)] = w.str[i + 1]
    BY <1>1, <2>1 DEF WriterHolds
  <2>5. WriterHolds(c)'
    BY <2>2 DEF WriterHolds
  <2>6. LinesNumbered(c)'
    <3>1. ASSUME NEW k \in 1 .. last + 1
          PROVE  /\ accepted'[c][k] # <<>>
                 /\ \A i \in 1 .. Len(accepted'[c][k]) : accepted'[c][k][i] = k
      <4>1. CASE k \in 1 .. last
        BY <2>1, <2>3, <4>1 DEF LinesNumbered
      <4>2. CASE k = last + 1
        BY <2>3, <2>4, <4>2
      <4> QED BY <1>2, <4>1, <4>2
    <3>2. ASSUME NEW k \in 1 .. NumPrinted(c)  PROVE printed'[c][k] = accepted'[c][k]
      <4>1. k \in 1 .. last /\ printed[c][k] = accepted[c][k]
        BY <1>2, <2>1 DEF LinesNumbered
      <4> QED BY <1>1, <2>3, <4>1
    <3>3. NumPrinted(c)' <= NumAccepted(c)'
      BY <1>2, <2>1, <2>3 DEF LinesNumbered
    <3> QED BY <2>3, <3>1, <3>2, <3>3 DEF LinesNumbered
  <2> HIDE DEF w, len, wr, rd, bytes, last
  <2>7. /\ NumBytes(c)' = bytes + len
        /\ \A i \in 0 .. len - 1 : Unread(c, bytes + i) = w.str[i + 1]
    <3>1. Distance(rd, wr) + len < MemSize /\ Distance(rd, wr) = bytes
      BY <1>2, <2>4
    <3>2. /\ Distance(rd, Place(wr, len)) = bytes + len
          /\ \A i \in 0 .. len - 1 : Place(wr, i) = Place(rd, bytes + i)
      BY <1>2, <3>1, WriteIndexMoves
    <3>3. NumBytes(c)' = Distance(rd, Place(wr, len))
      BY <1>1, <2>2, <2>4 DEF NumBytes, Distance, rd
    <3> QED BY <2>4, <3>2, <3>3 DEF Unread, rd
  <2>8. RingHolds(c)'
    <3>1. PICK at \in Layouts : LiesAt(c, at) /\ (Reading(c) => ReadsAt(c, at))
      BY <2>1 DEF RingHolds
    <3> DEFINE P == NumPrinted(c)
    <3>2. PICK to \in Layouts : /\ to[last + 2] = bytes + len
                              /\ \A j \in Nat : j # last + 2 => to[j] = at[j]
      <4>1. last + 2 \in Nat /\ bytes + len \in Int
        BY <1>2
      <4> QED BY <4>1, LayoutGrows
    <3>3. /\ P \in Nat /\ P <= last /\ P' = P
          /\ Starts(c)' = P + 1 .. last + 2 /\ Starts(c) = P + 1 .. last + 1
          /\ Unprinted(c)' = P + 1 .. last + 1 /\ Unprinted(c) = P + 1 .. last
      BY <1>2, <2>1, <2>3 DEF Starts, Unprinted, LinesNumbered, last
    <3>4. /\ \/ at[P + 1] = 0
             \/ at[P + 1] = 1 /\ Unread(c, 0) = Nul
          /\ \A k \in P + 1 .. last + 1 :
               at[k] \in 0 .. bytes /\ \A j \in P + 1 .. last + 1 : j < k => at[j] <= at[k]
          /\ at[last + 1] = bytes
          /\ \A k \in P + 1 .. last : LineAt(c, k, at[k], at[k + 1])
      BY <3>1, <3>3 DEF LiesAt, last, bytes
    <3> HIDE DEF P
    <3>5. \A i \in Int : Unread(c, i)' = Unread(c, i)
      BY <1>1 DEF Unread
    <3>6. /\ \/ to[P + 1] = 0
             \/ to[P + 1] = 1 /\ Unread(c, 0)' = Nul
      BY <1>2, <3>2, <3>3, <3>4, <3>5
    <3>7. bytes \in Nat /\ len \in Nat /\ last \in Nat
      BY <1>2
    <3>8. \A j \in P + 1 .. last + 1 : to[j] = at[j]
      BY <3>2, <3>3, <3>7
    <3>9. ASSUME NEW k \in P + 1 .. last + 2
          PROVE  /\ to[k] \in 0 .. bytes + len
                 /\ \A j \in P + 1 .. last + 2 : j < k => to[j] <= to[k]
      <4>0. \A j \in P + 1 .. last + 1 : to[j] \in 0 .. bytes
        BY <3>4, <3>8
      <4>1. CASE k = last + 2
        <5>1. \A j \in P + 1 .. last + 2 : j < k => j \in P + 1 .. last + 1
          BY <3>3, <3>7, <4>1
        <5>2. to[k] = bytes + len
          BY <3>2, <4>1
        <5> QED BY <3>7, <4>0, <5>1, <5>2
      <4>2. CASE k # last + 2
        <5>1. k \in P + 1 .. last + 1 /\ \A j \in P + 1 .. last + 2 : j < k => j \in P + 1 .. last + 1
          BY <3>3, <3>7, <4>2
        <5>2. \A j \in P + 1 .. last + 1 : j < k => to[j] <= to[k]
          BY <3>4, <3>8, <5>1
        <5> QED BY <3>7, <4>0, <5>1, <5>2
      <4> QED BY <4>1, <4>2
    <3>10. ASSUME NEW k \in P + 1 .. last + 1
          PROVE  LineAt(c, k, to[k], to[k + 1])'
      <4>1. CASE k \in P + 1 .. last
        <5>1. to[k] = at[k] /\ to[k + 1] = at[k + 1] /\ accepted'[c][k] = accepted[c][k]
          BY <1>2, <2>3, <3>2, <3>3, <4>1
        <5>2. LineAt(c, k, at[k], at[k + 1])
          BY <3>4, <4>1
        <5>3. log_mem' = log_mem /\ log_rd_idx' = log_rd_idx
          BY <1>1
        <5> QED BY <5>1, <5>2, <5>3 DEF LineAt, Unread
      <4>2. CASE k = last + 1
        <5> DEFINE text == accepted'[c][k]
        <5>0. PICK n \in Nat, b \in Nat : n = Len(w.text) /\ b = bytes
          BY <1>2
        <5>1. to[k] = bytes /\ to[k + 1] = bytes + len /\ text = w.text /\ Len(text) = n
          <6>1. k \in P + 1 .. last + 1 /\ k + 1 = last + 2
            BY <3>3, <3>7, <4>2
          <6> QED BY <2>3, <3>2, <3>4, <3>8, <4>2, <5>0, <6>1
        <5>2. n \in Nat /\ (len = n + 1 \/ len = n + 2)
          BY <1>2, <2>4, <5>0
        <5>3. \A i \in 1 .. n : w.str[i] = last + 1
          BY <2>4, <5>0
        <5>4. \/ len = n + 1 /\ w.str[n + 1] = Nul
              \/ len = n + 2 /\ w.str[n + 1] = NewLine /\ w.str[n + 2] = Nul
          BY <2>4, <5>0
        <5>5. \A i \in 0 .. len - 1 : Unread(c, b + i)' = w.str[i + 1]
          BY <2>7, <3>5, <3>7, <5>0
        <5> HIDE DEF text
        <5>6. \A i \in 0 .. n - 1 : Unread(c, b + i)' = k
          <6> SUFFICES ASSUME NEW i \in 0 .. n - 1  PROVE Unread(c, b + i)' = k
            OBVIOUS
          <6>1. i + 1 \in 1 .. n /\ i \in 0 .. len - 1
            BY <3>7, <5>2
          <6> QED BY <4>2, <5>3, <5>5, <6>1
        <5>7. \/ len = n + 1 /\ Unread(c, b + n)' = Nul
              \/ /\ len = n + 2
                 /\ Unread(c, b + n)' = NewLine /\ Unread(c, b + (n + 1))' = Nul
          <6>1. CASE len = n + 1 /\ w.str[n + 1] = Nul
            <7>1. n \in 0 .. len - 1
              BY <5>2, <6>1
            <7> QED BY <5>5, <6>1, <7>1
          <6>2. CASE len = n + 2 /\ w.str[n + 1] = NewLine /\ w.str[n + 2] = Nul
            <7>1. n \in 0 .. len - 1 /\ n + 1 \in 0 .. len - 1 /\ (n + 1) + 1 = n + 2
              BY <5>2, <6>2
            <7> QED BY <5>5, <6>2, <7>1
          <6> QED BY <5>4, <6>1, <6>2
        <5>8. /\ b + (n + 1) = (b + n) + 1
              /\ len = n + 1 => bytes + len = b + n + 1
              /\ len = n + 2 => bytes + len = b + n + 2
          BY <3>7, <5>0, <5>2
        <5> QED BY <5>0, <5>1, <5>6, <5>7, <5>8 DEF LineAt, text
      <4> QED BY <1>2, <3>3, <4>1, <4>2
    <3>11. LiesAt(c, to)'
      <4>1. /\ to[last + 2] = bytes + len /\ NumBytes(c)' = bytes + len
            /\ NumAccepted(c)' + 1 = last + 2 /\ NumPrinted(c)' + 1 = P + 1
        BY <2>3, <2>7, <3>2, <3>7 DEF P
      <4> QED BY <3>3, <3>6, <3>9, <3>10, <4>1 DEF LiesAt
    <3>12. ASSUME Reading(c)'  PROVE ReadsAt(c, to)'
      <4>1. ReadsAt(c, at)
        BY <1>1, <3>1, <3>12 DEF Reading
      <4>2. to[P + 1] = at[P + 1] /\ (P + 1 \in P + 1 .. last => to[P + 2] = at[P + 2])
        BY <1>2, <3>2, <3>3
      <4>3. P + 1 \in P + 1 .. last => P + 1 \in P + 1 .. last + 1 /\ accepted'[c][P + 1] = accepted[c][P + 1]
        BY <1>2, <2>3, <3>3
      <4>4. P + 1 + 1 = P + 2
        BY <3>3
      <4>5. reader' = reader /\ log_rd_idx' = log_rd_idx
        BY <1>1
      <4> QED BY <3>3, <4>1, <4>2, <4>3, <4>4, <4>5 DEF ReadsAt, P
    <3> QED BY <3>2, <3>11, <3>12 DEF RingHolds, Layouts
  <2> QED BY <2>5, <2>6, <2>8
<1> QED BY <1>1, <1>3, <1>4 DEF LogHolds

(* The layout once the reader has given back m places. *)
LEMMA LayoutShifts ==
  ASSUME NEW at \in Layouts, NEW m \in Nat
  PROVE  \E to \in Layouts : \A j \in Nat : to[j] = at[j] - m
<1> DEFINE to == [j \in Nat |-> at[j] - m]
<1>1. to \in Layouts /\ \A j \in Nat : to[j] = at[j] - m
  BY DEF Layouts
<1> QED BY <1>1

LEMMA StoreLog ==
  ASSUME LogTypes, LogInv, NEW c \in Cpu, Store
  PROVE  OffIsEmpty(c)' /\ LogHolds(c)'
<1> USE MemSizeAssumption
<1>1. /\ OffIsEmpty(c) /\ LogHolds(c) /\ reader.pc = "store"
      /\ log_rd_idx' = [log_rd_idx EXCEPT ![reader.cpu] = reader.rd]
      /\ printed' = IF reader.buf = <<>> THEN printed
                    ELSE [printed EXCEPT ![reader.cpu] = Append(@, reader.buf)]
      /\ UNCHANGED <<log_wr_idx, log_area_is_valid, log_mem, phase, writer, accepted, filled>>
  BY DEF Store, LogInv, syncVars
<1>2. reader'.pc = "look" /\ ~Reading(c)'
  BY DEF Store, Off, Reading
<1>3. CASE reader.cpu # c
  <2>1. SameLog(c)
    BY <1>1, <1>2, <1>3 DEF SameLog, LogTypes, RingTypes, HistoryTypes
  <2> QED BY <1>1, <1>2, <2>1, OthersKept
<1>4. CASE reader.cpu = c
  <2>1. Reading(c) /\ phase[c] # "off" /\ OffIsEmpty(c)'
    BY <1>1, <1>2, <1>4 DEF Reading, OffIsEmpty
  <2>2. ASSUME ~filled[c]  PROVE LinesNumbered(c)' /\ RingHolds(c)' /\ WriterHolds(c)'
    <3> DEFINE rd == log_rd_idx[c]
               bytes == NumBytes(c)
               last == NumAccepted(c)
               P == NumPrinted(c)
    <3>1. LinesNumbered(c) /\ RingHolds(c) /\ WriterHolds(c)
      BY <1>1, <2>2 DEF LogHolds
    <3>2. /\ rd \in 0 .. MemSize /\ log_wr_idx[c] \in 0 .. MemSize - 1
          /\ bytes = Distance(rd, log_wr_idx[c]) /\ bytes \in 0 .. MemSize - 1
          /\ reader.rd \in 0 .. MemSize /\ reader.buf \in Seq(1 .. MaxLines)
          /\ last \in Nat /\ P \in Nat /\ P <= last
          /\ printed[c] \in Seq(Seq(1 .. MaxLines)) /\ accepted[c] \in Seq(Seq(1 .. MaxLines))
      BY <3>1, TypesOf DEF LogTypes, ReaderTypes, LinesNumbered
    <3>3. /\ log_rd_idx'[c] = reader.rd
          /\ printed'[c] = IF reader.buf = <<>> THEN printed[c] ELSE Append(printed[c], reader.buf)
          /\ NumAccepted(c)' = last
      BY <1>1, <1>4 DEF LogTypes, RingTypes, HistoryTypes, NumAccepted
    <3>4. PICK at \in Layouts : LiesAt(c, at) /\ ReadsAt(c, at)
      BY <2>1, <3>1 DEF RingHolds
    <3>5. /\ \A k \in P + 1 .. last + 1 :
               at[k] \in 0 .. bytes /\ \A j \in P + 1 .. last + 1 : j < k => at[j] <= at[k]
          /\ at[last + 1] = bytes
          /\ \A k \in P + 1 .. last : LineAt(c, k, at[k], at[k + 1])
      BY <3>4 DEF LiesAt, Starts, Unprinted
    <3> DEFINE Gives(m, p) ==
                 /\ m \in 0 .. bytes /\ p \in {P, P + 1} /\ p <= last
                 /\ Wrap(reader.rd) = Place(rd, m)
                 /\ at[p + 1] = m \/ (at[p + 1] = m + 1 /\ Unread(c, m) = Nul)
                 /\ IF p = P THEN reader.buf = <<>>
                             ELSE reader.buf # <<>> /\ reader.buf = accepted[c][p]
    (* What is given back: the terminator that was left, or the line up to its newline. *)
    <3>6. \E m, p \in Nat : Gives(m, p)
      <4>1. CASE at[P + 1] = 1
        <5>1. reader.buf = <<>> /\ Wrap(reader.rd) = Place(rd, 1)
          BY <1>1, <3>4, <4>1 DEF ReadsAt
        <5>2. at[P + 1] \in 0 .. bytes
          <6>1. P + 1 \in P + 1 .. last + 1
            BY <3>2
          <6> QED BY <3>5, <6>1
        <5>3. 1 \in 0 .. bytes
          BY <3>2, <4>1, <5>2
        <5>4. Gives(1, P)
          BY <3>2, <4>1, <5>1, <5>3
        <5> HIDE DEF Gives
        <5> QED BY <3>2, <5>4
      <4>2. CASE at[P + 1] = 0
        <5> DEFINE k == P + 1
                   n == Len(accepted[c][k])
        <5>1. /\ k \in Unprinted(c) /\ Len(reader.buf) = n
              /\ \A i \in 1 .. n : reader.buf[i] = k
              /\ Wrap(reader.rd) = Place(rd, n + 1)
          BY <1>1, <3>4, <4>2 DEF ReadsAt
        <5>2. /\ n \in Nat /\ at[k + 1] \in 0 .. bytes /\ at[k + 1] >= n + 1
              /\ LineAt(c, k, 0, at[k + 1]) /\ k \in 1 .. last
          BY <3>4, <4>2, <5>1, LineIsThere
        <5>3. accepted[c][k] # <<>> /\ \A i \in 1 .. n : accepted[c][k][i] = k
          BY <3>1, <5>2 DEF LinesNumbered
        <5>4. reader.buf = accepted[c][k] /\ reader.buf # <<>>
          <6>1. accepted[c][k] \in Seq(1 .. MaxLines)
            BY <3>2, <5>2, ElementOfSeq DEF NumAccepted
          <6>2. \A i \in 1 .. Len(reader.buf) : reader.buf[i] = accepted[c][k][i]
            BY <5>1, <5>3
          <6> HIDE DEF k
          <6>3. reader.buf = accepted[c][k]
            BY <3>2, <5>1, <6>1, <6>2, SeqEqual
          <6> QED BY <5>3, <6>3
        <5>5. at[k + 1] = n + 1 \/ (at[k + 1] = n + 2 /\ Unread(c, n + 1) = Nul)
          BY <5>2 DEF LineAt
        <5> DEFINE m == n + 1
        <5>6. m \in Nat /\ m \in 0 .. bytes /\ m + 1 = n + 2
          <6>1. n \in Nat /\ bytes \in Nat /\ \E end \in 0 .. bytes : end >= n + 1
            BY <3>2, <5>2
          <6> HIDE DEF n, bytes
          <6> QED BY <6>1
        <5>7. k \in {P, P + 1} /\ k <= last /\ k # P /\ k \in Nat
          BY <3>2, <5>2
        <5>8. Gives(m, k)
          BY <5>1, <5>4, <5>5, <5>6, <5>7
        <5> HIDE DEF Gives, m, k
        <5> QED BY <5>6, <5>7, <5>8
      <4> QED BY <3>4, <4>1, <4>2 DEF LiesAt
    <3>7. PICK m \in Nat, p \in Nat : Gives(m, p)
      <4> HIDE DEF Gives
      <4> QED BY <3>6
    <3> HIDE DEF rd, bytes, last
    <3>8. NumPrinted(c)' = p
      <4>1. CASE p = P
        BY <3>3, <3>7, <4>1 DEF NumPrinted
      <4>2. CASE p # P
        BY <3>2, <3>3, <3>7, <4>2, AppendProperties DEF NumPrinted
      <4> QED BY <4>1, <4>2
    <3>9. LinesNumbered(c)'
      <4>1. ASSUME NEW k \in 1 .. p  PROVE printed'[c][k] = accepted[c][k]
        <5>1. CASE p = P
          BY <3>1, <3>3, <3>7, <5>1 DEF LinesNumbered
        <5>2. CASE p = P + 1 /\ k # p
          <6>1. k \in 1 .. P /\ p # P
            BY <3>2, <5>2
          <6>2. printed'[c][k] = printed[c][k]
            BY <3>2, <3>3, <3>7, <6>1, AppendProperties DEF NumPrinted
          <6> QED BY <3>1, <6>1, <6>2 DEF LinesNumbered
        <5>3. CASE p = P + 1 /\ k = p
          <6>1. p # P
            BY <3>2, <5>3
          <6>2. printed'[c][k] = reader.buf
            BY <3>2, <3>3, <3>7, <5>3, <6>1, AppendProperties DEF NumPrinted
          <6> QED BY <3>7, <5>3, <6>1, <6>2
        <5> QED BY <3>7, <5>1, <5>2, <5>3
      <4>2. accepted' = accepted
        BY <1>1
      <4> QED BY <3>1, <3>3, <3>7, <3>8, <4>1, <4>2 DEF LinesNumbered, last
    <3>10. /\ NumBytes(c)' = bytes - m
           /\ \A i \in 0 .. MemSize - 1 - m : Unread(c, i)' = Unread(c, m + i)
      <4>1. m \in 0 .. Distance(rd, log_wr_idx[c])
        BY <3>2, <3>7
      <4>2. /\ Distance(reader.rd, log_wr_idx[c]) = bytes - m
            /\ \A i \in 0 .. MemSize - 1 - m : Place(reader.rd, i) = Place(rd, m + i)
        BY <3>2, <3>7, <4>1, ReadIndexMoves
      <4>3. NumBytes(c)' = Distance(reader.rd, log_wr_idx[c])
        BY <1>1, <3>3 DEF NumBytes, Distance
      <4> QED BY <1>1, <3>3, <4>2, <4>3 DEF Unread, rd
    <3>11. WriterHolds(c)'
      <4>1. NumBytes(c)' <= bytes /\ NumBytes(c)' \in Int /\ bytes \in Int
        BY <3>2, <3>7, <3>10
      <4>2. /\ NumAccepted(c)' = NumAccepted(c) /\ writer' = writer /\ log_mem' = log_mem
            /\ log_wr_idx' = log_wr_idx
        BY <1>1, <3>3 DEF last
      <4>3. Len(writer[c].str) \in Nat
        BY TypesOf
      <4>4. bytes + Len(writer[c].str) < MemSize => NumBytes(c)' + Len(writer[c].str) < MemSize
        BY <4>1, <4>3
      <4> QED BY <3>1, <4>2, <4>4 DEF WriterHolds, bytes
    <3>12. RingHolds(c)'
      <4>1. PICK to \in Layouts : \A j \in Nat : to[j] = at[j] - m
        BY LayoutShifts
      <4>2. /\ Starts(c)' = p + 1 .. last + 1 /\ Unprinted(c)' = p + 1 .. last
            /\ p + 1 .. last + 1 \subseteq P + 1 .. last + 1 /\ p + 1 .. last \subseteq P + 1 .. last
            /\ p + 1 .. last + 1 \subseteq Nat
        BY <3>2, <3>3, <3>7, <3>8 DEF Starts, Unprinted
      <4> HIDE DEF P
      <4>3. bytes \in Nat /\ m \in Nat /\ m <= bytes /\ bytes < MemSize
        BY <3>2, <3>7
      <4>4. \A k \in p + 1 .. last + 1 : at[k] \in m .. bytes
        <5> SUFFICES ASSUME NEW k \in p + 1 .. last + 1  PROVE at[k] \in m .. bytes
          OBVIOUS
        <5>1. at[k] \in 0 .. bytes /\ (p + 1 < k => at[p + 1] <= at[k])
          <6>1. p + 1 \in p + 1 .. last + 1
            BY <3>2, <3>7
          <6> QED BY <3>5, <4>2, <6>1
        <5>2. at[p + 1] \in Int /\ at[p + 1] >= m
          BY <3>7, <4>3
        <5>3. p + 1 = k \/ p + 1 < k
          BY <3>2
        <5> QED BY <4>3, <5>1, <5>2, <5>3
      <4>5. \/ to[p + 1] = 0
            \/ to[p + 1] = 1 /\ Unread(c, 0)' = Nul
        <5>1. to[p + 1] = at[p + 1] - m
          BY <4>1
        <5>2. CASE at[p + 1] = m
          BY <5>1, <5>2
        <5>3. CASE at[p + 1] = m + 1 /\ Unread(c, m) = Nul
          <6>1. 0 \in 0 .. MemSize - 1 - m
            BY <4>3
          <6>2. Unread(c, 0)' = Unread(c, m + 0)
            BY <3>10, <6>1
          <6>3. m + 0 = m
            OBVIOUS
          <6> QED BY <5>1, <5>3, <6>2, <6>3
        <5> QED BY <3>7, <5>2, <5>3
      <4>6. ASSUME NEW k \in p + 1 .. last + 1
            PROVE  /\ to[k] \in 0 .. bytes - m
                   /\ \A j \in p + 1 .. last + 1 : j < k => to[j] <= to[k]
        <5>1. to[k] = at[k] - m /\ \A j \in p + 1 .. last + 1 : to[j] = at[j] - m
          BY <4>1, <4>2
        <5>2. \A j \in p + 1 .. last + 1 : j < k => at[j] <= at[k]
          BY <3>5, <4>2
        <5> QED BY <4>3, <4>4, <5>1, <5>2
      <4>7. to[last + 1] = bytes - m
        BY <3>2, <3>5, <4>1
      <4>8. ASSUME NEW k \in p + 1 .. last  PROVE LineAt(c, k, to[k], to[k + 1])'
        <5>1. k \in Nat /\ k + 1 \in Nat /\ k + 1 \in p + 1 .. last + 1 /\ k \in p + 1 .. last + 1
          BY <3>2
        <5>2. PICK n \in Nat, a \in Nat, b \in Nat :
                /\ n = Len(accepted[c][k]) /\ a = at[k] - m /\ b = at[k + 1] - m
                /\ b >= a + n + 1 /\ b + m <= bytes
          <6>1. /\ Len(accepted[c][k]) \in Nat
                /\ at[k + 1] >= at[k] + Len(accepted[c][k]) + 1
            BY <3>4, <4>2, LineIsThere DEF Unprinted, P, last
          <6>2. at[k] \in m .. bytes /\ at[k + 1] \in m .. bytes
            BY <4>4, <5>1
          <6>3. at[k] - m \in Nat /\ at[k + 1] - m \in Nat
            BY <4>3, <6>2
          <6>4. /\ at[k + 1] - m >= (at[k] - m) + Len(accepted[c][k]) + 1
                /\ (at[k + 1] - m) + m <= bytes
            <7> DEFINE len == Len(accepted[c][k])
                       from == at[k]
                       end == at[k + 1]
            <7>1. len \in Nat /\ from \in m .. bytes /\ end \in m .. bytes /\ end >= from + len + 1
              BY <6>1, <6>2
            <7> HIDE DEF len, from, end
            <7>2. end - m >= (from - m) + len + 1 /\ (end - m) + m <= bytes
              BY <4>3, <7>1
            <7> QED BY <7>2 DEF len, from, end
          <6> QED BY <6>1, <6>3, <6>4
        <5>3. LineAt(c, k, at[k], at[k + 1])
          BY <3>5, <4>2
        <5>4. b >= a + n + 1
          BY <5>2
        <5>5. at[k] = a + m /\ at[k + 1] = b + m /\ to[k] = a /\ to[k + 1] = b
          <6>1. at[k] \in Int /\ at[k + 1] \in Int
            BY <5>1 DEF Layouts
          <6> QED BY <4>1, <5>1, <5>2, <6>1
        <5>6. \A i \in 0 .. b - 1 : Unread(c, i)' = Unread(c, i + m)
          <6> SUFFICES ASSUME NEW i \in 0 .. b - 1  PROVE Unread(c, i)' = Unread(c, i + m)
            OBVIOUS
          <6>1. i \in 0 .. MemSize - 1 - m /\ i + m = m + i
            BY <4>3, <5>2
          <6> QED BY <3>10, <6>1
        <5>7. \A i \in 0 .. n - 1 : Unread(c, a + i)' = k
          <6> SUFFICES ASSUME NEW i \in 0 .. n - 1  PROVE Unread(c, a + i)' = k
            OBVIOUS
          <6>1. a + i \in 0 .. b - 1 /\ (a + i) + m = (a + m) + i
            BY <5>4
          <6>2. Unread(c, (a + m) + i) = k
            BY <5>2, <5>3, <5>5 DEF LineAt
          <6> QED BY <5>6, <6>1, <6>2
        <5>8. \/ b = a + n + 1 /\ Unread(c, a + n)' = Nul
              \/ b = a + n + 2 /\ Unread(c, a + n)' = NewLine /\ Unread(c, a + n + 1)' = Nul
          <6>1. CASE b + m = (a + m) + n + 1 /\ Unread(c, (a + m) + n) = Nul
            <7>1. a + n \in 0 .. b - 1 /\ (a + n) + m = (a + m) + n /\ b = a + n + 1
              BY <5>4, <6>1
            <7> QED BY <5>6, <6>1, <7>1
          <6>2. CASE /\ b + m = (a + m) + n + 2 /\ Unread(c, (a + m) + n) = NewLine
                     /\ Unread(c, (a + m) + n + 1) = Nul
            <7>1. /\ a + n \in 0 .. b - 1 /\ (a + n) + m = (a + m) + n
                  /\ a + n + 1 \in 0 .. b - 1 /\ (a + n + 1) + m = (a + m) + n + 1 /\ b = a + n + 2
              BY <5>4, <6>2
            <7> QED BY <5>6, <6>2, <7>1
          <6> QED BY <5>2, <5>3, <5>5, <6>1, <6>2 DEF LineAt
        <5>9. accepted' = accepted
          BY <1>1
        <5> QED BY <5>2, <5>5, <5>7, <5>8, <5>9 DEF LineAt
      <4>9. LiesAt(c, to)'
        <5>1. NumAccepted(c)' + 1 = last + 1 /\ NumPrinted(c)' + 1 = p + 1
          BY <3>3, <3>8
        <5> QED BY <3>10, <4>2, <4>5, <4>6, <4>7, <4>8, <5>1 DEF LiesAt
      <4> QED BY <1>2, <4>9 DEF RingHolds, Layouts
    <3> QED BY <3>9, <3>11, <3>12
  <2> QED BY <1>1, <2>1, <2>2 DEF LogHolds
<1> QED BY <1>3, <1>4

(* The handshake and the logs have the phase in common, and nobody goes back to "off". *)
LEMMA SyncStepLog ==
  ASSUME SyncInv, LogInv, NEW c \in Cpu, NEW d \in Cpu, SyncStep(d)
  PROVE  OffIsEmpty(c)' /\ LogHolds(c)'
<1>1. phase'[c] = "off" <=> phase[c] = "off"
  <2>1. \E e \in Cpu, to \in {"booted", "test", "poll", "start", "init", "wait_test",
                              "confirm", "wait_run", "up"} :
          phase' = [phase EXCEPT ![e] = to] /\ phase[e] # "off"
    BY CpuIsMasterOrSlave DEF SyncStep, BeginSync, MasterTest, MasterPoll, MasterStart, NextPeer,
       SlaveInit, SlaveTested, SlaveConfirm, SlaveRuns, Move
  <2>2. phase \in [Cpu -> MasterPhases \cup SlavePhases]
    BY DEF SyncInv, SyncTypes
  <2> QED BY <2>1, <2>2
<1>2. OffIsEmpty(c) /\ LogHolds(c)
  BY DEF LogInv
<1>3. SameLog(c) /\ UNCHANGED <<log_area_is_valid, writer, filled, reader>>
  BY DEF SyncStep, SameLog, ringVars, Reading
<1> QED BY <1>1, <1>2, <1>3, OthersKept

(* A step of the writer of one CPU is not seen in the logs of the others. *)
LEMMA OtherWriters ==
  ASSUME LogTypes, SyncInv, LogInv, NEW c \in Cpu, NEW d \in Cpu, c # d,
         WrInit(d) \/ Writes(d) \/ PutString(d)
  PROVE  OffIsEmpty(c)' /\ LogHolds(c)'
<1>1. OffIsEmpty(c) /\ LogHolds(c) /\ phase \in [Cpu -> MasterPhases \cup SlavePhases]
      /\ log_area_is_valid \in [Cpu -> BOOLEAN]
  BY DEF LogInv, SyncInv, SyncTypes
<1>2. /\ SameLog(c) /\ writer'[c] = writer[c] /\ filled'[c] = filled[c]
      /\ phase'[c] = phase[c] /\ log_area_is_valid'[c] = log_area_is_valid[c] /\ reader' = reader
  <2> USE DEF SameLog, Reading, ringVars, syncVars, LogTypes, RingTypes, HistoryTypes, WriterTypes
  <2>1. CASE WrInit(d)
    BY <1>1, <2>1 DEF WrInit
  <2>2. CASE CopyChar(d)
    BY <2>2 DEF CopyChar
  <2>3. CASE Publish(d)
    BY <2>3 DEF Publish
  <2>4. CASE PutString(d)
    <3>1. PICK str \in Seq(Char), text \in Seq(1 .. MaxLines) :
            /\ writer' = [writer EXCEPT ![d] =
                 [str |-> str, text |-> text, done |-> 0, at |-> Wrap(log_wr_idx[d])]]
            /\ filled' = [filled EXCEPT ![d] = @ \/ Len(str) = MaxBytes(d)]
      BY <2>4, PutStringIs
    <3>2. UNCHANGED <<ringVars, syncVars, reader, accepted, printed>>
      BY <2>4 DEF PutString
    <3> QED BY <3>1, <3>2
  <2> QED BY <2>1, <2>2, <2>3, <2>4 DEF Writes
<1> QED BY <1>1, <1>2, OthersKept

LEMMA LogInvStep ==
  ASSUME SyncInv, LogTypes, LogInv, [Next]_vars
  PROVE  LogInv'
<1> SUFFICES ASSUME NEW c \in Cpu  PROVE OffIsEmpty(c)' /\ LogHolds(c)'
  BY DEF LogInv
<1>1. CASE UNCHANGED vars
  <2>1. OffIsEmpty(c) /\ LogHolds(c)
    BY DEF LogInv
  <2>2. SameLog(c) /\ UNCHANGED <<writer, filled, phase, log_area_is_valid, reader>>
    BY <1>1 DEF vars, ringVars, syncVars, SameLog, Reading
  <2> QED BY <2>1, <2>2, OthersKept
<1>2. ASSUME NEW d \in Cpu, WrInit(d)  PROVE OffIsEmpty(c)' /\ LogHolds(c)'
  BY <1>2, WrInitLog, OtherWriters
<1>3. ASSUME NEW d \in Cpu, Writes(d)  PROVE OffIsEmpty(c)' /\ LogHolds(c)'
  <2>1. CASE c = d
    BY <1>3, <2>1, CopyCharLog, PublishLog DEF Writes
  <2>2. CASE c # d
    BY <1>3, <2>2, OtherWriters
  <2> QED BY <2>1, <2>2
<1>4. ASSUME NEW d \in Logger, PutString(d)  PROVE OffIsEmpty(c)' /\ LogHolds(c)'
  <2>1. d \in Cpu
    BY LoggerAssumption DEF Cpu
  <2> QED BY <1>4, <2>1, PutStringStep, OtherWriters
<1>5. ASSUME NEW d \in Cpu, SyncStep(d)  PROVE OffIsEmpty(c)' /\ LogHolds(c)'
  BY <1>5, SyncStepLog
<1>6. CASE RdInit
  BY <1>6, RdInitLog
<1>7. CASE Reads
  BY <1>7, LookLog, ReadCharLog, StoreLog DEF Reads
<1> QED BY <1>1, <1>2, <1>3, <1>4, <1>5, <1>6, <1>7 DEF Next

-----------------------------------------------------------------------------
(* What holds of every behaviour                                           *)

Inductive == SyncInv /\ LogTypes /\ LogInv

LEMMA InductiveAlways == Spec => []Inductive
<1>1. Init => Inductive
  BY InitSync, LogTypesInit, LogInit DEF Inductive
<1>2. Inductive /\ [Next]_vars => Inductive'
  BY SyncInductive, LogTypesStep, LogInvStep DEF Inductive
<1> QED BY <1>1, <1>2, PTL DEF Spec

(* The two indices of every ring stay in it, for every size of the ring and every *)
(* length of a line (app_log_writer.c:67-131, app_log_reader.c:162-260).          *)
THEOREM TypeCorrect == Spec => []TypeOK
<1>1. SyncInv /\ LogTypes => TypeOK
  <2> SUFFICES ASSUME SyncInv, LogTypes  PROVE TypeOK
    OBVIOUS
  <2>1. /\ log_rd_idx \in [Cpu -> 0 .. MemSize] /\ log_wr_idx \in [Cpu -> 0 .. MemSize - 1]
        /\ log_mem \in [Cpu -> [0 .. MemSize - 1 -> NewLine .. MaxLines]]
    BY DEF LogTypes, RingTypes, Char
  <2>2. /\ log_area_is_valid \in [Cpu -> BOOLEAN] /\ log_cpu_sync_state \in [Cpu -> Invalid .. Run]
        /\ phase \in [Cpu -> {"off", "booted", "test", "poll", "start", "init",
                              "wait_test", "confirm", "wait_run", "up"}]
        /\ peer \in Cpu
    <3>1. MasterPhases \cup SlavePhases =
            {"off", "booted", "test", "poll", "start", "init",
             "wait_test", "confirm", "wait_run", "up"}
      BY DEF MasterPhases, SlavePhases
    <3> QED BY <3>1 DEF SyncInv, SyncTypes
  <2>3. \A c \in Cpu : /\ writer[c].str \in Seq(NewLine .. MaxLines)
                       /\ writer[c].done \in 0 .. Len(writer[c].str)
                       /\ writer[c].at \in 0 .. MemSize
    BY DEF LogTypes, WriterTypes, Char
  <2>4. /\ reader.pc \in {"off", "look", "read", "store"} /\ reader.cpu \in Cpu
        /\ reader.rd \in 0 .. MemSize /\ reader.left \in 0 .. MemSize
        /\ reader.buf \in Seq(1 .. MaxLines)
    BY DEF LogTypes, ReaderTypes
  <2> QED BY <2>1, <2>2, <2>3, <2>4 DEF TypeOK
<1> QED BY <1>1, InductiveAlways, PTL DEF Inductive

(* As many lines printed as are a beginning of those accepted. *)
LEMMA NumberedIsPrefix ==
  ASSUME LogTypes, NEW c \in Cpu, LinesNumbered(c)
  PROVE  IsPrefix(printed[c], accepted[c])
<1> DEFINE p == printed[c]
           a == accepted[c]
<1>1. p \in Seq(Seq(1 .. MaxLines)) /\ a \in Seq(Seq(1 .. MaxLines))
  BY TypesOf
<1>2. Len(p) <= Len(a) /\ \A k \in 1 .. Len(p) : p[k] = a[k]
  BY DEF LinesNumbered, NumPrinted, NumAccepted
<1> HIDE DEF p, a
<1>3. IsPrefix(p, a)
  <2>1. SubSeq(a, 1, Len(p)) \in Seq(Seq(1 .. MaxLines)) /\ Len(SubSeq(a, 1, Len(p))) = Len(p)
        /\ \A k \in 1 .. Len(p) : SubSeq(a, 1, Len(p))[k] = a[k]
    BY <1>1, <1>2, SubSeqProperties
  <2> QED BY <1>1, <1>2, <2>1, SeqEqual DEF IsPrefix
<1> QED BY <1>3 DEF p, a

(* What is printed for a CPU are its lines, whole, each once and in the order they *)
(* were written, as long as none has filled the ring to its last place             *)
(* (app_log_writer.c:67-131, app_log_reader.c:162-260).                            *)
THEOREM PrintedInOrderAlways == Spec => []PrintedInOrder
<1>1. LogTypes /\ LogInv => PrintedInOrder
  BY NumberedIsPrefix DEF LogInv, LogHolds, PrintedInOrder
<1> QED BY <1>1, InductiveAlways, PTL DEF Inductive
=============================================================================

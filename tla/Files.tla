------------------------------- MODULE Files --------------------------------
(***************************************************************************)
(* Descriptors and what is behind them in HEROS: the system calls open,    *)
(* close, read and write (sys_call.c), the descriptor array of each task   *)
(* and the operations of files, directories, the RTC and the sound card    *)
(* (file_sys.c), the virtual clocks that all tasks share (rtc.c), and      *)
(* whether the one sound card is taken (sound_card.c).                     *)
(*                                                                         *)
(* These calls run with interrupts on. What a call does to its own task's  *)
(* PCB nobody else sees, so an action goes on until the next access to     *)
(* something shared: a virtual clock or dsp_status. pc[t] says where task  *)
(* t is. halt runs with interrupts off and is one action. An open that     *)
(* fails is a step of its own, as sys_open then decides what to count; a   *)
(* read or a write that fails changes nothing and is left out.             *)
(*                                                                         *)
(* fault = "no_clock": a clock was used through rtc_id -1, which indexes   *)
(* the word before the array; the model stops there.                       *)
(***************************************************************************)
EXTENDS Disk, FiniteSetsExt, SequencesExt

CONSTANTS
  Task,
  NFile,     (* N_FILE_LIMIT                                               *)
  NClk,      (* MAX_CLK: the clocks of programs, and that of the screen    *)
  BaseFreq,  (* interrupts of the RTC per second, 1024                     *)
  Freqs,     (* what programs write to an RTC descriptor                   *)
  NameLimit, (* F_NAME_LIMIT: the characters of a name in the directory    *)
  Opens,     (* Opens[t]: the names that task t tries to open              *)
  Asks       (* the sizes that programs read                               *)

Fd    == 0 .. NFile - 1
Clock == 0 .. NClk - 1
Audio == "audio"

ASSUME TaskAssumption == IsFiniteSet(Task)
ASSUME LimitAssumption == NFile \in Nat /\ NFile > 2 /\ NClk \in Nat \ {0}
ASSUME FreqAssumption == BaseFreq \in Nat \ {0} /\ Freqs \subseteq Nat
ASSUME OpensAssumption ==
  Opens \in [Task -> SUBSET (Name \cup {Audio})] /\ Asks \subseteq Nat
ASSUME NameAssumption == NameLimit \in Nat

VARIABLES
  files, n_opend_files, rtc_id,   \* of each PCB
  virtual_ctr, ticks,             \* rtc.c; ticks stops at 0
  dsp_status,                     \* sound_card.c
  pc, arg,                        \* where a task is, and in a call on what
  seen,    \* what was read through each descriptor since it was opened
  fault

pcbVars == <<files, n_opend_files, rtc_id>>
clkVars == <<virtual_ctr, ticks>>
vars == <<pcbVars, clkVars, dsp_status, pc, arg, seen, fault>>

Up == fault = "none"

Calls(t) == Up /\ pc[t] = "user"

(* A descriptor that is AVAILABLE: nothing reads its other fields.         *)
Closed == [f_op |-> "none", inode |-> 0, f_pos |-> 0]
Std(pos) == [f_op |-> "terminal", inode |-> pos, f_pos |-> pos]

InitFileArr == [fd \in Fd |-> IF fd < 2 THEN Std(fd) ELSE Closed]

Open(t) == {fd \in Fd : files[t][fd] # Closed}
Uses(t, op) == {fd \in Fd : files[t][fd].f_op = op}
-----------------------------------------------------------------------------
(* sys_open *)

Room(t) == n_opend_files[t] < NFile

Opening(t, nm) == Calls(t) /\ Room(t) /\ nm \in Opens[t]

OpeningEntry(t, nm, type) ==
  /\ Opening(t, nm) /\ nm # Audio
  /\ Found(nm) /\ Lookup(nm).f_type = type

(* allocate_fd; NFile, one past the array, when no descriptor is free. The *)
(* test of the count in sys_open is what keeps that from happening.        *)
AllocateFd(t) ==
  IF Fd \ Open(t) = {} THEN NFile ELSE Min(Fd \ Open(t))

(* The end of every open: the descriptor is filled in and counted.         *)
Populate(t, op, inode) ==
  IF AllocateFd(t) \in Fd
  THEN /\ files' = [files EXCEPT ![t][AllocateFd(t)] =
                      [f_op |-> op, inode |-> inode, f_pos |-> 0]]
       /\ n_opend_files' = [n_opend_files EXCEPT ![t] = @ + 1]
       /\ seen' = [seen EXCEPT ![t][AllocateFd(t)] = << >>]
       /\ UNCHANGED fault
  ELSE fault' = "past_array" /\ UNCHANGED <<files, n_opend_files, seen>>

(* Mutant: sys_open counts whatever the operation returned.                *)
FailedCounted(t) ==
  /\ n_opend_files' = [n_opend_files EXCEPT ![t] = @ + 1]
  /\ UNCHANGED <<files, seen, fault>>

(* The end of an open that returned -1: nothing is counted.                *)
Failed(t) == UNCHANGED <<files, n_opend_files, seen, fault>>

OpenFile(t, nm) ==
  /\ OpeningEntry(t, nm, "file")
  /\ Populate(t, "file", Lookup(nm).inode)
  /\ UNCHANGED <<rtc_id, clkVars, dsp_status, pc, arg>>

OpenDir(t, nm) ==
  /\ OpeningEntry(t, nm, "dir")
  /\ Populate(t, "dir", 0)
  /\ UNCHANGED <<rtc_id, clkVars, dsp_status, pc, arg>>

(* rtc_open: a task without a clock looks for one that is free ...         *)
FreeClocks == {i \in Clock : virtual_ctr[i] = -1}

RtcFind(t, nm) ==
  /\ OpeningEntry(t, nm, "rtc")
  /\ IF rtc_id[t] = -1
     THEN /\ FreeClocks # {}
          /\ rtc_id' = [rtc_id EXCEPT ![t] = Min(FreeClocks)]
     ELSE UNCHANGED rtc_id
  /\ pc' = [pc EXCEPT ![t] = "clock"]
  /\ UNCHANGED <<files, n_opend_files, clkVars, dsp_status, arg, seen, fault>>

(* ... and takes it, or sets the one it has back to the full rate.         *)
RtcTake(t) ==
  /\ Up /\ pc[t] = "clock"
  /\ virtual_ctr' = [virtual_ctr EXCEPT ![rtc_id[t]] = 1]
  /\ pc' = [pc EXCEPT ![t] = "user"]
  /\ Populate(t, "rtc", 0)
  /\ UNCHANGED <<rtc_id, ticks, dsp_status, arg>>

(* audio_open: the card must be off; it is reset, which may fail, and      *)
(* marked as taken with interrupts off.                                    *)
AudioCheck(t) ==
  /\ Opening(t, Audio) /\ dsp_status = "off"
  /\ pc' = [pc EXCEPT ![t] = "card"]
  /\ UNCHANGED <<pcbVars, clkVars, dsp_status, arg, seen, fault>>

AudioReset(t) ==
  /\ Up /\ pc[t] = "card"
  /\ pc' = [pc EXCEPT ![t] = "user"]
  /\ \/ dsp_status' = "on" /\ Populate(t, Audio, 0)
     \/ UNCHANGED dsp_status /\ Failed(t)
  /\ UNCHANGED <<rtc_id, clkVars, arg>>

(* What fails before it touches a device: a name that no entry has, a      *)
(* clock when all are taken, the card while it is on.                      *)
OpenFails(t, nm) ==
  /\ Opening(t, nm)
  /\ \/ nm = Audio /\ dsp_status = "on"
     \/ nm # Audio /\ ~Found(nm)
     \/ OpeningEntry(t, nm, "rtc") /\ rtc_id[t] = -1 /\ FreeClocks = {}
  /\ Failed(t)
  /\ UNCHANGED <<rtc_id, clkVars, dsp_status, pc, arg>>
-----------------------------------------------------------------------------
(* sys_close *)

Release(t, fds) ==
  /\ files' = [files EXCEPT ![t] = [fd \in Fd |->
                 IF fd \in fds THEN Closed ELSE @[fd]]]
  /\ n_opend_files' = [n_opend_files EXCEPT ![t] = @ - Cardinality(fds)]
  /\ seen' = [seen EXCEPT ![t] = [fd \in Fd |->
                IF fd \in fds THEN << >> ELSE @[fd]]]

(* Files and directories have nothing to close.                            *)
Close(t, fd) ==
  /\ Calls(t) /\ files[t][fd].f_op \in {"file", "dir"}
  /\ Release(t, {fd})
  /\ UNCHANGED <<rtc_id, clkVars, dsp_status, pc, arg, fault>>

(* rtc_close frees the clock of the task, whichever of its descriptors is  *)
(* closed: the next one has no clock to free.                              *)
FreeClock(t) ==
  /\ virtual_ctr' = [virtual_ctr EXCEPT ![rtc_id[t]] = -1]
  /\ rtc_id' = [rtc_id EXCEPT ![t] = -1]
  /\ UNCHANGED fault

(* Mutant: rtc_close forgets the clock but does not free it.               *)
ForgetClock(t, fds) ==
  IF fds = {} THEN UNCHANGED <<virtual_ctr, rtc_id, fault>>
  ELSE /\ rtc_id' = [rtc_id EXCEPT ![t] = -1]
       /\ UNCHANGED <<virtual_ctr, fault>>

CloseClocks(t, fds) ==
  IF fds = {} THEN UNCHANGED <<virtual_ctr, rtc_id, fault>>
  ELSE IF rtc_id[t] # -1 /\ Cardinality(fds) = 1 THEN FreeClock(t)
  ELSE fault' = "no_clock" /\ UNCHANGED <<virtual_ctr, rtc_id>>

CloseRtc(t, fd) ==
  /\ Calls(t) /\ files[t][fd].f_op = "rtc"
  /\ CloseClocks(t, {fd})
  /\ Release(t, {fd})
  /\ UNCHANGED <<ticks, dsp_status, pc, arg>>

(* audio_close: a card that is on is stopped and switched off, one that is *)
(* off cannot be closed; the descriptor goes either way.                   *)
CloseAudio(t, fd) ==
  /\ Calls(t) /\ files[t][fd].f_op = Audio
  /\ IF dsp_status = "on"
     THEN /\ pc' = [pc EXCEPT ![t] = "stop"]
          /\ arg' = [arg EXCEPT ![t] = fd]
          /\ UNCHANGED <<files, n_opend_files, seen>>
     ELSE Release(t, {fd}) /\ UNCHANGED <<pc, arg>>
  /\ UNCHANGED <<rtc_id, clkVars, dsp_status, fault>>

(* Mutant: audio_close stops the card and leaves it marked as on.          *)
StopAudioOnly(t) ==
  /\ Up /\ pc[t] = "stop"
  /\ Release(t, {arg[t]})
  /\ pc' = [pc EXCEPT ![t] = "user"]
  /\ arg' = [arg EXCEPT ![t] = 0]
  /\ UNCHANGED <<rtc_id, clkVars, dsp_status, fault>>

StopAudio(t) ==
  /\ Up /\ pc[t] = "stop"
  /\ dsp_status' = "off"
  /\ Release(t, {arg[t]})
  /\ pc' = [pc EXCEPT ![t] = "user"]
  /\ arg' = [arg EXCEPT ![t] = 0]
  /\ UNCHANGED <<rtc_id, clkVars, fault>>
-----------------------------------------------------------------------------
(* sys_read and sys_write *)

(* Mutant: a read does not move the position.                              *)
AdvanceNot(t, fd, n, what) ==
  /\ seen' = [seen EXCEPT ![t][fd] = @ \o what]
  /\ UNCHANGED <<pcbVars, clkVars, dsp_status, pc, arg, fault>>

Advance(t, fd, n, what) ==
  /\ files' = [files EXCEPT ![t][fd].f_pos = @ + n]
  /\ seen' = [seen EXCEPT ![t][fd] = @ \o what]
  /\ UNCHANGED <<n_opend_files, rtc_id, clkVars, dsp_status, pc, arg, fault>>

ReadFile(t, fd, size) ==
  /\ Calls(t) /\ files[t][fd].f_op = "file"
  /\ LET f == files[t][fd] IN
       /\ ~ReadFails(f.inode, f.f_pos, size)
       /\ Advance(t, fd, Count(f.inode, f.f_pos, size),
                  ReadBytes(f.inode, f.f_pos, size))

(* dir_read: of the next name as many characters as are asked for, and no  *)
(* more than a name has. The position goes to the entry behind, also when  *)
(* the name was cut short; a read after the last entry returns nothing.    *)
ReadDir(t, fd, size) ==
  /\ Calls(t) /\ files[t][fd].f_op = "dir"
  /\ files[t][fd].f_pos < Len(Dentries)
  /\ Advance(t, fd, 1,
             << <<Dentries[files[t][fd].f_pos + 1].f_name, Min({size, NameLimit})>> >>)

(* rtc_read: the clock is wound up, and the task spins until it has run    *)
(* down.                                                                   *)
ReadRtc(t, fd) ==
  /\ Calls(t) /\ files[t][fd].f_op = "rtc"
  /\ IF rtc_id[t] # -1
     THEN /\ ticks' = [ticks EXCEPT ![rtc_id[t]] = Max({virtual_ctr[rtc_id[t]], 0})]
          /\ pc' = [pc EXCEPT ![t] = "wait"]
          /\ UNCHANGED fault
     ELSE fault' = "no_clock" /\ UNCHANGED <<ticks, pc>>
  /\ UNCHANGED <<pcbVars, virtual_ctr, dsp_status, arg, seen>>

(* Mutant: the task leaves its loop at the very interrupt only.            *)
RtcAlmostDown(t) == ticks[rtc_id[t]] = 1

RtcDown(t) == ticks[rtc_id[t]] = 0

ReadRtcEnds(t) ==
  /\ Up /\ pc[t] = "wait" /\ RtcDown(t)
  /\ pc' = [pc EXCEPT ![t] = "user"]
  /\ UNCHANGED <<pcbVars, clkVars, dsp_status, arg, seen, fault>>

(* rtc_write takes the powers of two from 2 to 512.                        *)
Log2(freq) == CHOOSE k \in 0 .. freq : 2 ^ k = freq
Accepted(freq) == \E k \in 1 .. 9 : 2 ^ k = freq

Rewind(freq) == BaseFreq \div 2 ^ (Log2(freq) + 2)

WriteRtc(t, fd, freq) ==
  /\ Calls(t) /\ files[t][fd].f_op = "rtc"
  /\ Accepted(freq)
  /\ IF rtc_id[t] # -1
     THEN /\ virtual_ctr' = [virtual_ctr EXCEPT ![rtc_id[t]] = Rewind(freq)]
          /\ UNCHANGED fault
     ELSE fault' = "no_clock" /\ UNCHANGED virtual_ctr
  /\ UNCHANGED <<pcbVars, ticks, dsp_status, pc, arg, seen>>

(* rtc_interrupt_handler, as far as programs see it: all clocks tick. The  *)
(* counters of the screen are not read by programs.                        *)
RtcInterrupt ==
  /\ Up
  /\ ticks' = [i \in Clock |-> Max({ticks[i] - 1, 0})]
  /\ UNCHANGED <<pcbVars, virtual_ctr, dsp_status, pc, arg, seen, fault>>
-----------------------------------------------------------------------------
(* system_halt closes what the task left open, in one go, and sys_execute  *)
(* starts a task with a fresh array.                                       *)
Halt(t) ==
  /\ Calls(t)
  /\ CloseClocks(t, Uses(t, "rtc"))
  /\ dsp_status' = IF Uses(t, Audio) = {} THEN dsp_status ELSE "off"
  /\ Release(t, Open(t) \ {0, 1})
  /\ pc' = [pc EXCEPT ![t] = "dead"]
  /\ UNCHANGED <<ticks, arg>>

Execute(t) ==
  /\ Up /\ pc[t] = "dead"
  /\ files' = [files EXCEPT ![t] = InitFileArr]
  /\ n_opend_files' = [n_opend_files EXCEPT ![t] = 2]
  /\ rtc_id' = [rtc_id EXCEPT ![t] = -1]
  /\ pc' = [pc EXCEPT ![t] = "user"]
  /\ UNCHANGED <<clkVars, dsp_status, arg, seen, fault>>
-----------------------------------------------------------------------------
Init ==
  /\ files = [t \in Task |-> InitFileArr]
  /\ n_opend_files = [t \in Task |-> 2]
  /\ rtc_id = [t \in Task |-> -1]
  /\ virtual_ctr = [i \in Clock |-> IF i = NClk - 1 THEN 0 ELSE -1]
  /\ ticks = [i \in Clock |-> 0]
  /\ dsp_status = "off"
  /\ pc = [t \in Task |-> "user"]
  /\ arg = [t \in Task |-> 0]
  /\ seen = [t \in Task |-> [fd \in Fd |-> << >>]]
  /\ fault = "none"

Stopped == ~Up /\ UNCHANGED vars

OpenStep(t) ==
  \/ \E nm \in Opens[t] : OpenFile(t, nm) \/ OpenDir(t, nm) \/ RtcFind(t, nm)
  \/ RtcTake(t)
  \/ AudioCheck(t) \/ AudioReset(t)
  \/ \E nm \in Opens[t] : OpenFails(t, nm)

CloseStep(t) ==
  \/ \E fd \in Fd : Close(t, fd) \/ CloseRtc(t, fd) \/ CloseAudio(t, fd)
  \/ StopAudio(t)

ReadStep(t) ==
  \/ \E fd \in Fd, size \in Asks : ReadFile(t, fd, size) \/ ReadDir(t, fd, size)
  \/ \E fd \in Fd : ReadRtc(t, fd)
  \/ ReadRtcEnds(t)
  \/ \E fd \in Fd, freq \in Freqs : WriteRtc(t, fd, freq)

Next ==
  \/ \E t \in Task :
       OpenStep(t) \/ CloseStep(t) \/ ReadStep(t) \/ Halt(t) \/ Execute(t)
  \/ RtcInterrupt
  \/ Stopped

Spec == Init /\ [][Next]_vars

(* The RTC keeps interrupting and a task that spins keeps getting quanta.  *)
FairSpec == Spec /\ WF_vars(RtcInterrupt) /\ \A t \in Task : WF_vars(ReadRtcEnds(t))
-----------------------------------------------------------------------------
TypeOK ==
  /\ files \in [Task -> [Fd ->
       [f_op : {"none", "terminal", "file", "dir", "rtc", Audio},
        inode : Nat, f_pos : Nat]]]
  /\ n_opend_files \in [Task -> 2 .. NFile]
  /\ rtc_id \in [Task -> Clock \cup {-1}]
  /\ virtual_ctr \in [Clock -> Nat \cup {-1}]
  /\ ticks \in [Clock -> Nat]
  /\ dsp_status \in {"on", "off"}
  /\ pc \in [Task -> {"user", "clock", "card", "stop", "wait", "dead"}]
  /\ arg \in [Task -> Fd]
  /\ fault \in {"none", "no_clock"}

(* The count that sys_open trusts is the number of descriptors in use, so  *)
(* that allocate_fd always finds one: after opens that failed at any of    *)
(* their steps as well, and after a close of each kind or halt.            *)
CountExact ==
  \A t \in Task : pc[t] # "dead" => n_opend_files[t] = Cardinality(Open(t))

(* No clock is lost: one that is taken belongs to a task that has it open, *)
(* or is about to, through any number of opens, closes and halts and with  *)
(* two tasks that found the same free clock. A lost clock would never be   *)
(* free again: there are five for all programs.                            *)
ClockOwned ==
  Up => \A i \in 0 .. NClk - 2 : virtual_ctr[i] # -1 =>
          \E t \in Task : rtc_id[t] = i /\ (Uses(t, "rtc") # {} \/ pc[t] = "clock")

(* The card is not lost either: while it is on somebody can close it.      *)
CardOwned == dsp_status = "on" => \E t \in Task : Uses(t, Audio) # {}

(* Neither devices nor clocks are lost to all programs, whatever halts or  *)
(* races with what.                                                        *)
DevicesOwned == ClockOwned /\ CardOwned

(* What reads return, one after the other, is the file from its start, or  *)
(* the directory entry by entry, of each name what the read asked for:     *)
(* nothing is skipped or read twice where a read ends in the middle of a   *)
(* block. Of an entry that names no inode nothing is read.                 *)
ReadsMatchFile ==
  \A t \in Task : \A fd \in Fd :
    /\ files[t][fd].f_op = "file" /\ seen[t][fd] # << >> =>
         IsPrefix(seen[t][fd], Text[files[t][fd].inode])
    /\ files[t][fd].f_op = "dir" =>
         /\ Len(seen[t][fd]) = files[t][fd].f_pos
         /\ \A k \in 1 .. files[t][fd].f_pos : seen[t][fd][k][1] = Dentries[k].f_name

(* A read of the RTC ends, as long as the clock is the task's alone: two   *)
(* tasks that found the same clock may wind it up for each other.          *)
Shared(t) == \E u \in Task \ {t} : rtc_id[u] = rtc_id[t]

RtcReadEnds ==
  \A t \in Task : <>[](pc[t] = "wait") => []<>(~Up \/ Shared(t))
=============================================================================

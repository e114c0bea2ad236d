------------------------------ MODULE Process ------------------------------
(***************************************************************************)
(* The process core of HEROS: the PCB table, execute and halt (process.c), *)
(* the round-robin run queue driven by the PIT (scheduler.c), the page of  *)
(* every program (page_lib.c), the terminal slots (terminal.c) and the     *)
(* init task that keeps a shell on each of them.                           *)
(*                                                                         *)
(* One CPU. The system calls execute and halt run with interrupts off      *)
(* (idt.c:181-202) and are one action each. The init task is a kernel      *)
(* thread that calls sys_execute with interrupts ON (process.c:519-532),   *)
(* so its sys_execute is a sequence of actions, one per access to state    *)
(* that somebody else reads or writes: a load and a store where the code   *)
(* increments, one entry at a time where it scans a table. The timer, the  *)
(* keyboard and the mouse may come between any two of them: pc says how    *)
(* far it is. (The compiler does not optimise: Makefile:7.)                *)
(*                                                                         *)
(* "fault" names the point where the kernel stops being a kernel (a NULL   *)
(* dereference, two tasks on one stack, page or list node, a lost update,  *)
(* a torn list, a jump through a stack that has no frame). The model does  *)
(* not follow it any further: a step that faults sets "fault" and nothing  *)
(* else that matters.                                                      *)
(***************************************************************************)
EXTENDS Integers, Sequences, FiniteSets, FiniteSetsExt, SequencesExt

CONSTANTS
  NPcb,          (* N_PCB_LIMIT: PCBs, and program pages                   *)
  NTerm,         (* MAX_TERMINAL                                           *)
  NNode,         (* nodes of the run queue: N_PCB_LIMIT + N_PCB_OFFSET - 1 *)
  TimeInit,      (* TIME_INIT, the quantum of a program                    *)
  TimeInitShell, (* TIME_INIT_FOR_SHELL                                    *)
  TimeDecrease,  (* TIME_DECREASE_PER_INTERRUPT                            *)
  Word,          (* number of values of the uint32_t that holds the time   *)
  Command,       (* what user programs execute: shells, other programs     *)
  IdlePcb,       (* PCBs whose idle_task byte, which no code writes, is    *)
                 (* not 0 in the memory the kernel was loaded into         *)
  OobIsShowing   (* whether the linker put cur_task in the word before     *)
                 (* foreground_task[0]                                     *)

Pcb  == 0 .. NPcb - 1
Page == 0 .. NPcb - 1
Term == 0 .. NTerm - 1
Node == 1 .. NNode

Nobody   == -1      (* the NULL pcb pointer *)
NullTerm == -1      (* null_terminal, by its id *)
NoPage   == 255     (* pid -1 of a kernel task, stored in a uint8_t *)
NoNode   == 0       (* the node of a task that is not in the list *)
InitTask == 0       (* the first PCB that create_process hands out *)

ASSUME PcbAssumption == NPcb \in 2 .. 255
ASSUME TermAssumption == NTerm \in Nat \ {0}
ASSUME NodeAssumption == NNode \in Nat /\ NNode >= NPcb
ASSUME TimeAssumption ==
  /\ TimeDecrease \in Nat \ {0}
  /\ {TimeInit, TimeInitShell} \subseteq {TimeDecrease * k : k \in 1 .. 255}
  /\ Word \in Nat /\ TimeInit < Word /\ TimeInitShell < Word
ASSUME CommandAssumption == Command \subseteq {"shell", "program"}
ASSUME BuildAssumption == IdlePcb \subseteq Pcb /\ OobIsShowing \in BOOLEAN

VARIABLES
  n_present_pcb, present, parent, having_child_running, own_terminal,
  terminal, pid, time, name,                  \* the PCB table
  queue, node,      \* task_list_head, as a sequence, and the tasks' nodes
  page_status, n_page_in_use, mapped,     \* pages; mapped: the one at 128MB
  valid, foreground_task, cur_task, running_term,  \* cur_task: the one on show
  cpu, esp0,        \* get_cur_process(), and whose kernel stack tss.esp0 is
  pc, slot, new, reg, acc,                    \* init_task_main's locals
  need_play, all_terminal_is_on,
  fault

pcbVars  == <<n_present_pcb, present, parent, having_child_running,
              own_terminal, terminal, pid, time, name>>
pageVars == <<page_status, n_page_in_use, mapped>>
termVars == <<valid, foreground_task, cur_task, running_term>>
cpuVars  == <<cpu, esp0>>
loopVars == <<need_play, all_terminal_is_on>>
initVars == <<pc, slot, new, reg, acc, loopVars>>

vars == <<pcbVars, queue, node, pageVars, termVars, cpuVars, initVars, fault>>

Up == fault = "none"

(* The program counter of init_task_main: its own loop, then sys_execute.  *)
LoopPc  == {"boot", "play", "played", "scan"}
CountPc == {"limit", "load_n", "store_n", "find", "mark"}
PagePc  == {"page", "choose", "map", "load_p", "store_p", "status", "pid"}
ShowPc  == {"focus", "show", "attach"}
ListPc  == {"node", "take", "last", "link", "join"}
GoPc    == {"arm", "tss", "enter"}
BuildPc == {"setup", "term"} \cup PagePc \cup ShowPc \cup ListPc
SpawnPc == CountPc \cup BuildPc \cup GoPc

Faults == {"none", "null_showing_task", "reschedule_loop", "lost_count",
           "shared_pcb", "no_terminal", "lost_pages", "shared_page", "no_node",
           "shared_node", "torn_list", "no_frame"}
-----------------------------------------------------------------------------
(* Helpers: one for each small function of the kernel.                     *)

FreePcbs == {p \in Pcb : ~present[p]}

(* Mutant: the table is reset while one page is still in use.              *)
FreePagesResetEarly == {g \in Page : n_page_in_use <= 1 \/ ~page_status[g]}

(* get_new_page_id sees every page free when set_page_for_task has just    *)
(* reset page_status because no page was in use.                           *)
FreePages == {g \in Page : n_page_in_use = 0 \/ ~page_status[g]}

(* The nodes that are not valid                                            *)
FreeNodes == {k \in Node : \A p \in Pcb : node[p] # k}

(* init_process_time: a shell gets a shorter quantum.                      *)
QuantumOf(nm) == IF nm = "shell" THEN TimeInitShell ELSE TimeInit
Quantum(p) == QuantumOf(name[p])

(* time is a uint32_t, so "time <= 0" is "time = 0".                       *)
Remaining(p) == (time[p] - TimeDecrease) % Word
(* Mutant: the time is tested before it is decreased.                      *)
QuantumWasOver(p) == time[p] = 0

QuantumOver(p) == Remaining(p) = 0

(* get_another_terminal_id                                                 *)
AnotherTerminal(id, fg) ==
  IF \E i \in Term : fg[i] # Nobody /\ i # id THEN id ELSE -1

IndexOf(q, p) == CHOOSE i \in DOMAIN q : q[i] = p

(* Mutant: the head is unlinked, whoever is to go.                         *)
HeadUnlinked(q, p) == Tail(q)

(* delete_task_from_list                                                   *)
Unlinked(q, p) == RemoveAt(q, IndexOf(q, p))

(* Mutant: the head goes to the end, whoever was preempted.                *)
HeadToEnd(q, p) == Append(Tail(q), Head(q))

(* Mutant: the preempted task goes to the front.                           *)
ToFront(q, p) == <<p>> \o Unlinked(q, p)

(* reposition_to_end                                                       *)
ToEnd(q, p) == Append(Unlinked(q, p), p)

(* Mutant: a waiting task is not skipped.                                  *)
AnyIndices(q, waiting) == DOMAIN q

(* The loop of reschedule that moves tasks with a running child to the end *)
(* until the head of the list has none.                                    *)
ReadyIndices(q, waiting) == {i \in DOMAIN q : ~waiting[q[i]]}
RotatedTo(q, i) == SubSeq(q, i, Len(q)) \o SubSeq(q, 1, i - 1)

(* A task in the list that init has not started yet: k_esp points at its   *)
(* name, not at a saved context.                                           *)
NeverStarted(p) == pc \in GoPc /\ p = new

(* Mutant: the mark of the child is cleared, not the mark of its parent.   *)
WaitOverOfChild == [having_child_running EXCEPT ![cpu] = FALSE]

(* A parent that gets the CPU back from a child                            *)
WaitOver == [having_child_running EXCEPT ![parent[cpu]] = FALSE]
-----------------------------------------------------------------------------
(* Mutant: tss.esp0 is left as it was.                                     *)
SwitchOnOldStack(next) ==
  /\ running_term' = terminal[next]
  /\ mapped' = pid[next]
  /\ cpu' = next
  /\ UNCHANGED esp0

(* The end of reschedule: the terminal, the page, the kernel stack and the *)
(* CPU go to the next task.                                                *)
SwitchTo(next) ==
  /\ running_term' = terminal[next]
  /\ mapped' = pid[next]
  /\ esp0' = next
  /\ cpu' = next

(* reschedule(): q is the list it finds, from the task that calls it. The  *)
(* interrupt flag is off, so a list with waiting tasks only spins forever. *)
Reschedule(q, waiting, from) ==
  IF ReadyIndices(q, waiting) = {}
  THEN /\ fault' = "reschedule_loop"
       /\ queue' = q
       /\ UNCHANGED <<running_term, mapped, cpuVars>>
  ELSE LET list == RotatedTo(q, Min(ReadyIndices(q, waiting)))
           next == Head(list)
       IN /\ queue' = list
          /\ IF next = from
             THEN UNCHANGED <<running_term, mapped, cpuVars, fault>>
             ELSE /\ SwitchTo(next)
                  /\ fault' = IF NeverStarted(next) THEN "no_frame" ELSE fault

(* pit_interrupt_handler, when the task on the CPU keeps it                *)
TickCharge ==
  /\ Up
  /\ cpu \notin IdlePcb /\ ~QuantumOver(cpu)
  /\ time' = [time EXCEPT ![cpu] = Remaining(cpu)]
  /\ UNCHANGED <<n_present_pcb, present, parent, having_child_running,
                 own_terminal, terminal, pid, name, queue, node, pageVars,
                 termVars, cpuVars, initVars, fault>>

(* pit_interrupt_handler, when its time is used up or it is marked idle    *)
Preempted == cpu \in IdlePcb \/ QuantumOver(cpu)

TickPreempt ==
  /\ Up
  /\ Preempted /\ pc # "join"
  /\ time' = IF cpu \in IdlePcb THEN time
             ELSE [time EXCEPT ![cpu] = Quantum(cpu)]
  /\ Reschedule(ToEnd(queue, cpu), having_child_running, cpu)
  /\ UNCHANGED <<n_present_pcb, present, parent, having_child_running,
                 own_terminal, terminal, pid, name, node, page_status,
                 n_page_in_use, valid, foreground_task, cur_task, initVars>>

(* Half of init's append is done: the node it moves to the end is linked   *)
(* to the old last node, or is that node, and a task is lost.              *)
TickTears ==
  /\ Up
  /\ Preempted /\ pc = "join"
  /\ fault' = "torn_list"
  /\ UNCHANGED <<pcbVars, queue, node, pageVars, termVars, cpuVars, initVars>>

Tick == TickCharge \/ TickPreempt \/ TickTears

(* keyboard_interrupt_handler for a key that types or edits: handle_input  *)
(* follows get_showing_task() without a test. What it does to the line     *)
(* buffer is not part of this module.                                      *)
KeyType ==
  /\ Up
  /\ IF cur_task = Nobody
     THEN fault' = "null_showing_task" /\ UNCHANGED running_term
     ELSE running_term' = terminal[cpu] /\ UNCHANGED fault
  /\ UNCHANGED <<pcbVars, queue, node, pageVars, valid, foreground_task,
                 cur_task, cpuVars, initVars>>

(* ALT+F1..F3: change_focus_terminal from the keyboard handler             *)
KeyFocus(t) ==
  /\ Up
  /\ cur_task' = foreground_task[t]
  /\ running_term' = terminal[cpu]
  /\ UNCHANGED <<pcbVars, queue, node, pageVars, valid, foreground_task,
                 cpuVars, initVars, fault>>

(* A click on the window of a terminal                                     *)
MouseFocus(t) ==
  /\ Up
  /\ cur_task' = foreground_task[t]
  /\ UNCHANGED <<pcbVars, queue, node, pageVars, valid, foreground_task,
                 running_term, cpuVars, initVars, fault>>

(* A click on the music button                                             *)
MousePlay ==
  /\ Up
  /\ need_play' = TRUE
  /\ UNCHANGED <<pcbVars, queue, node, pageVars, termVars, cpuVars, pc,
                 slot, new, reg, acc, all_terminal_is_on, fault>>
-----------------------------------------------------------------------------
(* sys_execute(command, 1, 0, NULL), interrupts off, called by the task on *)
(* the CPU. "ok": the command names an executable file.                    *)
NoPcbLeft == n_present_pcb >= NPcb

CanLoad(ok) == ok /\ FreePages # {}

(* Mutant: the parent of the PCB's last user stays.                        *)
FillPcbStaleParent(c, nm) ==
  /\ own_terminal' = [own_terminal EXCEPT ![c] = FALSE]
  /\ name' = [name EXCEPT ![c] = nm]
  /\ terminal' = [terminal EXCEPT ![c] = terminal[cpu]]
  /\ UNCHANGED parent

(* create_process and the PCB fields set before the program is looked up   *)
FillPcb(c, nm) ==
  /\ own_terminal' = [own_terminal EXCEPT ![c] = FALSE]
  /\ parent' = [parent EXCEPT ![c] = cpu]
  /\ name' = [name EXCEPT ![c] = nm]
  /\ terminal' = [terminal EXCEPT ![c] = terminal[cpu]]

(* Mutant: the PCB of a command that cannot run is deleted twice.          *)
ExecuteFailsDeletesTwice(c) ==
  /\ having_child_running' = [having_child_running EXCEPT ![c] = FALSE]
  /\ n_present_pcb' = n_present_pcb - 1
  /\ UNCHANGED <<present, pid, time, queue, node, pageVars, termVars, cpuVars,
                 fault>>

(* set_page_for_task fails: the parent stops waiting, the PCB is given back *)
ExecuteFails(c) ==
  /\ having_child_running' = [having_child_running EXCEPT ![c] = FALSE]
  /\ UNCHANGED <<n_present_pcb, present, pid, time, queue, node, pageVars,
                 termVars, cpuVars, fault>>

ChildWaitedFor(c) ==
  [having_child_running EXCEPT ![c] = FALSE, ![cpu] = TRUE]

ExecuteStarts(c, g, nm) ==
  /\ having_child_running' = ChildWaitedFor(c)
  /\ n_present_pcb' = n_present_pcb + 1
  /\ present' = [present EXCEPT ![c] = TRUE]
  /\ pid' = [pid EXCEPT ![c] = g]
  /\ page_status' = [page_status EXCEPT ![g] = TRUE]
  /\ n_page_in_use' = n_page_in_use + 1
  /\ mapped' = g
  /\ IF terminal[cpu] # NullTerm
     THEN /\ foreground_task' = [foreground_task EXCEPT ![terminal[cpu]] = c]
          /\ cur_task' = c
     ELSE UNCHANGED <<foreground_task, cur_task>>
  /\ running_term' = terminal[cpu]
  /\ queue' = Append(queue, c)
  /\ node' = [node EXCEPT ![c] = Min(FreeNodes)]
  /\ time' = [time EXCEPT ![c] = QuantumOf(nm)]
  /\ esp0' = c
  /\ cpu' = c
  /\ UNCHANGED <<valid, fault>>

(* add_task_to_list fails.                                                 *)
ExecuteFindsNoNode ==
  /\ fault' = "no_node"
  /\ UNCHANGED <<having_child_running, n_present_pcb, present, pid, time,
                 queue, node, pageVars, termVars, cpuVars>>

(* create_process finds none: at the limit, or past it.                    *)
NoPcbFound ==
  /\ n_present_pcb' = n_present_pcb + (IF NoPcbLeft THEN 0 ELSE 1)
  /\ UNCHANGED <<present, parent, having_child_running, own_terminal,
                 terminal, pid, time, name, queue, node, pageVars, termVars,
                 cpuVars, fault>>

ExecuteAs(c, nm, ok) ==
  /\ FillPcb(c, nm)
  /\ \/ CanLoad(ok) /\ FreeNodes # {} /\ ExecuteStarts(c, Min(FreePages), nm)
     \/ CanLoad(ok) /\ FreeNodes = {} /\ ExecuteFindsNoNode
     \/ ~CanLoad(ok) /\ ExecuteFails(c)

SysExecute(nm, ok) ==
  IF NoPcbLeft \/ FreePcbs = {}
  THEN NoPcbFound
  ELSE ExecuteAs(Min(FreePcbs), nm, ok)

(* execute_sys_call of a user program                                      *)
Execute(nm, ok) ==
  /\ Up
  /\ cpu # InitTask
  /\ SysExecute(nm, ok)
  /\ UNCHANGED initVars
-----------------------------------------------------------------------------
(* system_halt, from halt_sys_call or from the default handler of a signal *)

(* delete_task_from_list gives the node back; delete_process; then the     *)
(* page is given back: delete_paging/restore_paging                        *)
PcbAndPageFreed ==
  /\ node' = [node EXCEPT ![cpu] = NoNode]
  /\ present' = [present EXCEPT ![cpu] = FALSE]
  /\ n_present_pcb' = n_present_pcb - 1
  /\ IF page_status[pid[cpu]]
     THEN /\ page_status' = [page_status EXCEPT ![pid[cpu]] = FALSE]
          /\ n_page_in_use' = n_page_in_use - 1
     ELSE UNCHANGED <<page_status, n_page_in_use>>

(* Mutant: the terminal is not given back.                                 *)
TerminalKept(t) == valid

TerminalDeallocated(t) == [valid EXCEPT ![t] = FALSE]

(* Mutant: the terminal keeps pointing at the child.                       *)
LeftToChild(t, p) == foreground_task

(* The parent p of a child that halts gets the keys of terminal t again.   *)
TakenOver(t, p) ==
  IF t = NullTerm THEN foreground_task ELSE [foreground_task EXCEPT ![t] = p]

(* A task with a terminal of its own, which only init starts and nobody    *)
(* waits for: the terminal is emptied and another task is scheduled.       *)
HaltRoot ==
  /\ Up
  /\ cpu # InitTask /\ own_terminal[cpu] /\ parent[cpu] = Nobody
  /\ IF cur_task = Nobody
     THEN /\ fault' = "null_showing_task"
          /\ UNCHANGED <<pcbVars, queue, node, pageVars, termVars, cpuVars>>
     ELSE LET t == terminal[cpu]
              fg == [foreground_task EXCEPT ![t] = Nobody]
              other == AnotherTerminal(t, fg)
          IN /\ foreground_task' = fg
             /\ cur_task' = IF terminal[cur_task] = t /\ other # -1
                            THEN fg[other] ELSE cur_task
             /\ valid' = TerminalDeallocated(t)
             /\ PcbAndPageFreed
             /\ Reschedule(Unlinked(queue, cpu), having_child_running, cpu)
             /\ UNCHANGED <<parent, having_child_running, own_terminal,
                            terminal, pid, time, name>>
  /\ UNCHANGED initVars

(* A task that somebody executed: the parent takes over its terminal, gets *)
(* a fresh quantum and resumes. A child of init has null_terminal, whose   *)
(* id is -1: the store to foreground_task[-1] lands in whatever word the   *)
(* linker put there.                                                       *)
HaltChild ==
  /\ Up
  /\ cpu # InitTask /\ ~own_terminal[cpu] /\ parent[cpu] # Nobody
  /\ LET par == parent[cpu]
         t == terminal[par]
         shown == IF t = NullTerm /\ OobIsShowing THEN par ELSE cur_task
     IN IF shown = Nobody
        THEN /\ fault' = "null_showing_task"
             /\ UNCHANGED <<pcbVars, queue, node, pageVars, termVars, cpuVars>>
        ELSE /\ having_child_running' = WaitOver
             /\ time' = [time EXCEPT ![par] = Quantum(par)]
             /\ foreground_task' = TakenOver(t, par)
             /\ cur_task' = IF terminal[shown] = t THEN par ELSE shown
             /\ PcbAndPageFreed
             /\ mapped' = IF page_status[pid[cpu]] THEN pid[par] ELSE mapped
             /\ queue' = Unlinked(queue, cpu)
             /\ running_term' = t
             /\ esp0' = par
             /\ cpu' = par
             /\ UNCHANGED <<parent, own_terminal, terminal, pid, name, valid,
                            fault>>
  /\ UNCHANGED initVars
-----------------------------------------------------------------------------
(* init_task_main. Three shells at boot, then for ever: play the music if  *)
(* asked to, and start a shell on every terminal that has no task.         *)

(* back in init_task_main from a sys_execute for terminal "slot"           *)
SpawnReturns ==
  /\ pc' = IF all_terminal_is_on THEN "scan" ELSE "boot"
  /\ slot' = slot + 1
  /\ new' = InitTask /\ reg' = 0 /\ UNCHANGED acc

InitBoot ==
  /\ Up /\ cpu = InitTask /\ pc = "boot"
  /\ IF slot < NTerm
     THEN pc' = "limit" /\ UNCHANGED all_terminal_is_on
     ELSE pc' = "play" /\ all_terminal_is_on' = TRUE
  /\ slot' = slot % NTerm
  /\ UNCHANGED <<pcbVars, queue, node, pageVars, termVars, cpuVars, new, reg,
                 acc, need_play, fault>>

(* The music player is executed with interrupts off and waited for.        *)
InitPlay(ok) ==
  /\ Up /\ cpu = InitTask /\ pc = "play"
  /\ IF need_play
     THEN SysExecute("program", ok) /\ pc' = "played"
     ELSE /\ pc' = "scan"
          /\ UNCHANGED <<pcbVars, queue, node, pageVars, termVars, cpuVars,
                         fault>>
  /\ UNCHANGED <<slot, new, reg, acc, need_play, all_terminal_is_on>>

InitPlayed ==
  /\ Up /\ cpu = InitTask /\ pc = "played"
  /\ need_play' = FALSE
  /\ pc' = "scan"
  /\ UNCHANGED <<pcbVars, queue, node, pageVars, termVars, cpuVars, slot, new,
                 reg, acc, all_terminal_is_on, fault>>

(* Mutant: the scan begins at the second terminal when it is repeated.     *)
InitScanFromSecond ==
  /\ Up /\ cpu = InitTask /\ pc = "scan"
  /\ \/ slot = NTerm /\ pc' = "play" /\ slot' = 1
     \/ slot < NTerm /\ foreground_task[slot] = Nobody
          /\ pc' = "limit" /\ UNCHANGED slot
     \/ slot < NTerm /\ foreground_task[slot] # Nobody
          /\ slot' = slot + 1 /\ UNCHANGED pc
  /\ UNCHANGED <<pcbVars, queue, node, pageVars, termVars, cpuVars, new, reg,
                 acc, need_play, all_terminal_is_on, fault>>

InitScan ==
  /\ Up /\ cpu = InitTask /\ pc = "scan"
  /\ \/ slot = NTerm /\ pc' = "play" /\ slot' = 0
     \/ slot < NTerm /\ foreground_task[slot] = Nobody
          /\ pc' = "limit" /\ UNCHANGED slot
     \/ slot < NTerm /\ foreground_task[slot] # Nobody
          /\ slot' = slot + 1 /\ UNCHANGED pc
  /\ UNCHANGED <<pcbVars, queue, node, pageVars, termVars, cpuVars, new, reg,
                 acc, need_play, all_terminal_is_on, fault>>

(* sys_execute("shell", 0, 1, NULL), interrupts on                         *)
SpawnAt(label) == Up /\ cpu = InitTask /\ pc = label

SpawnGoes(label) == pc' = label /\ UNCHANGED <<slot, new, reg, acc>>

SpawnTakes(label, r) == pc' = label /\ reg' = r /\ UNCHANGED <<slot, new, acc>>

SpawnLoads(label, n) == pc' = label /\ acc' = n /\ UNCHANGED <<slot, new, reg>>

(* create_process: the limit, then n_present_pcb += 1 as a load and a      *)
(* store, then the first PCB that is not present, as a test of each and a  *)
(* set.                                                                    *)
SpawnLimit ==
  /\ SpawnAt("limit")
  /\ IF NoPcbLeft THEN SpawnReturns ELSE SpawnGoes("load_n")
  /\ UNCHANGED <<pcbVars, queue, node, pageVars, termVars, cpuVars, loopVars,
                 fault>>

SpawnLoadCount ==
  /\ SpawnAt("load_n") /\ SpawnLoads("store_n", n_present_pcb)
  /\ UNCHANGED <<pcbVars, queue, node, pageVars, termVars, cpuVars, loopVars,
                 fault>>

SpawnStoreCount ==
  /\ SpawnAt("store_n") /\ SpawnLoads("find", 0)
  /\ n_present_pcb' = acc + 1
  /\ fault' = IF n_present_pcb = acc THEN fault ELSE "lost_count"
  /\ UNCHANGED <<present, parent, having_child_running, own_terminal,
                 terminal, pid, time, name, queue, node, pageVars, termVars,
                 cpuVars, loopVars>>

(* Mutant: the scan for a PCB with <= for <                                *)
SpawnFindPcbTooFar ==
  /\ SpawnAt("find")
  /\ \/ reg \in Pcb /\ present[reg] /\ SpawnTakes("find", reg + 1)
     \/ /\ reg \in Pcb => ~present[reg]
        /\ pc' = "mark" /\ new' = reg /\ reg' = 0 /\ UNCHANGED <<slot, acc>>
  /\ UNCHANGED <<pcbVars, queue, node, pageVars, termVars, cpuVars, loopVars,
                 fault>>

SpawnFindPcb ==
  /\ SpawnAt("find")
  /\ \/ reg = NPcb /\ SpawnReturns
     \/ reg \in Pcb /\ present[reg] /\ SpawnTakes("find", reg + 1)
     \/ /\ reg \in Pcb /\ ~present[reg]
        /\ pc' = "mark" /\ new' = reg /\ reg' = 0 /\ UNCHANGED <<slot, acc>>
  /\ UNCHANGED <<pcbVars, queue, node, pageVars, termVars, cpuVars, loopVars,
                 fault>>

SpawnMarkPcb ==
  /\ SpawnAt("mark") /\ SpawnGoes("setup")
  /\ present' = [present EXCEPT ![new] = TRUE]
  /\ fault' = IF present[new] THEN "shared_pcb" ELSE fault
  /\ UNCHANGED <<n_present_pcb, parent, having_child_running, own_terminal,
                 terminal, pid, time, name, queue, node, pageVars, termVars,
                 cpuVars, loopVars>>

(* The fields of the new PCB, which nobody else can reach yet              *)
SpawnSetup ==
  /\ SpawnAt("setup") /\ SpawnGoes("term")
  /\ having_child_running' = [having_child_running EXCEPT ![new] = FALSE]
  /\ own_terminal' = [own_terminal EXCEPT ![new] = FALSE]
  /\ parent' = [parent EXCEPT ![new] = Nobody]
  /\ name' = [name EXCEPT ![new] = "shell"]
  /\ UNCHANGED <<n_present_pcb, present, terminal, pid, time, queue, node,
                 pageVars, termVars, cpuVars, loopVars, fault>>

(* terminal_allocate. Only init allocates: a slot that is found free stays *)
(* so until it is taken.                                                   *)
SpawnAllocate ==
  /\ SpawnAt("term")
  /\ \/ /\ reg = NTerm
        /\ fault' = "no_terminal"
        /\ UNCHANGED <<pc, slot, new, reg, acc, valid, own_terminal, terminal>>
     \/ /\ reg \in Term /\ valid[reg]
        /\ SpawnTakes("term", reg + 1)
        /\ UNCHANGED <<valid, own_terminal, terminal, fault>>
     \/ /\ reg \in Term /\ ~valid[reg]
        /\ SpawnTakes("page", 0)
        /\ valid' = [valid EXCEPT ![reg] = TRUE]
        /\ own_terminal' = [own_terminal EXCEPT ![new] = TRUE]
        /\ terminal' = [terminal EXCEPT ![new] = reg]
        /\ UNCHANGED fault
  /\ UNCHANGED <<n_present_pcb, present, parent, having_child_running, pid,
                 time, name, queue, node, pageVars, foreground_task, cur_task,
                 running_term, cpuVars, loopVars>>

(* set_page_for_task: the table is reset if no page is in use (then no     *)
(* user task is left to run in between), a page is chosen ...              *)
SpawnResetPages ==
  /\ SpawnAt("page") /\ SpawnGoes("choose")
  /\ page_status' = IF n_page_in_use = 0 THEN [g \in Page |-> FALSE]
                    ELSE page_status
  /\ UNCHANGED <<pcbVars, queue, node, n_page_in_use, mapped, termVars,
                 cpuVars, loopVars, fault>>

SpawnChoosePage ==
  /\ SpawnAt("choose")
  /\ \/ /\ reg = NPcb
        /\ SpawnReturns
        /\ present' = [present EXCEPT ![new] = FALSE]
        /\ n_present_pcb' = n_present_pcb - 1
     \/ /\ reg \in Page /\ page_status[reg]
        /\ SpawnTakes("choose", reg + 1)
        /\ UNCHANGED <<present, n_present_pcb>>
     \/ /\ reg \in Page /\ ~page_status[reg]
        /\ SpawnGoes("map")
        /\ UNCHANGED <<present, n_present_pcb>>
  /\ UNCHANGED <<parent, having_child_running, own_terminal, terminal, pid,
                 time, name, queue, node, pageVars, termVars, cpuVars,
                 loopVars, fault>>

(* ... mapped here, for load_private_code to fill byte by byte ...         *)
SpawnMapPage ==
  /\ SpawnAt("map") /\ SpawnGoes("load_p")
  /\ mapped' = reg
  /\ UNCHANGED <<pcbVars, queue, node, page_status, n_page_in_use, termVars,
                 cpuVars, loopVars, fault>>

(* ... counted in a load and a store ...                                   *)
SpawnLoadPages ==
  /\ SpawnAt("load_p") /\ SpawnLoads("store_p", n_page_in_use)
  /\ UNCHANGED <<pcbVars, queue, node, pageVars, termVars, cpuVars, loopVars,
                 fault>>

SpawnStorePages ==
  /\ SpawnAt("store_p") /\ SpawnLoads("status", 0)
  /\ n_page_in_use' = acc + 1
  /\ fault' = IF n_page_in_use = acc THEN fault ELSE "lost_pages"
  /\ UNCHANGED <<pcbVars, queue, node, page_status, mapped, termVars, cpuVars,
                 loopVars>>

(* ... and marked in use only here; the PCB gets it last.                  *)
SpawnMarkPage ==
  /\ SpawnAt("status") /\ SpawnGoes("pid")
  /\ page_status' = [page_status EXCEPT ![reg] = TRUE]
  /\ fault' = IF page_status[reg] THEN "shared_page" ELSE fault
  /\ UNCHANGED <<pcbVars, queue, node, n_page_in_use, mapped, termVars,
                 cpuVars, loopVars>>

SpawnSetPid ==
  /\ SpawnAt("pid") /\ SpawnTakes("focus", 0)
  /\ pid' = [pid EXCEPT ![new] = reg]
  /\ UNCHANGED <<n_present_pcb, present, parent, having_child_running,
                 own_terminal, terminal, time, name, queue, node, pageVars,
                 termVars, cpuVars, loopVars, fault>>

SpawnFocus ==
  /\ SpawnAt("focus") /\ SpawnGoes("show")
  /\ foreground_task' = [foreground_task EXCEPT ![terminal[new]] = new]
  /\ UNCHANGED <<pcbVars, queue, node, pageVars, valid, cur_task,
                 running_term, cpuVars, loopVars, fault>>

SpawnShow ==
  /\ SpawnAt("show") /\ SpawnGoes("attach")
  /\ cur_task' = new
  /\ UNCHANGED <<pcbVars, queue, node, pageVars, valid, foreground_task,
                 running_term, cpuVars, loopVars, fault>>

(* terminal_set_running, so that the banner goes to the new terminal       *)
SpawnAttach ==
  /\ SpawnAt("attach") /\ SpawnTakes("node", 1)
  /\ running_term' = terminal[new]
  /\ UNCHANGED <<pcbVars, queue, node, pageVars, valid, foreground_task,
                 cur_task, cpuVars, loopVars, fault>>

(* add_task_to_list: the first node that is not valid, as a test of each   *)
(* and a set ...                                                           *)
SpawnFindNode ==
  /\ SpawnAt("node")
  /\ \/ /\ reg \notin Node
        /\ fault' = "no_node" /\ UNCHANGED <<pc, slot, new, reg, acc>>
     \/ /\ reg \in Node \ FreeNodes
        /\ SpawnTakes("node", reg + 1) /\ UNCHANGED fault
     \/ reg \in FreeNodes /\ SpawnGoes("take") /\ UNCHANGED fault
  /\ UNCHANGED <<pcbVars, queue, node, pageVars, termVars, cpuVars, loopVars>>

SpawnTakeNode ==
  /\ SpawnAt("take") /\ SpawnTakes("last", 0)
  /\ node' = [node EXCEPT ![new] = reg]
  /\ fault' = IF reg \in FreeNodes THEN fault ELSE "shared_node"
  /\ UNCHANGED <<pcbVars, queue, pageVars, termVars, cpuVars, loopVars>>

(* ... then append_to_list_end: the last node is looked up, ...            *)
SpawnLoadLast ==
  /\ SpawnAt("last") /\ SpawnTakes("link", node[Last(queue)])
  /\ UNCHANGED <<pcbVars, queue, node, pageVars, termVars, cpuVars, loopVars,
                 fault>>

(* ... linked to the new one, whether it is still the last or not (if not, *)
(* the tasks behind it are no longer reached), ...                         *)
SpawnLinkLast ==
  /\ SpawnAt("link") /\ SpawnTakes("join", 0)
  /\ fault' = IF reg = node[Last(queue)] THEN fault ELSE "torn_list"
  /\ UNCHANGED <<pcbVars, queue, node, pageVars, termVars, cpuVars, loopVars>>

(* ... and three more pointers are stored, the list's own last: from here  *)
(* on the scheduler may pick the new task. Any change of the list between  *)
(* the first store and the last tears it: TickTears.                       *)
SpawnJoin ==
  /\ SpawnAt("join") /\ SpawnGoes("arm")
  /\ queue' = Append(queue, new)
  /\ UNCHANGED <<pcbVars, node, pageVars, termVars, cpuVars, loopVars, fault>>

(* init_process_time                                                       *)
SpawnArm ==
  /\ SpawnAt("arm") /\ SpawnGoes("tss")
  /\ time' = [time EXCEPT ![new] = TimeInitShell]
  /\ UNCHANGED <<n_present_pcb, present, parent, having_child_running,
                 own_terminal, terminal, pid, name, queue, node, pageVars,
                 termVars, cpuVars, loopVars, fault>>

SpawnSetTss ==
  /\ SpawnAt("tss") /\ SpawnGoes("enter")
  /\ esp0' = new
  /\ UNCHANGED <<pcbVars, queue, node, pageVars, termVars, cpu, loopVars,
                 fault>>

(* execute_user_program_asm: init's context is saved and the shell starts  *)
(* in whatever page is mapped, to enter the kernel on whatever stack       *)
(* tss.esp0 names.                                                         *)
SpawnEnter ==
  /\ SpawnAt("enter") /\ SpawnReturns
  /\ cpu' = new
  /\ UNCHANGED <<pcbVars, queue, node, pageVars, termVars, esp0, loopVars,
                 fault>>
-----------------------------------------------------------------------------
Unbooted == "unbooted"   \* the name in a PCB that was never used

(* init_task_main at its first instruction: process_init and the entry's   *)
(* sys_execute("init_task", 0, 0, init_task_main) have run.                *)
Init ==
  /\ n_present_pcb = 1
  /\ present = [p \in Pcb |-> p = InitTask]
  /\ parent = [p \in Pcb |-> Nobody]
  /\ having_child_running = [p \in Pcb |-> FALSE]
  /\ own_terminal = [p \in Pcb |-> FALSE]
  /\ terminal = [p \in Pcb |-> NullTerm]
  /\ pid = [p \in Pcb |-> NoPage]
  /\ time = [p \in Pcb |-> IF p = InitTask THEN TimeInit ELSE 0]
  /\ name = [p \in Pcb |-> IF p = InitTask THEN "program" ELSE Unbooted]
  /\ queue = <<InitTask>>
  /\ node = [p \in Pcb |-> IF p = InitTask THEN 1 ELSE NoNode]
  /\ page_status = [g \in Page |-> FALSE]
  /\ n_page_in_use = 0
  /\ mapped = NoPage
  /\ valid = [t \in Term |-> FALSE]
  /\ foreground_task = [t \in Term |-> Nobody]
  /\ cur_task = Nobody
  /\ running_term = NullTerm
  /\ cpu = InitTask
  /\ esp0 = InitTask
  /\ pc = "boot" /\ slot = 0 /\ new = InitTask /\ reg = 0 /\ acc = 0
  /\ need_play = FALSE /\ all_terminal_is_on = FALSE
  /\ fault = "none"

Interrupt ==
  \/ Tick
  \/ KeyType
  \/ \E t \in Term : KeyFocus(t) \/ MouseFocus(t)
  \/ MousePlay

UserCall ==
  \/ \E nm \in Command, ok \in BOOLEAN : Execute(nm, ok)
  \/ HaltRoot
  \/ HaltChild

InitStep ==
  \/ InitBoot \/ InitPlayed \/ InitScan
  \/ \E ok \in BOOLEAN : InitPlay(ok)
  \/ SpawnLimit \/ SpawnLoadCount \/ SpawnStoreCount \/ SpawnFindPcb
  \/ SpawnMarkPcb \/ SpawnSetup \/ SpawnAllocate
  \/ SpawnResetPages \/ SpawnChoosePage \/ SpawnMapPage \/ SpawnLoadPages
  \/ SpawnStorePages \/ SpawnMarkPage \/ SpawnSetPid
  \/ SpawnFocus \/ SpawnShow \/ SpawnAttach
  \/ SpawnFindNode \/ SpawnTakeNode \/ SpawnLoadLast \/ SpawnLinkLast
  \/ SpawnJoin \/ SpawnArm \/ SpawnSetTss \/ SpawnEnter

(* After a fault the model stops.                                          *)
Stopped == ~Up /\ UNCHANGED vars

Next == Interrupt \/ UserCall \/ InitStep \/ Stopped

Spec == Init /\ [][Next]_vars

(* The PIT never stops ticking, and a task on the CPU executes some of its *)
(* instructions in each of its quanta; nothing makes a user program halt,  *)
(* execute or stop doing so.                                               *)
FairSpec == Spec /\ WF_vars(Tick) /\ SF_vars(InitStep)
-----------------------------------------------------------------------------
(* Every variable has its type: pointers point at PCBs or are NULL, pids   *)
(* are pages, or the 255 of a kernel task.                                 *)
TypeOK ==
  /\ n_present_pcb \in Int
  /\ present \in [Pcb -> BOOLEAN]
  /\ parent \in [Pcb -> Pcb \cup {Nobody}]
  /\ having_child_running \in [Pcb -> BOOLEAN]
  /\ own_terminal \in [Pcb -> BOOLEAN]
  /\ terminal \in [Pcb -> Term \cup {NullTerm}]
  /\ pid \in [Pcb -> Page \cup {NoPage}]
  /\ time \in [Pcb -> 0 .. Word - 1]
  /\ name \in [Pcb -> {"shell", "program", Unbooted}]
  /\ queue \in Seq(Pcb)
  /\ node \in [Pcb -> Node \cup {NoNode}]
  /\ page_status \in [Page -> BOOLEAN]
  /\ n_page_in_use \in Int
  /\ mapped \in Page \cup {NoPage}
  /\ valid \in [Term -> BOOLEAN]
  /\ foreground_task \in [Term -> Pcb \cup {Nobody}]
  /\ cur_task \in Pcb \cup {Nobody}
  /\ running_term \in Term \cup {NullTerm}
  /\ cpu \in Pcb /\ esp0 \in Pcb
  /\ pc \in LoopPc \cup SpawnPc
  /\ slot \in 0 .. NTerm /\ new \in Pcb /\ reg \in Int /\ acc \in Int
  /\ need_play \in BOOLEAN /\ all_terminal_is_on \in BOOLEAN
  /\ fault \in Faults

Listed == ToSet(queue)
Children(p) == {c \in Listed : parent[c] = p}

(* new is a PCB that init is filling in and has not listed yet.            *)
Building == pc \in BuildPc
Unlisted == IF Building THEN {new} ELSE {}

(* The run queue holds every live task exactly once: no task is lost by    *)
(* halt, by a preemption or by an execute, also of a program that runs in  *)
(* the middle of init's, until init's append is torn by a preemption; and  *)
(* there is a node for every task.                                         *)
QueueExact ==
  /\ fault # "no_node"
  /\ Up => /\ IsInjective(queue)
           /\ Listed = {p \in Pcb : present[p]} \ Unlisted

(* A task has the waiting mark exactly while it has a live child, it has   *)
(* at most one, and its parent is alive (the fix of buglog.txt:116-118).   *)
WaitDiscipline ==
  Up => \A p \in Listed :
          /\ having_child_running[p] <=> Children(p) # {}
          /\ \A c, d \in Children(p) : c = d
          /\ parent[p] \in Listed \cup {Nobody}

(* The CPU always belongs to a listed task that waits for no child, ...    *)
RunnerReady == Up => cpu \in Listed /\ ~having_child_running[cpu]

(* ... so the loop of reschedule that skips waiting tasks always ends.     *)
RescheduleTerminates == fault # "reschedule_loop"

(* The task of a terminal that gets its keys is the one ready task there:  *)
(* execute hands the terminal to the child, halt back to the parent.       *)
ForegroundIsLeaf ==
  Up => /\ \A t \in Term : foreground_task[t] # Nobody =>
             LET p == foreground_task[t]
             IN present[p] /\ terminal[p] = t /\ ~having_child_running[p]
        /\ \A p \in Listed :
             ~having_child_running[p] /\ terminal[p] # NullTerm =>
                foreground_task[terminal[p]] = p

(* Tasks that own a program page: the listed ones, and the new one from    *)
(* the moment its page is marked; its PCB says so one step later.          *)
PageOwners == (Listed \ {InitTask}) \cup
  (IF pc \in {"pid"} \cup ShowPc \cup ListPc THEN {new} ELSE {})
PageOf(p) == IF pc = "pid" /\ p = new THEN reg ELSE pid[p]

(* No two live programs share a page, a page is in use exactly while its   *)
(* owner lives, and n_page_in_use, whose value 0 is taken as leave to free *)
(* every page, counts them: up to the faults in which init and a program   *)
(* chose the same page, or updated the count at the same time.             *)
PageOwnership ==
  Up => /\ \A p, q \in PageOwners : PageOf(p) = PageOf(q) => p = q
        /\ \A g \in Page :
             page_status[g] <=> \E p \in PageOwners : PageOf(p) = g
        /\ n_page_in_use = Cardinality(PageOwners)
                           + (IF pc = "status" THEN 1 ELSE 0)

(* A terminal slot is taken exactly while the shell that owns it lives (or *)
(* is being started), so that init always finds a slot for a terminal that *)
(* has no task.                                                            *)
TerminalSlots ==
  /\ fault # "no_terminal"
  /\ Up => \A t \in Term :
             valid[t] <=> \E p \in Listed \cup (Unlisted \ {InitTask}) :
                            own_terminal[p] /\ terminal[p] = t /\
                            ~(p = new /\ pc = "setup")

(* n_present_pcb never falls below the number of PCBs in use, so the limit *)
(* check protects the scan, and no later task is taken for the init task.  *)
CountCovers ==
  Up => /\ n_present_pcb >= Cardinality({p \in Pcb : present[p]})
                            + (IF pc \in {"find", "mark"} THEN 1 ELSE 0)
        /\ pc = "setup" => n_present_pcb # 1

(* The unsigned time left never wraps below 0: a started task always has   *)
(* between one tick and its whole quantum.                                 *)
QuantumBounded ==
  Up => \A p \in Listed :
          ~(p = new /\ pc = "arm") => time[p] \in 1 .. Quantum(p)

(* A user program never runs in the page of another, and enters the kernel *)
(* on its own stack, from which the kernel knows which task it is. A shell *)
(* that init starts may run without a page of its own, until it is first   *)
(* switched to: init, when it was preempted, resumes with page 255.        *)
RunnerContext ==
  Up /\ cpu # InitTask => mapped \in {pid[cpu], NoPage} /\ esp0 = cpu

Ready(p) == p \in Listed /\ ~having_child_running[p]

(* A step never lets one ready task that is off the CPU overtake another   *)
(* in the run queue.                                                       *)
NoOvertaking ==
  [][\A p, q \in Listed \cap Listed' :
       /\ p # cpu /\ q # cpu
       /\ Ready(p) /\ Ready(q)
       /\ IndexOf(queue, p) < IndexOf(queue, q)
       => IndexOf(queue, p)' < IndexOf(queue, q)']_vars

(* The forest of tasks that execute and halt promise                       *)
Tree == INSTANCE ProcessTree WITH
  Task <- Pcb, First <- InitTask, live <- Listed, running <- cpu,
  parent <- [p \in Pcb |-> IF p \in Listed THEN parent[p] ELSE Nobody]

(* Every step of the kernel is a step of ProcessTree, or none.             *)
ImplementsTree == Tree!Spec

(* If quanta keep running out, every ready task gets the CPU again and     *)
(* again.                                                                  *)
RoundRobin ==
  []<><<TickPreempt>>_vars =>
    \A p \in Pcb : []<>(~Up \/ cpu = p \/ ~Ready(p))

(* If quanta keep running out and shells at last stop exiting, an empty    *)
(* terminal gets a shell, unless the PCBs are used up or init waits for    *)
(* the music player. (While shells keep exiting, terminal_allocate may     *)
(* give the first terminal to every new one.)                              *)
TerminalsServed ==
  []<><<TickPreempt>>_vars /\ <>[][~HaltRoot]_vars =>
    \A t \in Term : []<>(\/ ~Up \/ NoPcbLeft
                         \/ having_child_running[InitTask]
                         \/ foreground_task[t] # Nobody)
=============================================================================

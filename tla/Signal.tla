------------------------------- MODULE Signal -------------------------------
(***************************************************************************)
(* Signals of HEROS: signal_sys_call.c, the two routines of                *)
(* signal_assmbly.S that start a user's handler and return from it, and    *)
(* the entries of boot.S that check for signals.                           *)
(*                                                                         *)
(* A task is the program in front of a terminal. On every entry from user  *)
(* mode its registers are saved at the top of its kernel stack (hw). A     *)
(* signal is delivered by check_signal at the end of an entry: the default *)
(* handler runs in the kernel; for a user's handler hw is copied to the    *)
(* user's stack (saved) and made to point at the handler, and sigreturn    *)
(* copies it back. Every gate is a trap gate, so entries are interrupted,  *)
(* and the tasks change, wherever the code does not forbid it.             *)
(*                                                                         *)
(* Of the registers, eip is what a program is doing: code is MAIN or the   *)
(* signal whose handler runs, at is "load" before an instruction that uses *)
(* the address in eax, which faults when that is 0 (sigtest.c).            *)
(***************************************************************************)
EXTENDS Integers, Sequences, FiniteSets, FiniteSetsExt

CONSTANTS
  Task,
  NULL,         (* no task                                                      *)
  Installs,     (* Installs[t]: the signals for which t's programs set handlers *)
  Loads,        (* the tasks whose programs use addresses that may be bad       *)
  Exceptions,   (* the signals that the exceptions of these programs send       *)
  AlarmTime,    (* ALARM_TIME                                                   *)
  AlarmStep     (* 2000 / INIT_PIT_FREQ                                         *)

Signum == 0 .. 4          \* SIGNAL_NUM
MASK_ALL == Signum
INTERRUPT == 2
ALARM == 3
MAIN == -1                \* not in a handler
Handler == {"default", "own", "stale"}   \* "stale": set by a program that has ended
Reg(t) == IF t \in Loads THEN {0, 1} ELSE {0}

ASSUME TaskAssumption == IsFiniteSet(Task) /\ Task # {} /\ NULL \notin Task
ASSUME InstallsAssumption == Installs \in [Task -> SUBSET Signum]
ASSUME LoadsAssumption == Loads \subseteq Task
ASSUME ExceptionsAssumption == Exceptions \subseteq {0, 1}
ASSUME AlarmAssumption == AlarmTime \in Nat /\ AlarmStep \in Nat \ {0}

VARIABLES
  cpu, showing,           \* the running task, the one in the shown terminal
  phase,                  \* where a task is: in user mode or in the kernel
  hw, saved,              \* its registers; those on its stack, under a handler
  signal_pending, signal_masked, previous_masked, sig, alarm_time,
  kernel_hw_context_ptr   \* a global of sigreturn: whose hw

signals == <<signal_pending, signal_masked, previous_masked, sig, alarm_time>>
vars == <<cpu, showing, phase, hw, saved, signals, kernel_hw_context_ptr>>

Main == [code |-> MAIN, at |-> "run", eax |-> 0]
Context == [code : {MAIN} \cup Signum, at : {"run", "load"}, eax : {0, 1}]

InUserMode(t) == cpu = t /\ phase[t] = "user"
Faults(t) == hw[t].at = "load" /\ hw[t].eax = 0
InHandler(t) == hw[t].code # MAIN
GoTo(t, p) == phase' = [phase EXCEPT ![t] = p]
-----------------------------------------------------------------------------
(* What a program does in user mode.                                       *)

UserStep(t) ==
  /\ InUserMode(t) /\ ~Faults(t)
  /\ \E at \in IF t \in Loads THEN {"run", "load"} ELSE {"run"}, r \in Reg(t) :
       hw' = [hw EXCEPT ![t].at = at, ![t].eax = r]
  /\ UNCHANGED <<cpu, showing, phase, saved, signals, kernel_hw_context_ptr>>

(* A handler may change the registers it will return to.                   *)
Patch(t) ==
  /\ InUserMode(t) /\ ~Faults(t) /\ saved[t] # << >>
  /\ \E r \in Reg(t) : saved' = [saved EXCEPT ![t][1].eax = r]
  /\ UNCHANGED <<cpu, showing, phase, hw, signals, kernel_hw_context_ptr>>

(* The handlers of the exceptions in boot.S: all save the registers, call  *)
(* naive_exception_handler and then check_signal.                          *)
ExceptionEntry(t) == InUserMode(t) /\ Faults(t) /\ GoTo(t, "check")

(* naive_exception_handler: signal 0 for a division by zero, 1 for the     *)
(* others; the instruction is tried again if the program returns to it.    *)
Exception(t) ==
  /\ ExceptionEntry(t)
  /\ \E s \in Exceptions :
       signal_pending' = [signal_pending EXCEPT ![t] = @ \cup {s}]
  /\ UNCHANGED <<cpu, showing, hw, saved, signal_masked, previous_masked,
                 sig, alarm_time, kernel_hw_context_ptr>>

(* A system call, and its end: sys_call_finish puts the result in hw.      *)
Call(t) ==
  /\ InUserMode(t) /\ ~Faults(t)
  /\ GoTo(t, "call")
  /\ UNCHANGED <<cpu, showing, hw, saved, signals, kernel_hw_context_ptr>>

CallReturns(t) ==
  /\ cpu = t /\ phase[t] = "call"
  /\ \E r \in Reg(t) : hw' = [hw EXCEPT ![t].at = "run", ![t].eax = r]
  /\ GoTo(t, "check")
  /\ UNCHANGED <<cpu, showing, saved, signals, kernel_hw_context_ptr>>

(* Only a NULL handler gives the default one back.                         *)
SetHandler(t) ==
  /\ InUserMode(t) /\ ~Faults(t)
  /\ \E s \in Installs[t], h \in {"default", "own"} :
       sig' = [sig EXCEPT ![t][s] = h]
  /\ hw' = [hw EXCEPT ![t].at = "run", ![t].eax = 0]
  /\ GoTo(t, "check")
  /\ UNCHANGED <<cpu, showing, saved, signal_pending, signal_masked,
                 previous_masked, alarm_time, kernel_hw_context_ptr>>

(* The user's memory is gone, and with it the code of the handlers; sig,   *)
(* in the PCB, keeps their addresses, and hw, on the kernel's stack, eax.  *)
SystemHalt(t) ==
  /\ GoTo(t, "halted")
  /\ sig' = [sig EXCEPT ![t] = [s \in Signum |->
                IF sig[t][s] = "default" THEN "default" ELSE "stale"]]
  /\ hw' = [hw EXCEPT ![t] = [Main EXCEPT !.eax = hw[t].eax]]
  /\ saved' = [saved EXCEPT ![t] = << >>]

Halt(t) ==
  /\ InUserMode(t) /\ ~Faults(t)
  /\ SystemHalt(t)
  /\ UNCHANGED <<cpu, showing, signal_pending, signal_masked, previous_masked,
                 alarm_time, kernel_hw_context_ptr>>
-----------------------------------------------------------------------------
(* Mutant: the loop over the handlers is left out.                         *)
TaskSignalInitForgets(t) ==
  /\ signal_pending' = [signal_pending EXCEPT ![t] = {}]
  /\ signal_masked' = [signal_masked EXCEPT ![t] = {}]
  /\ alarm_time' = [alarm_time EXCEPT ![t] = 0]
  /\ UNCHANGED <<previous_masked, sig>>

(* task_signal_init leaves previous_masked as the last program left it.    *)
TaskSignalInit(t) ==
  /\ signal_pending' = [signal_pending EXCEPT ![t] = {}]
  /\ signal_masked' = [signal_masked EXCEPT ![t] = {}]
  /\ alarm_time' = [alarm_time EXCEPT ![t] = 0]
  /\ sig' = [sig EXCEPT ![t] = [s \in Signum |-> "default"]]
  /\ UNCHANGED previous_masked

(* The next program of the task begins. Bound: it gets the PCB of the      *)
(* task's last one.                                                        *)
Execute(t) ==
  /\ cpu = t /\ phase[t] = "halted"
  /\ TaskSignalInit(t)
  /\ GoTo(t, "user")
  /\ hw' = [hw EXCEPT ![t] = Main]
  /\ UNCHANGED <<cpu, showing, saved, kernel_hw_context_ptr>>
-----------------------------------------------------------------------------
(* check_signal                                                            *)

(* Mutant: a masked signal is delivered too.                               *)
DeliverableAll(t) == signal_pending[t]

Deliverable(t) == signal_pending[t] \ signal_masked[t]

(* Mutant: restore_signal is not called after a default handler.           *)
RestoreMaskNot(t) == signal_masked' = [signal_masked EXCEPT ![t] = MASK_ALL]

(* restore_signal                                                          *)
RestoreMask(t) == signal_masked' = [signal_masked EXCEPT ![t] = previous_masked'[t]]

(* user_handler_helper                                                     *)
StartHandler(t, s) ==
  /\ saved' = [saved EXCEPT ![t] = <<hw[t]>> \o @]
  /\ hw' = [hw EXCEPT ![t].code = s, ![t].at = "run"]

(* The lowest of the signals is delivered, all the others are forgotten.   *)
Deliver(t, s) ==
  /\ previous_masked' = [previous_masked EXCEPT ![t] = signal_masked[t]]
  /\ signal_pending' = [signal_pending EXCEPT ![t] = {}]
  /\ \/ /\ sig[t][s] = "default" /\ s \in 0 .. INTERRUPT
        /\ SystemHalt(t)
        /\ signal_masked' = [signal_masked EXCEPT ![t] = MASK_ALL]
     \/ /\ sig[t][s] = "default" /\ s \notin 0 .. INTERRUPT
        /\ GoTo(t, "user")
        /\ RestoreMask(t)
        /\ UNCHANGED <<hw, saved, sig>>
     \/ /\ sig[t][s] # "default"
        /\ GoTo(t, "user")
        /\ signal_masked' = [signal_masked EXCEPT ![t] = MASK_ALL]
        /\ StartHandler(t, s)
        /\ UNCHANGED sig

CheckSignal(t) ==
  /\ cpu = t /\ phase[t] = "check"
  /\ IF Deliverable(t) = {}
     THEN GoTo(t, "user")
          /\ UNCHANGED <<hw, saved, signal_pending, signal_masked, previous_masked, sig>>
     ELSE Deliver(t, Min(Deliverable(t)))
  /\ UNCHANGED <<cpu, showing, alarm_time, kernel_hw_context_ptr>>
-----------------------------------------------------------------------------
(* sys_sig_return, which the code on the user's stack calls when a handler *)
(* returns. Bound: a program calls it in no other way.                     *)

(* The pointer to hw is stored in a global, the registers are copied back, *)
(* and the mask: all of it but the global is the task's own.               *)
SigReturn(t) ==
  /\ InUserMode(t) /\ ~Faults(t) /\ InHandler(t)
  /\ kernel_hw_context_ptr' = t
  /\ hw' = [hw EXCEPT ![t] = Head(saved[t])]
  /\ saved' = [saved EXCEPT ![t] = Tail(@)]
  /\ UNCHANGED previous_masked
  /\ RestoreMask(t)
  /\ GoTo(t, "fetch")
  /\ UNCHANGED <<cpu, showing, signal_pending, sig, alarm_time>>

(* eax, which sys_call_finish stores in hw, is read through the global.    *)
FetchEax(t) ==
  /\ cpu = t /\ phase[t] = "fetch"
  /\ hw' = [hw EXCEPT ![t].eax = hw[kernel_hw_context_ptr].eax]
  /\ GoTo(t, "check")
  /\ UNCHANGED <<cpu, showing, saved, signals, kernel_hw_context_ptr>>
-----------------------------------------------------------------------------
(* Interrupts. One that comes in user mode ends with check_signal of the   *)
(* task it interrupted; in the kernel check_signal does nothing.           *)

(* Mutant: the entry of an interrupt does not check for signals.           *)
EntryUnchecked == phase

Entry == IF phase[cpu] = "user" THEN [phase EXCEPT ![cpu] = "check"] ELSE phase

(* signal_send(2) and (3): to the task that is showing.                    *)
SendToShowing(S) == signal_pending' = [signal_pending EXCEPT ![showing] = @ \cup S]

CtrlC ==
  /\ SendToShowing({INTERRUPT})
  /\ phase' = Entry
  /\ UNCHANGED <<cpu, showing, hw, saved, signal_masked, previous_masked,
                 sig, alarm_time, kernel_hw_context_ptr>>

(* Alt and a function key                                                  *)
SwitchTerminal ==
  /\ showing' \in Task \ {showing}
  /\ phase' = Entry
  /\ UNCHANGED <<cpu, hw, saved, signals, kernel_hw_context_ptr>>

(* The timer: the alarm of the task that is showing; then the CPU may go   *)
(* to another task.                                                        *)
AlarmDue == alarm_time[showing] + AlarmStep > AlarmTime

Pit(next) ==
  /\ alarm_time' = [alarm_time EXCEPT ![showing] = IF AlarmDue THEN 0 ELSE @ + AlarmStep]
  /\ SendToShowing(IF AlarmDue THEN {ALARM} ELSE {})
  /\ cpu' = next
  /\ phase' = Entry
  /\ UNCHANGED <<showing, hw, saved, signal_masked, previous_masked, sig,
                 kernel_hw_context_ptr>>
-----------------------------------------------------------------------------
Init ==
  /\ cpu \in Task /\ showing \in Task
  /\ phase = [t \in Task |-> "halted"]
  /\ hw = [t \in Task |-> Main]
  /\ saved = [t \in Task |-> << >>]
  /\ signal_pending = [t \in Task |-> {}]
  /\ signal_masked = [t \in Task |-> {}]
  /\ previous_masked = [t \in Task |-> {}]
  /\ sig = [t \in Task |-> [s \in Signum |-> "default"]]
  /\ alarm_time = [t \in Task |-> 0]
  /\ kernel_hw_context_ptr = NULL

UserWork(t) ==
  \/ UserStep(t) \/ Patch(t) \/ Exception(t) \/ Call(t) \/ SetHandler(t)
  \/ Halt(t) \/ SigReturn(t)

TaskStep(t) ==
  \/ UserWork(t)
  \/ CallReturns(t) \/ FetchEax(t) \/ CheckSignal(t)
  \/ Execute(t)

Next ==
  \/ \E t \in Task : TaskStep(t)
  \/ CtrlC \/ SwitchTerminal
  \/ \E next \in Task : Pit(next)

Spec == Init /\ [][Next]_vars

(* The timer goes round the tasks; a time slice is long enough to leave    *)
(* the kernel and for an instruction; calls return.                        *)
FairSpec ==
  /\ Spec
  /\ \A t \in Task : WF_vars(Pit(t)) /\ SF_vars(TaskStep(t)) /\ SF_vars(UserWork(t))
-----------------------------------------------------------------------------
Phases == {"user", "call", "check", "fetch", "halted"}

(* The types; off the CPU a task is in the kernel.                         *)
TypeOK ==
  /\ cpu \in Task /\ showing \in Task /\ kernel_hw_context_ptr \in Task \cup {NULL}
  /\ phase \in [Task -> Phases]
  /\ \A t \in Task : phase[t] = "user" => t = cpu
  /\ hw \in [Task -> Context]
  /\ saved \in [Task -> Seq(Context)]
  /\ signal_pending \in [Task -> SUBSET Signum]
  /\ signal_masked \in [Task -> SUBSET Signum]
  /\ previous_masked \in [Task -> SUBSET Signum]
  /\ sig \in [Task -> [Signum -> Handler]]
  /\ alarm_time \in [Task -> 0 .. AlarmTime]

(* All signals are masked exactly while a user's handler runs. So handlers *)
(* do not nest: there is one saved context, that of the main program, and  *)
(* previous_masked, which has room for one mask, is enough.                *)
MaskMatchesHandler ==
  \A t \in Task : phase[t] # "halted" =>
    /\ signal_masked[t] = IF InHandler(t) THEN MASK_ALL ELSE {}
    /\ Len(saved[t]) = IF InHandler(t) THEN 1 ELSE 0
    /\ InHandler(t) => saved[t][1].code = MAIN /\ previous_masked[t] = {}

(* However a program ends - by halt, or killed by a signal while one of    *)
(* its handlers was to run - the next program in its PCB is given none of  *)
(* its handlers: check_signal never enters code that is no longer there.   *)
OwnHandlers ==
  \A t \in Task : phase[t] # "halted" =>
    \A s \in Signum : sig[t][s] # "stale"

(* A signal that is sent while a handler runs waits for its end.           *)
KeptInHandler ==
  [][\A t \in Task : InHandler(t) /\ phase[t] # "halted"
                       => signal_pending[t] \subseteq signal_pending'[t]]_vars

(* A program that faults does not stay at the instruction, and Control-C   *)
(* reaches one that never calls the kernel: the program ends, or one of    *)
(* its handlers runs. For Control-C this is the handler it has for it, one *)
(* that masks it, or that of an exception whose delivery has cleared it.   *)
Served ==
  \A t \in Task :
    (INTERRUPT \in signal_pending[t] \/ (InUserMode(t) /\ Faults(t)))
      ~> (phase[t] = "halted" \/ InHandler(t))

(* What ece391sigtest.c:35-45 and :67-69 rely on: the handler stores a     *)
(* good address in the eax of the saved context, and the program, when the *)
(* handler has returned, goes on with it.                                  *)
ContextBack ==
  [][\A t \in Task : FetchEax(t) => hw'[t] = hw[t]]_vars
=============================================================================

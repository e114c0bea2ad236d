--------------------------------- MODULE Pic ---------------------------------
(***************************************************************************)
(* The two 8259 interrupt controllers (i8259.c), the interrupt entries of  *)
(* boot.S, and when each handler acknowledges its interrupt.               *)
(*                                                                         *)
(* Every gate is a trap gate: interrupts are on in a handler, except in    *)
(* its critical sections, each of which is one step here. A handler runs   *)
(* on the kernel stack of the task it interrupted, frames[t]; when the     *)
(* timer's handler switches tasks, the handlers under it wait there until  *)
(* the task runs again. Tasks that execute, wait and halt are in Process;  *)
(* they do so in user mode or in system calls, without a handler below.    *)
(***************************************************************************)
EXTENDS Integers, Sequences, FiniteSets, SequencesExt

CONSTANTS
  Task,
  Boot,        (* the task that runs first                                 *)
  MaxFrames    (* bound: handlers on one kernel stack                      *)

PIT == 0
KEYBOARD == 1
SLAVE_CAS_PORT == 2
DSP_IRQ_NUM == 5
RTC == 8
MOUSE == 12

Slave == {RTC, MOUSE}
Irq == {PIT, KEYBOARD, DSP_IRQ_NUM} \cup Slave
Line == Irq \cup {SLAVE_CAS_PORT}

ASSUME TaskAssumption == Boot \in Task
ASSUME BoundAssumption == MaxFrames \in Nat \ {0}

VARIABLES
  isr,         \* the lines in service
  masked,      \* the lines that are off
  frames,      \* frames[t]: [irq, at], at is the next step in the handler
  cpu          \* the running task

pic == <<isr, masked>>
vars == <<pic, frames, cpu>>
-----------------------------------------------------------------------------
(* The acknowledgements of a handler and the entry around it; what else it *)
(* does comes before, between and after them.                              *)
(* "eoi" is send_eoi to the master; for a line of the slave send_eoi is    *)
(* "slave", then "cascade". The timer sends its own while interrupts are   *)
(* off, and may switch tasks in the same section.                          *)

(* Mutant: the master is told first.                                       *)
CascadeFirst ==
  [irq \in Irq |->
     CASE irq = PIT -> << "tick" >>
       [] irq \in {KEYBOARD, DSP_IRQ_NUM} -> << "eoi", "eoi" >>
       [] OTHER -> << "cascade", "slave" >>]

(* Mutant: a line of the slave is acknowledged to the slave only.          *)
SlaveOnly ==
  [irq \in Irq |->
     CASE irq = PIT -> << "tick" >>
       [] irq \in {KEYBOARD, DSP_IRQ_NUM} -> << "eoi", "eoi" >>
       [] OTHER -> << "slave" >>]

Handler ==
  [irq \in Irq |->
     CASE irq = PIT -> << "tick" >>
       [] irq \in {KEYBOARD, DSP_IRQ_NUM} -> << "eoi", "eoi" >>
       [] OTHER -> << "slave", "cascade" >>]

Top(t) == Last(frames[t])
Step(f) == IF f.at <= Len(Handler[f.irq]) THEN Handler[f.irq][f.at] ELSE "iret"

(* The steps of a handler still to come.                                   *)
ToCome(f) == {Handler[f.irq][k] : k \in f.at .. Len(Handler[f.irq])}

Switched(t) == frames[t] # << >> /\ Top(t).irq = PIT /\ Top(t).at = 1

Advanced(t) == Append(Front(frames[t]), [Top(t) EXCEPT !.at = @ + 1])
-----------------------------------------------------------------------------
(* The controllers: a line is served unless one of at least its priority   *)
(* is; the slave's have that of the master's line 2.                       *)
OnMaster(l) == IF l \in Slave THEN SLAVE_CAS_PORT ELSE l

Blocked(l) ==
  \/ \E m \in isr \ Slave : m <= OnMaster(l)
  \/ l \in Slave /\ \E m \in isr \cap Slave : m <= l

(* A device raises its line, and the CPU takes the interrupt. A request    *)
(* that waits meanwhile could as well have come later.                     *)
Accept(l) ==
  /\ l \notin masked /\ ~Blocked(l)
  /\ Len(frames[cpu]) < MaxFrames
  /\ isr' = isr \cup {l, OnMaster(l)}
  /\ frames' = [frames EXCEPT ![cpu] = Append(@, [irq |-> l, at |-> 1])]
  /\ UNCHANGED <<masked, cpu>>

(* enable_irq(DSP_IRQ_NUM) in audio_open; nothing disables a line.         *)
EnableIrq ==
  /\ DSP_IRQ_NUM \in masked
  /\ masked' = masked \ {DSP_IRQ_NUM}
  /\ UNCHANGED <<isr, frames, cpu>>
-----------------------------------------------------------------------------
(* The next step of the handler that runs                                  *)
Runs(step) == frames[cpu] # << >> /\ Step(Top(cpu)) = step

Goes == frames' = [frames EXCEPT ![cpu] = Advanced(cpu)]

(* send_eoi names the line: it ends its service, whoever is in it.         *)
Eoi(step, l) ==
  /\ Runs(step)
  /\ isr' = isr \ {l}
  /\ Goes
  /\ UNCHANGED <<masked, cpu>>

SendEoi ==
  \/ Eoi("eoi", Top(cpu).irq)
  \/ Eoi("slave", Top(cpu).irq)
  \/ Eoi("cascade", SLAVE_CAS_PORT)

(* Mutant: the return for an overflow, without an acknowledgement.         *)
TickUnacknowledged ==
  /\ Runs("tick")
  /\ Goes
  /\ UNCHANGED <<pic, cpu>>

(* pit_interrupt_handler when the task goes on. Bound: stacks are deep     *)
(* enough; else it returns before send_eoi (scheduler.c:265).              *)
Tick ==
  /\ Runs("tick")
  /\ isr' = isr \ {PIT}
  /\ Goes
  /\ UNCHANGED <<masked, cpu>>

(* When it reschedules, the other task leaves the handler in which it was  *)
(* switched away.                                                          *)
Reschedule(next) ==
  /\ Runs("tick")
  /\ next # cpu /\ Switched(next)
  /\ isr' = isr \ {PIT}
  /\ frames' = [frames EXCEPT ![next] = Advanced(next)]
  /\ cpu' = next
  /\ UNCHANGED masked

Iret ==
  /\ Runs("iret")
  /\ frames' = [frames EXCEPT ![cpu] = Front(@)]
  /\ UNCHANGED <<pic, cpu>>
-----------------------------------------------------------------------------
(* i8259_init and what entry enables; some tasks have been started.        *)
Init ==
  /\ isr = {} /\ masked = {DSP_IRQ_NUM}
  /\ cpu = Boot
  /\ frames = [t \in Task |-> IF t = Boot THEN << >> ELSE << [irq |-> PIT, at |-> 1] >>]

HandlerStep == SendEoi \/ Tick \/ Iret

Next ==
  \/ \E l \in Irq : Accept(l)
  \/ EnableIrq
  \/ HandlerStep
  \/ \E next \in Task : Reschedule(next)

Spec == Init /\ [][Next]_vars

(* The step of the n-th handler on the stack of t.                         *)
StepOf(t, n) == cpu = t /\ Len(frames[t]) = n /\ HandlerStep

(* The timer goes on ticking, and is heard; a handler executes             *)
(* instructions between its interruptions; each task gets its turn.        *)
FairSpec ==
  /\ Spec
  /\ SF_vars(Accept(PIT))
  /\ \A t \in Task : SF_vars(Reschedule(t))
  /\ \A t \in Task, n \in 1 .. MaxFrames : SF_vars(StepOf(t, n))
-----------------------------------------------------------------------------
Frame == [irq : Irq, at : 1 .. 3]

TypeOK ==
  /\ isr \subseteq Line /\ masked \subseteq Irq
  /\ frames \in [Task -> Seq(Frame)]
  /\ cpu \in Task

(* The handlers that have not sent the acknowledgement step yet            *)
Waiting(step) ==
  {w \in Task \X (1 .. MaxFrames) :
     LET t == w[1] n == w[2]
     IN n \in DOMAIN frames[t] /\ step \in ToCome(frames[t][n])}

(* The RTC's handler, which draws the screen, and the mouse's, which moves *)
(* what it draws, never run inside one another nor side by side on two     *)
(* stacks, whatever preempts them.                                         *)
SlaveAlone == Cardinality(Waiting("slave")) <= 1

(* A line in service has a handler that will acknowledge it, also when the *)
(* second acknowledgement of one has ended the service of another.         *)
ServiceHasHandler ==
  \A l \in isr :
    IF l = PIT THEN frames[cpu] # << >> /\ Top(cpu) = [irq |-> PIT, at |-> 1]
    ELSE \E t \in Task : \E n \in DOMAIN frames[t] :
           LET f == frames[t][n]
           IN OnMaster(f.irq) = OnMaster(l) /\
              ToCome(f) \cap (IF l = SLAVE_CAS_PORT THEN {"cascade"} ELSE {"eoi", "slave"}) # {}

(* No line stays in service: a handler that is preempted blocks all lines  *)
(* of lower priority, but not for ever.                                    *)
ServiceEnds == \A l \in Line : []<>(l \notin isr)
=============================================================================

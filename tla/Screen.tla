------------------------------- MODULE Screen -------------------------------
(***************************************************************************)
(* The text screens of the terminals: putc and what goes with it (lib.c),  *)
(* the switch of the running terminal (terminal_set_running) and of the    *)
(* user's video page (set_video_memory_SVGA, process_user_vidmap), and the *)
(* calls of them in the keyboard handler, in reschedule, and in the        *)
(* sys_execute with which init opens the shell of a terminal.              *)
(*                                                                         *)
(* There is one cursor, that of the running terminal; the others' are put  *)
(* by. All text is in the terminals' buffers, one of which is mapped at    *)
(* the address putc writes to. Init's terminal is null_terminal, whose     *)
(* buffer is that of terminal 0.                                           *)
(*                                                                         *)
(* terminal_write and the handler of the keyboard draw with interrupts     *)
(* off. The kernel's own printf, clear and reset_screen do not: each of    *)
(* their accesses is a step, on whatever terminal runs by then, and from   *)
(* the first one on the screen is spoilt. What a spoilt screen shows, and  *)
(* where its cursor is, is not followed.                                   *)
(***************************************************************************)
EXTENDS Integers, Sequences, SequencesExt, FiniteSets

CONSTANTS
  NTerm,       (* MAX_TERMINAL  *)
  Char,        (* what is typed and written, but for newlines; not " " *)
  Rows, Cols   (* NUM_ROWS, NUM_COLS *)

Term == 0 .. NTerm - 1
NullTerminal == -1       \* null_terminal and its id; the task on the CPU: init
Nobody == -2
Blank == " "
Row == 0 .. Rows - 1
Col == 0 .. Cols - 1

ASSUME SizeAssumption == {NTerm, Rows, Cols} \subseteq Nat \ {0, 1}
ASSUME CharAssumption == Blank \notin Char

VARIABLES
  text,                    \* the buffers
  screen_x, screen_y,      \* the cursor of the running terminal
  saved_x, saved_y,        \* those of the others
  running,                 \* running_term
  showing,                 \* the terminal of the task that is showing
  cpu,                     \* the terminal of the task that is running
  user_page,               \* the terminal whose buffer users write to
  alive,                   \* the terminals that have a shell
  opening, opens,          \* what init does in sys_execute, and for whom
  first,                   \* the task on the CPU is a shell that just began
  spoilt                   \* see Lines

cursors == <<screen_x, screen_y, saved_x, saved_y>>
tasks == <<showing, cpu, user_page, alive, opening, opens, first>>
vars == <<text, cursors, running, tasks, spoilt>>

Buffer(t) == IF t = NullTerminal THEN 0 ELSE t
-----------------------------------------------------------------------------
(* putc and delete_last on a buffer and a cursor, s: they return both.     *)

Scrolled(b) ==
  [r \in Row |-> IF r = Rows - 1 THEN [c \in Col |-> Blank] ELSE b[r + 1]]

Newline(s) ==
  IF s.y + 1 = Rows THEN [b |-> Scrolled(s.b), x |-> 0, y |-> s.y]
  ELSE [b |-> s.b, x |-> 0, y |-> s.y + 1]

PutChar(s, c) ==
  LET b == [s.b EXCEPT ![s.y][s.x] = c]
      full == s.x + 1 = Cols
      last == full /\ s.y + 1 = Rows
      y == IF last THEN s.y - 1 ELSE s.y
  IN [b |-> IF last THEN Scrolled(b) ELSE b,
      x |-> IF full THEN 0 ELSE s.x + 1,
      y |-> IF full THEN y + 1 ELSE y]

DeleteLast(s) ==
  LET up == s.x = 0 /\ s.y > 0
      x == IF up THEN Cols ELSE s.x
      y == IF up THEN s.y - 1 ELSE s.y
  IN IF x = 0 THEN s ELSE [b |-> [s.b EXCEPT ![y][x - 1] = Blank], x |-> x - 1, y |-> y]

(* clear and reset_screen                                                  *)
Cleared(s) == [b |-> [r \in Row |-> [c \in Col |-> Blank]], x |-> s.x, y |-> s.y]
Home(s) == [b |-> s.b, x |-> 0, y |-> 0]

(* What is written to the screen of the running terminal.                  *)
Screen(t) ==
  [b |-> text[Buffer(t)],
   x |-> IF t = running THEN screen_x ELSE saved_x[t],
   y |-> IF t = running THEN screen_y ELSE saved_y[t]]

Shows(s) ==
  /\ text' = [text EXCEPT ![Buffer(running)] = s.b]
  /\ screen_x' = s.x /\ screen_y' = s.y
  /\ UNCHANGED <<saved_x, saved_y, running>>

(* An access of printf, clear or reset_screen to a cell or to the cursor.  *)
Touch ==
  /\ spoilt' = spoilt \cup {Buffer(running)}
  /\ UNCHANGED <<text, cursors, running>>
-----------------------------------------------------------------------------
(* Mutant: the cursor of the terminal that stops running is not put by.    *)
SetRunningForgets(t) ==
  /\ running' = t
  /\ screen_x' = Screen(t).x /\ screen_y' = Screen(t).y
  /\ UNCHANGED <<saved_x, saved_y>>

(* terminal_set_running                                                    *)
SetRunning(t) ==
  /\ running' = t
  /\ saved_x' = [saved_x EXCEPT ![running] = screen_x]
  /\ saved_y' = [saved_y EXCEPT ![running] = screen_y]
  /\ screen_x' = Screen(t).x /\ screen_y' = Screen(t).y

(* Mutant: the page is that of the task that is shown.                     *)
UserVidmapOf(shown) == user_page' = shown

(* set_showing_task(NULL or a task of terminal shown): process_user_vidmap *)
(* is for the task that is running. Init's page is unmapped.               *)
UserVidmap(shown) == user_page' = cpu

(* Mutant: the next task writes where the last one did.                    *)
RescheduleOnly(next) ==
  /\ next \in alive \cup {NullTerminal} /\ next # cpu
  /\ cpu' = next /\ user_page' = next
  /\ first' = FALSE
  /\ UNCHANGED <<text, cursors, running, showing, alive, opening, opens, spoilt>>

(* reschedule                                                              *)
Reschedule(next) ==
  /\ next \in alive \cup {NullTerminal} /\ next # cpu
  /\ SetRunning(next)
  /\ cpu' = next /\ user_page' = next
  /\ first' = FALSE
  /\ UNCHANGED <<text, showing, alive, opening, opens, spoilt>>
-----------------------------------------------------------------------------
(* terminal_write, of the task that is running.                            *)
Writes(s) ==
  /\ cpu \in Term /\ running \in Term \ spoilt
  /\ Shows(s)
  /\ UNCHANGED <<tasks, spoilt>>

(* printf: a task's when a call of it fails; init's, whose terminal is no  *)
(* screen of its own, for what goes wrong before or after an opening.      *)
Printf ==
  /\ opening = "no" \/ cpu # NullTerminal
  /\ Touch
  /\ UNCHANGED tasks

Write ==
  \/ \E c \in Char : Writes(PutChar(Screen(running), c))
  \/ Writes(Newline(Screen(running)))
  \/ Printf

(* keyboard_interrupt_handler: the terminal that is shown runs while the   *)
(* key is handled, then that of the interrupted task. Bound: keys come     *)
(* while a task is shown.                                                  *)
KeyOn(s) ==
  /\ showing \in Term
  /\ text' = [text EXCEPT ![showing] = s.b]
  /\ LET x == [saved_x EXCEPT ![running] = screen_x, ![showing] = s.x]
         y == [saved_y EXCEPT ![running] = screen_y, ![showing] = s.y]
     IN /\ saved_x' = x /\ saved_y' = y
        /\ screen_x' = x[cpu] /\ screen_y' = y[cpu]
  /\ running' = cpu
  /\ first' = FALSE
  /\ UNCHANGED <<showing, cpu, user_page, alive, opening, opens>>

(* Control-L clears the screen: it is as it should be again.               *)
Key ==
  \/ /\ \/ \E c \in Char : KeyOn(PutChar(Screen(showing), c))
        \/ KeyOn(Newline(Screen(showing)))
        \/ KeyOn(DeleteLast(Screen(showing)))
     /\ showing \notin spoilt /\ UNCHANGED spoilt
  \/ KeyOn(Screen(showing)) /\ showing \in spoilt /\ UNCHANGED spoilt
  \/ KeyOn(Home(Cleared(Screen(showing)))) /\ spoilt' = spoilt \ {showing}

(* Alt and a function key: as with any key the running terminal is set     *)
(* again.                                                                  *)
Focus(t) ==
  /\ showing \in Term
  /\ t \in alive
  /\ showing' = t
  /\ UserVidmap(t)
  /\ SetRunning(cpu)
  /\ first' = FALSE
  /\ UNCHANGED <<text, cpu, alive, opening, opens, spoilt>>

(* A press of the mouse on the window of a terminal                        *)
Click(t) ==
  /\ t \in alive
  /\ showing' = t
  /\ UserVidmap(t)
  /\ UNCHANGED <<text, cursors, running, cpu, alive, opening, opens, first,
                 spoilt>>
-----------------------------------------------------------------------------
(* A shell halts. Bound: when it was shown, nobody is until the next one   *)
(* begins; the code may show the terminal that has become empty.           *)
Halt(next) ==
  /\ cpu \in Term
  /\ alive' = alive \ {cpu}
  /\ next \in alive' \cup {NullTerminal}
  /\ showing' = IF showing = cpu THEN Nobody ELSE showing
  /\ SetRunning(next)
  /\ cpu' = next /\ user_page' = next
  /\ first' = FALSE
  /\ UNCHANGED <<text, opening, opens, spoilt>>

(* Init opens a shell: sys_execute with separate_terminal, interrupts on.  *)
At(step) == cpu = NullTerminal /\ opening = step

Opening(step) ==
  /\ opening' = step
  /\ UNCHANGED <<cpu, alive, first>>

(* terminal_allocate; what the last shell wrote is still in the buffer.    *)
Allocate ==
  /\ At("no") /\ alive # Term
  /\ opens' = CHOOSE t \in Term \ alive : \A u \in Term \ alive : t <= u
  /\ saved_x' = [saved_x EXCEPT ![opens'] = 0]
  /\ saved_y' = [saved_y EXCEPT ![opens'] = 0]
  /\ spoilt' = spoilt \cup {opens'}
  /\ Opening("show")
  /\ UNCHANGED <<text, screen_x, screen_y, running, showing, user_page>>

(* set_showing_task                                                        *)
Show ==
  /\ At("show")
  /\ showing' = opens
  /\ UserVidmap(opens)
  /\ Opening("run")
  /\ UNCHANGED <<text, cursors, running, opens, spoilt>>

Run ==
  /\ At("run")
  /\ SetRunning(opens)
  /\ Opening("draw")
  /\ UNCHANGED <<text, showing, user_page, opens, spoilt>>

(* clear, reset_screen and the printf of the title, access by access. Init *)
(* that was preempted goes on with null_terminal, over terminal 0.         *)
Draw ==
  /\ At("draw")
  /\ Touch
  /\ UNCHANGED tasks

(* The last of them. If the terminal of the shell still runs, then nothing *)
(* drew between: a switch of task and any key leave null_terminal running. *)
(* Of the title its line is kept here.                                     *)
Titled(s) == Newline(Home(Cleared(s)))

Title ==
  /\ At("draw")
  /\ \/ /\ running = opens
        /\ Shows(Titled(Screen(opens)))
        /\ spoilt' = spoilt \ {opens}
     \/ running # opens /\ Touch
  /\ Opening("enter")
  /\ UNCHANGED <<showing, user_page, opens>>

(* The shell is in the run queue, and on the CPU.                          *)
Enter ==
  /\ At("enter")
  /\ opening' = "no" /\ opens' = Nobody
  /\ alive' = alive \cup {opens}
  /\ cpu' = opens /\ first' = TRUE
  /\ UNCHANGED <<text, cursors, running, showing, user_page, spoilt>>

(* sys_vidmap, of a task that has a terminal                               *)
Vidmap ==
  /\ cpu \in Term
  /\ user_page' = cpu
  /\ UNCHANGED <<text, cursors, running, showing, cpu, alive, opening, opens,
                 first, spoilt>>
-----------------------------------------------------------------------------
(* vidmap_init; init is on the CPU and no shell is open yet.               *)
Init ==
  /\ text = [t \in Term |-> [r \in Row |-> [c \in Col |-> Blank]]]
  /\ screen_x = 0 /\ screen_y = 0
  /\ saved_x = [t \in Term \cup {NullTerminal} |-> 0]
  /\ saved_y = [t \in Term \cup {NullTerminal} |-> 0]
  /\ running = NullTerminal /\ showing = Nobody /\ cpu = NullTerminal
  /\ user_page = NullTerminal
  /\ alive = {} /\ opening = "no" /\ opens = Nobody /\ first = FALSE
  /\ spoilt = {}

Next ==
  \/ Write \/ Key \/ \E t \in Term : Focus(t) \/ Click(t)
  \/ Vidmap
  \/ \E next \in Term \cup {NullTerminal} : Reschedule(next) \/ Halt(next)
  \/ Allocate \/ Show \/ Run \/ Draw \/ Title \/ Enter

Spec == Init /\ [][Next]_vars
-----------------------------------------------------------------------------
Task == Term \cup {NullTerminal}

TypeOK ==
  /\ text \in [Term -> [Row -> [Col -> Char \cup {Blank}]]]
  /\ screen_x \in Col /\ screen_y \in Row
  /\ saved_x \in [Task -> Col] /\ saved_y \in [Task -> Row]
  /\ running \in Task /\ cpu \in Task /\ user_page \in Task
  /\ showing \in Term \cup {Nobody} /\ opens \in Term \cup {Nobody}
  /\ alive \subseteq Term
  /\ opening \in {"no", "show", "run", "draw", "enter"}
  /\ first \in BOOLEAN
  /\ spoilt \subseteq Term

(* The one cursor and the buffers serve each terminal as a screen of its   *)
(* own, through every switch of task, key and scroll; and what the kernel  *)
(* prints or clears, interrupted where it may be, is on no screen but that *)
(* of the terminal that runs, or for init that of terminal 0.              *)
LinesOf(s) ==
  [n \in 1 .. s.y + 1 |->
     LET line == [k \in 1 .. Cols |-> s.b[n - 1][k - 1]]
     IN IF n = s.y + 1 THEN SubSeq(line, 1, s.x)
        ELSE SubSeq(line, 1, CHOOSE m \in 0 .. Cols :
               /\ \A k \in m + 1 .. Cols : line[k] = Blank
               /\ m > 0 => line[m] # Blank)]

Lines == INSTANCE Lines WITH
  lines <- [t \in Term |-> IF t \in spoilt THEN << << >> >> ELSE LinesOf(Screen(t))]

ImplementsLines == Lines!Spec

(* What the task of a terminal writes goes to that terminal and no other;  *)
(* a shell has to be interrupted once before that is so.                   *)
OutputStaysHome ==
  [][Write /\ cpu \in Term /\ ~first
       => \A t \in Term \ {cpu} :
            text'[t] = text[t] /\ (t \in spoilt' => t \in spoilt)]_vars

(* The page that a user's program writes its pictures to is never that of  *)
(* another terminal.                                                       *)
UserPageOwn == cpu \in Term => user_page \in {cpu, NullTerminal}
=============================================================================

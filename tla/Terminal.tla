------------------------------ MODULE Terminal ------------------------------
(***************************************************************************)
(* The line discipline of HEROS (terminal.c): keys go through the keyboard *)
(* interrupt into the line buffer of the terminal on show, terminal_read   *)
(* busy-waits for a newline in it and copies the line out.                 *)
(*                                                                         *)
(* One CPU and one reading task per terminal. The keyboard handler reads   *)
(* its scan code and acknowledges the interrupt BEFORE it clears the       *)
(* interrupt flag (terminal.c:149-152), so until then another key may be   *)
(* handled on top of it, or the timer may give the CPU to another task:    *)
(* frames[t] are the keys held by handlers on the kernel stack of task t.  *)
(* terminal_read has two critical sections, the scan and the copy, and     *)
(* anything may happen between them.                                       *)
(*                                                                         *)
(* "overflow": a newline was stored past the end of buf; the model stops.  *)
(***************************************************************************)
EXTENDS Integers, Sequences, FiniteSets, FiniteSetsExt, SequencesExt

CONSTANTS
  Size,      (* KEYBOARD_BUF_SIZE                                          *)
  Term,      (* the terminals, each with its task                          *)
  Char,      (* what the other keys type: not the newline                  *)
  Asks,      (* the nbytes that programs ask for                           *)
  Edits,     (* which of the keys "backspace" and "ctrl_c" are pressed     *)
  MaxNested  (* bound on the keyboard handlers on one kernel stack         *)

NL == "newline"

ASSUME SizeAssumption == Size \in Nat /\ Size >= 2
ASSUME AsksAssumption == Asks \subseteq Nat \ {0}
ASSUME CharAssumption == NL \notin Char /\ Char # {}
ASSUME TermAssumption == Term # {} /\ MaxNested \in Nat
ASSUME EditsAssumption == Edits \subseteq {"backspace", "ctrl_c"}

VARIABLES
  buf, buf_cnt, user_ask,  \* terminal_struct_t
  showing,                 \* the terminal of get_showing_task()
  cpu, frames,             \* the task that runs; handlers on its stack
  pc, nbytes, j,           \* the locals of terminal_read
  got,                     \* what the last read returned
  fault

termVars == <<buf, buf_cnt, user_ask>>
readVars == <<pc, nbytes, j, got>>
vars == <<termVars, showing, cpu, frames, readVars, fault>>

Up == fault = "none"

Index == 0 .. Size - 1
Byte  == Char \cup {NL}

Key == [type : {"char"}, c : Byte] \cup [type : Edits]
         \cup [type : {"focus"}, to : Term]
-----------------------------------------------------------------------------
(* handle_input, for the key k of the terminal t on show *)

(* A key that types: it is appended unless the line is full.               *)
Fits(t) == buf_cnt[t] < Size - 1

CountAfter(t) == IF Fits(t) THEN buf_cnt[t] + 1 ELSE buf_cnt[t]

BufAfter(t, c) ==
  IF Fits(t) THEN [buf EXCEPT ![t][buf_cnt[t]] = c] ELSE buf

TypeChar(t, c) ==
  /\ c \in Char
  /\ buf' = BufAfter(t, c)
  /\ buf_cnt' = [buf_cnt EXCEPT ![t] = CountAfter(t)]
  /\ UNCHANGED <<showing, fault>>

(* Mutant: the newline that ends the read needs room like any other key.   *)
TypeEnterIfItFits(t) ==
  /\ user_ask[t] # 0
  /\ buf' = BufAfter(t, NL)
  /\ buf_cnt' = [buf_cnt EXCEPT ![t] = CountAfter(t)]
  /\ UNCHANGED <<showing, fault>>

(* Enter while a read waits: the key itself if it fits, then one newline   *)
(* whether it fits or not.                                                 *)
TypeEnter(t) ==
  /\ user_ask[t] # 0
  /\ IF CountAfter(t) \in Index
     THEN /\ buf' = [BufAfter(t, NL) EXCEPT ![t][CountAfter(t)] = NL]
          /\ buf_cnt' = [buf_cnt EXCEPT ![t] = CountAfter(t) + 1]
          /\ UNCHANGED fault
     ELSE fault' = "overflow" /\ UNCHANGED <<buf, buf_cnt>>
  /\ UNCHANGED showing

(* Mutant: a line nobody reads stays in the buffer.                        *)
KeepLine(t) ==
  /\ user_ask[t] = 0
  /\ buf' = BufAfter(t, NL)
  /\ buf_cnt' = [buf_cnt EXCEPT ![t] = CountAfter(t)]
  /\ UNCHANGED <<showing, fault>>

(* Enter while nobody reads: the line is dropped.                          *)
DropLine(t) ==
  /\ user_ask[t] = 0
  /\ buf' = BufAfter(t, NL)
  /\ buf_cnt' = [buf_cnt EXCEPT ![t] = 0]
  /\ UNCHANGED <<showing, fault>>

(* Mutant: an empty line loses a character.                                *)
EraseAlways(t) ==
  /\ buf_cnt' = [buf_cnt EXCEPT ![t] = @ - 1]
  /\ UNCHANGED <<buf, showing, fault>>

Erase(t) ==
  /\ buf_cnt' = [buf_cnt EXCEPT ![t] = IF @ = 0 THEN 0 ELSE @ - 1]
  /\ UNCHANGED <<buf, showing, fault>>

(* Ctrl+C also sends a signal, which is not part of this module.           *)
Interrupt(t) ==
  /\ buf_cnt' = [buf_cnt EXCEPT ![t] = 0]
  /\ UNCHANGED <<buf, showing, fault>>

Focus(t) == showing' = t /\ UNCHANGED <<buf, buf_cnt, fault>>

HandleInput(k) ==
  \/ k.type = "char" /\ k.c # NL /\ TypeChar(showing, k.c)
  \/ k.type = "char" /\ k.c = NL /\ (TypeEnter(showing) \/ DropLine(showing))
  \/ k.type = "backspace" /\ Erase(showing)
  \/ k.type = "ctrl_c" /\ Interrupt(showing)
  \/ k.type = "focus" /\ Focus(k.to)
-----------------------------------------------------------------------------
(* keyboard_interrupt_handler: up to the acknowledgement ...               *)
KeyArrives(k) ==
  /\ Up
  /\ Len(frames[cpu]) < MaxNested
  /\ frames' = [frames EXCEPT ![cpu] = Append(@, k)]
  /\ UNCHANGED <<termVars, showing, cpu, readVars, fault>>

(* ... and its critical section, the innermost handler first.              *)
KeyHandled ==
  /\ Up
  /\ frames[cpu] # << >>
  /\ HandleInput(Last(frames[cpu]))
  /\ frames' = [frames EXCEPT ![cpu] = Front(@)]
  /\ UNCHANGED <<user_ask, cpu, readVars>>

(* The timer may switch tasks at any of these points.                      *)
Preempt(t) ==
  /\ Up
  /\ t # cpu
  /\ cpu' = t
  /\ UNCHANGED <<termVars, showing, frames, readVars, fault>>

(* terminal_read of task t runs while t has the CPU and no handler on top. *)
Runs(t) == Up /\ cpu = t /\ frames[t] = << >>

ReadAsk(t, n) ==
  /\ Runs(t) /\ pc[t] = "user"
  /\ pc' = [pc EXCEPT ![t] = "scan"]
  /\ nbytes' = [nbytes EXCEPT ![t] = IF n >= Size THEN Size - 1 ELSE n]
  /\ user_ask' = [user_ask EXCEPT ![t] = nbytes'[t]]
  /\ got' = [got EXCEPT ![t] = << >>]
  /\ UNCHANGED <<buf, buf_cnt, showing, cpu, frames, j, fault>>

Newlines(t) == {i \in Index : i < buf_cnt[t] /\ buf[t][i] = NL}

(* One round of the busy loop, interrupts off; a round that finds no       *)
(* newline changes nothing.                                                *)
ReadScan(t) ==
  /\ Runs(t) /\ pc[t] = "scan"
  /\ Newlines(t) # {}
  /\ pc' = [pc EXCEPT ![t] = "found"]
  /\ j' = [j EXCEPT ![t] = Min(Newlines(t))]
  /\ UNCHANGED <<termVars, showing, cpu, frames, nbytes, got, fault>>

ReadDone(t) ==
  /\ Runs(t) /\ pc[t] = "found"
  /\ pc' = [pc EXCEPT ![t] = "copy"]
  /\ user_ask' = [user_ask EXCEPT ![t] = 0]
  /\ UNCHANGED <<buf, buf_cnt, showing, cpu, frames, nbytes, j, got, fault>>

(* Mutant: the line is not cut at nbytes.                                  *)
WholeLine(t) == j[t]

CutAt(t) == IF j[t] > nbytes[t] THEN nbytes[t] ELSE j[t]

(* The second critical section. The byte before buf[0] is the high byte of *)
(* screen_y, which is not a newline.                                       *)
EndsWithNewline(t, cut) == cut # 0 /\ buf[t][cut - 1] = NL

Line(t, cut) == [i \in 1 .. cut |-> buf[t][i - 1]]

ReadCopy(t) ==
  /\ Runs(t) /\ pc[t] = "copy"
  /\ pc' = [pc EXCEPT ![t] = "user"]
  /\ IF EndsWithNewline(t, CutAt(t))
     THEN /\ got' = [got EXCEPT ![t] = Line(t, CutAt(t))]
          /\ UNCHANGED buf
     ELSE /\ got' = [got EXCEPT ![t] = Append(Line(t, CutAt(t)), NL)]
          /\ buf' = [buf EXCEPT ![t][CutAt(t)] = NL]
  /\ buf_cnt' = [buf_cnt EXCEPT ![t] = 0]
  /\ UNCHANGED <<user_ask, showing, cpu, frames, nbytes, j, fault>>

(* terminal_allocate for the next shell, while the task of t is not        *)
(* reading                                                                 *)
Reallocate(t) ==
  /\ Up /\ pc[t] = "user" /\ frames[t] = << >>
  /\ buf_cnt' = [buf_cnt EXCEPT ![t] = 0]
  /\ UNCHANGED <<buf, user_ask, showing, cpu, frames, readVars, fault>>

ReadStep(t) == ReadScan(t) \/ ReadDone(t) \/ ReadCopy(t)
-----------------------------------------------------------------------------
Init ==
  /\ buf = [t \in Term |-> [i \in Index |-> CHOOSE c \in Char : TRUE]]
  /\ buf_cnt = [t \in Term |-> 0]
  /\ user_ask = [t \in Term |-> 0]
  /\ showing \in Term
  /\ cpu \in Term
  /\ frames = [t \in Term |-> << >>]
  /\ pc = [t \in Term |-> "user"]
  /\ nbytes = [t \in Term |-> 0]
  /\ j = [t \in Term |-> 0]
  /\ got = [t \in Term |-> << >>]
  /\ fault = "none"

(* After a fault the model stops.                                          *)
Stopped == ~Up /\ UNCHANGED vars

Next ==
  \/ \E k \in Key : KeyArrives(k)
  \/ KeyHandled
  \/ \E t \in Term :
       \/ Preempt(t)
       \/ \E n \in Asks : ReadAsk(t, n)
       \/ ReadScan(t) \/ ReadDone(t) \/ ReadCopy(t)
       \/ Reallocate(t)
  \/ Stopped

Spec == Init /\ [][Next]_vars

(* A task executes instructions in the quanta it gets.                     *)
HandlerStep(t) == cpu = t /\ KeyHandled

FairSpec ==
  Spec /\ \A t \in Term : SF_vars(HandlerStep(t)) /\ SF_vars(ReadStep(t))
-----------------------------------------------------------------------------
(* Types; in particular the count never leaves the buffer by more than the *)
(* one newline that Enter stores.                                          *)
TypeOK ==
  /\ buf \in [Term -> [Index -> Byte]]
  /\ buf_cnt \in [Term -> 0 .. Size]
  /\ user_ask \in [Term -> 0 .. Size - 1]
  /\ showing \in Term /\ cpu \in Term
  /\ frames \in [Term -> Seq(Key)]
  /\ pc \in [Term -> {"user", "scan", "found", "copy"}]
  /\ nbytes \in [Term -> 0 .. Size - 1]
  /\ j \in [Term -> Index]
  /\ got \in [Term -> Seq(Byte)]
  /\ fault \in {"none", "overflow"}

(* Whatever is typed between the two critical sections of terminal_read, a *)
(* read returns something that ends in a newline, fits the line buffer and *)
(* is at most one byte longer than what was asked for.                     *)
ReadWellFormed ==
  \A t \in Term : got[t] # << >> =>
    /\ got[t][Len(got[t])] = NL
    /\ Len(got[t]) <= nbytes[t] + 1 /\ Len(got[t]) <= Size

(* Between two reads there is never a newline in the buffer: a read only   *)
(* ends by an Enter that was typed while it waited, not by one typed       *)
(* ahead.                                                                  *)
NoEnterAhead ==
  Up => \A t \in Term : pc[t] = "user" =>
          user_ask[t] = 0 /\ Newlines(t) = {} /\ buf_cnt[t] <= Size - 1

(* An Enter that is handled while the terminal t on show is being read     *)
EnterFor(t) ==
  /\ KeyHandled /\ showing = t /\ pc[t] = "scan"
  /\ Last(frames[cpu]) = [type |-> "char", c |-> NL]

EditKey == KeyHandled /\ Last(frames[cpu]).type \in Edits

(* A reader that keeps getting the CPU, and whose user keeps pressing      *)
(* Enter and stops editing the line, gets it, also when the buffer is      *)
(* full: that is why Enter is stored even then.                            *)
EnterEndsRead ==
  \A t \in Term :
    (/\ []<>(cpu = t)
     /\ []<><<EnterFor(t)>>_vars
     /\ <>[][~EditKey]_vars) => []<>(~Up \/ pc[t] = "user")

(* terminal.c:99 "Manage the overflow issue": the line buffer never        *)
(* overflows. It does: see the findings.                                   *)
LineFits == fault # "overflow"
=============================================================================

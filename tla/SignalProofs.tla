---------------------------- MODULE SignalProofs -----------------------------
(* Proofs about Signal: the types, that handlers do not nest, that none is *)
(* inherited, and that a handler's signals wait for its end, for any tasks, *)
(* programs and alarm.                                                     *)
EXTENDS Signal, SequenceTheorems, WellFoundedInduction, TLAPS

(* A halted task has nothing left on its stack, so the next program of the *)
(* task starts without a saved context.                                    *)
HaltedIsClean == \A t \in Task : phase[t] = "halted" => saved[t] = << >>

(* Between the two halves of sigreturn the global points somewhere.        *)
FetchHasContext ==
  \A t \in Task : phase[t] = "fetch" => kernel_hw_context_ptr \in Task

Inductive ==
  TypeOK /\ MaskMatchesHandler /\ HaltedIsClean /\ FetchHasContext /\ OwnHandlers

-----------------------------------------------------------------------------
(* Contexts and their stack                                                *)

LEMMA Pushed ==
  ASSUME NEW c \in Context, NEW s \in Seq(Context)
  PROVE  /\ <<c>> \o s \in Seq(Context)
         /\ Len(<<c>> \o s) = Len(s) + 1
         /\ (<<c>> \o s)[1] = c
  OBVIOUS

LEMMA Popped ==
  ASSUME NEW s \in Seq(Context), s # << >>
  PROVE  /\ Head(s) \in Context /\ Head(s) = s[1]
         /\ Tail(s) \in Seq(Context) /\ Len(Tail(s)) = Len(s) - 1
  OBVIOUS

LEMMA OneIsNotEmpty ==
  ASSUME NEW s \in Seq(Context), Len(s) = 1
  PROVE  s # << >>
<1> SUFFICES ASSUME s = << >>  PROVE FALSE
  OBVIOUS
<1> QED
  OBVIOUS

LEMMA Patched ==
  ASSUME NEW s \in Seq(Context), s # << >>, NEW r \in {0, 1}
  PROVE  /\ [s EXCEPT ![1].eax = r] \in Seq(Context)
         /\ Len([s EXCEPT ![1].eax = r]) = Len(s)
         /\ [s EXCEPT ![1].eax = r][1].code = s[1].code
<1> DEFINE c == [s[1] EXCEPT !.eax = r]
<1>1. s[1] \in Context /\ 1 \in DOMAIN s /\ DOMAIN s = 1 .. Len(s) /\ Len(s) \in Nat
  OBVIOUS
<1>2. c \in Context /\ c.code = s[1].code
  BY <1>1 DEF Context
<1>3. [s EXCEPT ![1].eax = r] = [s EXCEPT ![1] = c]
  OBVIOUS
<1> HIDE DEF c
<1> QED
  BY <1>1, <1>2, <1>3

(* Two registers of one task are changed.                                  *)
LEMMA RegistersSet ==
  ASSUME NEW h \in [Task -> Context], NEW t \in Task,
         NEW at \in {"run", "load"}, NEW r \in {0, 1}
  PROVE  /\ [h EXCEPT ![t].at = at, ![t].eax = r] \in [Task -> Context]
         /\ \A u \in Task : [h EXCEPT ![t].at = at, ![t].eax = r][u].code = h[u].code
<1> DEFINE c == [h[t] EXCEPT !.at = at, !.eax = r]
<1>1. c \in Context /\ c.code = h[t].code
  BY DEF Context
<1>2. [h EXCEPT ![t].at = at, ![t].eax = r] = [h EXCEPT ![t] = c]
  <2> DEFINE c1 == [h[t] EXCEPT !.at = at]
             h1 == [h EXCEPT ![t] = c1]
  <2>1. [h EXCEPT ![t].at = at] = h1 /\ h1[t] = c1
    OBVIOUS
  <2>2. [h1 EXCEPT ![t].eax = r] = [h1 EXCEPT ![t] = [c1 EXCEPT !.eax = r]]
    BY <2>1
  <2>3. [h1 EXCEPT ![t] = [c1 EXCEPT !.eax = r]] = [h EXCEPT ![t] = [c1 EXCEPT !.eax = r]]
    OBVIOUS
  <2> QED
    BY <2>1, <2>2, <2>3
<1> HIDE DEF c
<1> QED
  BY <1>1, <1>2

LEMMA HandlerEntered ==
  ASSUME NEW h \in [Task -> Context], NEW t \in Task, NEW s \in Signum
  PROVE  /\ [h EXCEPT ![t].code = s, ![t].at = "run"] \in [Task -> Context]
         /\ [h EXCEPT ![t].code = s, ![t].at = "run"][t].code = s
         /\ \A u \in Task \ {t} : [h EXCEPT ![t].code = s, ![t].at = "run"][u] = h[u]
<1> DEFINE c == [h[t] EXCEPT !.code = s, !.at = "run"]
<1>1. c \in Context /\ c.code = s
  BY DEF Context
<1>2. [h EXCEPT ![t].code = s, ![t].at = "run"] = [h EXCEPT ![t] = c]
  <2> DEFINE c1 == [h[t] EXCEPT !.code = s]
             h1 == [h EXCEPT ![t] = c1]
  <2>1. [h EXCEPT ![t].code = s] = h1 /\ h1[t] = c1
    OBVIOUS
  <2>2. [h1 EXCEPT ![t].at = "run"] = [h1 EXCEPT ![t] = [c1 EXCEPT !.at = "run"]]
    BY <2>1
  <2>3. [h1 EXCEPT ![t] = [c1 EXCEPT !.at = "run"]] = [h EXCEPT ![t] = [c1 EXCEPT !.at = "run"]]
    OBVIOUS
  <2> QED
    BY <2>1, <2>2, <2>3
<1> HIDE DEF c
<1> QED
  BY <1>1, <1>2

(* The lowest of some signals is one of them.                              *)
LEMMA MinIsOne ==
  ASSUME NEW S \in SUBSET Signum, S # {}
  PROVE  Min(S) \in S
<1> DEFINE R == {xy \in Nat \X Nat : xy[1] < xy[2]}
<1>1. IsWellFoundedOn(R, Nat)
  BY NatLessThanWellFounded DEF OpToRel
<1>2. \A x, y \in Nat : x < y => <<x, y>> \in R
  OBVIOUS
<1> S \subseteq Nat /\ S # {}
  BY DEF Signum
<1> HIDE DEF R
<1>3. PICK m \in S : \A x \in S : ~ (<<x, m>> \in R)
  BY <1>1, WFMin
<1>4. \A x \in S : m \in Nat /\ x \in Nat /\ ~ (x < m)
  BY <1>2, <1>3
<1>5. \A x \in S : m <= x
  BY <1>4
<1> QED
  BY <1>5 DEF Min

-----------------------------------------------------------------------------
LEMMA InitInductive == Init => Inductive
<1> SUFFICES ASSUME Init  PROVE Inductive
  OBVIOUS
<1>1. Main \in Context /\ Main.code = MAIN
  BY DEF Main, Context, MAIN
<1>2. << >> \in Seq(Context)
  OBVIOUS
<1>3. TypeOK
  <2>1. sig \in [Task -> [Signum -> Handler]]
    BY DEF Init, Handler
  <2>2. alarm_time \in [Task -> 0 .. AlarmTime]
    BY AlarmAssumption DEF Init
  <2>3. saved \in [Task -> Seq(Context)]
    BY <1>2 DEF Init
  <2> QED
    BY <1>1, <2>1, <2>2, <2>3 DEF Init, TypeOK, Phases
<1>4. MaskMatchesHandler /\ HaltedIsClean /\ FetchHasContext
  BY DEF Init, MaskMatchesHandler, HaltedIsClean, FetchHasContext
<1>5. OwnHandlers
  BY DEF Init, OwnHandlers
<1> QED
  BY <1>3, <1>4, <1>5 DEF Inductive

-----------------------------------------------------------------------------
(* The types                                                               *)

LEMMA TypeStep ==
  ASSUME Inductive, [Next]_vars
  PROVE  TypeOK'
<1> USE DEF Inductive, Phases
<1>1. ASSUME NEW t \in Task, UserStep(t)  PROVE TypeOK'
  <2>1. hw' \in [Task -> Context]
    <3>1. PICK at \in {"run", "load"}, r \in {0, 1} :
            hw' = [hw EXCEPT ![t].at = at, ![t].eax = r]
      BY <1>1 DEF UserStep, Reg
    <3> QED
      BY <3>1, RegistersSet DEF TypeOK
  <2> QED
    BY <1>1, <2>1 DEF UserStep, TypeOK, signals
<1>2. ASSUME NEW t \in Task, Patch(t)  PROVE TypeOK'
  <2>1. PICK r \in {0, 1} : saved' = [saved EXCEPT ![t][1].eax = r]
    BY <1>2 DEF Patch, Reg
  <2>2. [saved[t] EXCEPT ![1].eax = r] \in Seq(Context)
    BY <1>2, Patched DEF Patch, TypeOK
  <2>3. saved' \in [Task -> Seq(Context)]
    <3> DEFINE p == [saved[t] EXCEPT ![1].eax = r]
    <3>1. saved' = [saved EXCEPT ![t] = p]
      BY <2>1 DEF TypeOK
    <3> HIDE DEF p
    <3> QED
      BY <2>2, <3>1 DEF TypeOK, p
  <2> QED
    BY <1>2, <2>3 DEF Patch, TypeOK, signals
<1>3. ASSUME NEW t \in Task, Exception(t)  PROVE TypeOK'
  <2>1. signal_pending' \in [Task -> SUBSET Signum]
    BY <1>3, ExceptionsAssumption DEF Exception, TypeOK, Signum
  <2>2. phase' \in [Task -> Phases] /\ \A u \in Task : phase'[u] = "user" => u = cpu
    BY <1>3 DEF Exception, ExceptionEntry, InUserMode, GoTo, TypeOK
  <2> QED
    BY <1>3, <2>1, <2>2 DEF Exception, TypeOK
<1>4. ASSUME NEW t \in Task, Call(t)  PROVE TypeOK'
  BY <1>4 DEF Call, GoTo, InUserMode, TypeOK, signals
<1>5. ASSUME NEW t \in Task, CallReturns(t)  PROVE TypeOK'
  <2>1. hw' \in [Task -> Context]
    <3>1. PICK r \in {0, 1} : hw' = [hw EXCEPT ![t].at = "run", ![t].eax = r]
      BY <1>5 DEF CallReturns, Reg
    <3> QED
      BY <3>1, RegistersSet DEF TypeOK
  <2> QED
    BY <1>5, <2>1 DEF CallReturns, GoTo, TypeOK, signals
<1>6. ASSUME NEW t \in Task, SetHandler(t)  PROVE TypeOK'
  <2>1. hw' \in [Task -> Context]
    BY <1>6, RegistersSet DEF SetHandler, TypeOK
  <2>2. sig' \in [Task -> [Signum -> Handler]]
    <3>1. PICK s \in Installs[t], h \in {"default", "own"} : sig' = [sig EXCEPT ![t][s] = h]
      BY <1>6 DEF SetHandler
    <3>2. [sig[t] EXCEPT ![s] = h] \in [Signum -> Handler]
      BY InstallsAssumption DEF TypeOK, Handler
    <3> QED
      BY <3>1, <3>2 DEF TypeOK
  <2> QED
    BY <1>6, <2>1, <2>2 DEF SetHandler, GoTo, InUserMode, TypeOK
<1>7. ASSUME NEW t \in Task, SystemHalt(t)
      PROVE  /\ hw' \in [Task -> Context]
             /\ saved' \in [Task -> Seq(Context)]
             /\ phase' \in [Task -> Phases]
             /\ \A u \in Task : phase'[u] = "user" => u = cpu
             /\ sig' \in [Task -> [Signum -> Handler]]
  <2>1. [Main EXCEPT !.eax = hw[t].eax] \in Context
    BY DEF Main, Context, MAIN, TypeOK
  <2>2. << >> \in Seq(Context)
    OBVIOUS
  <2>3. [s \in Signum |-> IF sig[t][s] = "default" THEN "default" ELSE "stale"]
          \in [Signum -> Handler]
    BY DEF Handler
  <2>4. sig' \in [Task -> [Signum -> Handler]]
    BY <1>7, <2>3 DEF SystemHalt, TypeOK
  <2> QED
    BY <1>7, <2>1, <2>2, <2>4 DEF SystemHalt, GoTo, TypeOK
<1>8. ASSUME NEW t \in Task, Halt(t)  PROVE TypeOK'
  BY <1>7, <1>8 DEF Halt, TypeOK
<1>9. ASSUME NEW t \in Task, Execute(t)  PROVE TypeOK'
  <2>1. Main \in Context
    BY DEF Main, Context
  <2>2. sig' \in [Task -> [Signum -> Handler]]
    <3>1. [s \in Signum |-> "default"] \in [Signum -> Handler]
      BY DEF Handler
    <3> QED
      BY <1>9, <3>1 DEF Execute, TaskSignalInit, TypeOK
  <2>3. alarm_time' \in [Task -> 0 .. AlarmTime]
    BY <1>9, AlarmAssumption DEF Execute, TaskSignalInit, TypeOK
  <2>4. signal_pending' \in [Task -> SUBSET Signum] /\ signal_masked' \in [Task -> SUBSET Signum]
    BY <1>9 DEF Execute, TaskSignalInit, TypeOK
  <2> QED
    BY <1>9, <2>1, <2>2, <2>3, <2>4 DEF Execute, TaskSignalInit, GoTo, TypeOK
<1>10. ASSUME NEW t \in Task, CheckSignal(t)  PROVE TypeOK'
  <2>1. CASE Deliverable(t) = {}
    BY <1>10, <2>1 DEF CheckSignal, GoTo, TypeOK
  <2>2. CASE Deliverable(t) # {}
    <3> DEFINE s == Min(Deliverable(t))
    <3>1. s \in Signum /\ Deliver(t, s)
      <4>1. Deliverable(t) \in SUBSET Signum
        BY DEF Deliverable, TypeOK
      <4>2. s \in Signum
        BY <2>2, <4>1, MinIsOne
      <4> QED
        BY <1>10, <2>2, <4>2 DEF CheckSignal
    <3> HIDE DEF s
    <3>2. /\ previous_masked' \in [Task -> SUBSET Signum]
          /\ signal_pending' \in [Task -> SUBSET Signum]
      BY <3>1 DEF Deliver, TypeOK
    <3>3. signal_masked' \in [Task -> SUBSET Signum]
      <4>1. \/ signal_masked' = [signal_masked EXCEPT ![t] = MASK_ALL]
            \/ signal_masked' = [signal_masked EXCEPT ![t] = previous_masked'[t]]
        BY <3>1 DEF Deliver, RestoreMask
      <4> QED
        BY <3>2, <4>1 DEF TypeOK, MASK_ALL
    <3>4. /\ hw' \in [Task -> Context]
          /\ saved' \in [Task -> Seq(Context)]
          /\ phase' \in [Task -> Phases]
          /\ \A u \in Task : phase'[u] = "user" => u = cpu
          /\ sig' \in [Task -> [Signum -> Handler]]
      <4>1. CASE SystemHalt(t)
        BY <1>7, <4>1
      <4>2. CASE GoTo(t, "user") /\ UNCHANGED <<hw, saved, sig>>
        BY <1>10, <4>2 DEF CheckSignal, GoTo, TypeOK
      <4>3. CASE GoTo(t, "user") /\ StartHandler(t, s) /\ UNCHANGED sig
        <5>1. hw[t] \in Context /\ saved[t] \in Seq(Context)
          BY DEF TypeOK
        <5>2. <<hw[t]>> \o saved[t] \in Seq(Context)
          BY <5>1, Pushed
        <5>3. saved' \in [Task -> Seq(Context)]
          BY <4>3, <5>2 DEF StartHandler, TypeOK
        <5>4. hw' \in [Task -> Context]
          BY <3>1, <4>3, HandlerEntered DEF StartHandler, TypeOK
        <5> QED
          BY <1>10, <4>3, <5>3, <5>4 DEF CheckSignal, GoTo, TypeOK
      <4> QED
        BY <3>1, <4>1, <4>2, <4>3 DEF Deliver
    <3> QED
      BY <1>10, <3>2, <3>3, <3>4 DEF CheckSignal, TypeOK
  <2> QED
    BY <2>1, <2>2
<1>11. ASSUME NEW t \in Task, SigReturn(t)  PROVE TypeOK'
  <2>1. saved[t] \in Seq(Context) /\ saved[t] # << >>
    <3>1. saved[t] \in Seq(Context) /\ Len(saved[t]) = 1
      BY <1>11 DEF SigReturn, InUserMode, MaskMatchesHandler, TypeOK
    <3> QED
      BY <3>1, OneIsNotEmpty
  <2>2. Head(saved[t]) \in Context /\ Tail(saved[t]) \in Seq(Context)
    BY <2>1, Popped
  <2>3. hw' \in [Task -> Context] /\ saved' \in [Task -> Seq(Context)]
    BY <1>11, <2>2 DEF SigReturn, TypeOK
  <2>4. signal_masked' \in [Task -> SUBSET Signum]
    BY <1>11 DEF SigReturn, RestoreMask, TypeOK
  <2> QED
    BY <1>11, <2>3, <2>4 DEF SigReturn, GoTo, InUserMode, TypeOK
<1>12. ASSUME NEW t \in Task, FetchEax(t)  PROVE TypeOK'
  <2>1. kernel_hw_context_ptr \in Task
    BY <1>12 DEF FetchEax, FetchHasContext
  <2>2. hw[kernel_hw_context_ptr].eax \in {0, 1} /\ hw[t] \in Context
    BY <2>1 DEF TypeOK, Context
  <2>3. [hw[t] EXCEPT !.eax = hw[kernel_hw_context_ptr].eax] \in Context
    BY <2>2 DEF Context
  <2>4. hw' \in [Task -> Context]
    BY <1>12, <2>3 DEF FetchEax, TypeOK
  <2> QED
    BY <1>12, <2>4 DEF FetchEax, GoTo, TypeOK, signals
<1>13. Entry \in [Task -> Phases] /\ \A u \in Task : Entry[u] # "user"
  BY DEF Entry, TypeOK
<1>14. CASE CtrlC
  <2>1. signal_pending' \in [Task -> SUBSET Signum]
    BY <1>14 DEF CtrlC, SendToShowing, TypeOK, Signum, INTERRUPT
  <2> QED
    BY <1>13, <1>14, <2>1 DEF CtrlC, TypeOK
<1>15. CASE SwitchTerminal
  BY <1>13, <1>15 DEF SwitchTerminal, TypeOK, signals
<1>16. ASSUME NEW next \in Task, Pit(next)  PROVE TypeOK'
  <2>1. signal_pending' \in [Task -> SUBSET Signum]
    BY <1>16 DEF Pit, SendToShowing, TypeOK, Signum, ALARM
  <2>2. alarm_time' \in [Task -> 0 .. AlarmTime]
    BY <1>16, AlarmAssumption DEF Pit, AlarmDue, TypeOK
  <2> QED
    BY <1>13, <1>16, <2>1, <2>2 DEF Pit, TypeOK
<1>17. CASE UNCHANGED vars
  BY <1>17 DEF vars, signals, TypeOK
<1> QED
  BY <1>1, <1>2, <1>3, <1>4, <1>5, <1>6, <1>8, <1>9, <1>10, <1>11, <1>12, <1>14,
     <1>15, <1>16, <1>17 DEF Next, TaskStep, UserWork
-----------------------------------------------------------------------------
(* Masks, stacks and handlers                                              *)

(* What a step of one task must show of the state after it: all the other  *)
(* tasks are as they were, or were taken off the CPU.                      *)
OthersKept(t) ==
  \A u \in Task \ {t} :
    /\ phase'[u] = phase[u]
    /\ hw'[u].code = hw[u].code /\ saved'[u] = saved[u]
    /\ signal_masked'[u] = signal_masked[u] /\ previous_masked'[u] = previous_masked[u]
    /\ sig'[u] = sig[u]

(* The conjuncts of Inductive but the types, for one task.                 *)
Fits(t) ==
  /\ phase[t] # "halted" =>
       /\ signal_masked[t] = IF InHandler(t) THEN MASK_ALL ELSE {}
       /\ Len(saved[t]) = IF InHandler(t) THEN 1 ELSE 0
       /\ InHandler(t) => saved[t][1].code = MAIN /\ previous_masked[t] = {}
  /\ phase[t] = "halted" => saved[t] = << >>
  /\ phase[t] # "halted" => \A s \in Signum : sig[t][s] # "stale"

LEMMA FitsIsInvariant ==
  (\A t \in Task : Fits(t)) <=> MaskMatchesHandler /\ HaltedIsClean /\ OwnHandlers
BY DEF Fits, MaskMatchesHandler, HaltedIsClean, OwnHandlers

LEMMA FitsStep ==
  ASSUME Inductive, [Next]_vars, TypeOK'
  PROVE  \A t \in Task : Fits(t)'
<1>0. \A t \in Task : Fits(t)
  BY FitsIsInvariant DEF Inductive
<1> USE DEF Inductive
<1>1. ASSUME NEW t \in Task, OthersKept(t), Fits(t)'  PROVE \A u \in Task : Fits(u)'
  <2> SUFFICES ASSUME NEW u \in Task \ {t}  PROVE Fits(u)'
    BY <1>1
  <2> QED
    BY <1>0, <1>1 DEF OthersKept, Fits, InHandler
<1>2. ASSUME NEW t \in Task, UserStep(t)  PROVE OthersKept(t) /\ Fits(t)'
  <2>1. \A u \in Task : hw'[u].code = hw[u].code
    <3>1. PICK at \in {"run", "load"}, r \in {0, 1} :
            hw' = [hw EXCEPT ![t].at = at, ![t].eax = r]
      BY <1>2 DEF UserStep, Reg
    <3>2. hw \in [Task -> Context]
      BY DEF TypeOK
    <3> QED
      BY <3>1, <3>2, RegistersSet
  <2> QED
    BY <1>0, <1>2, <2>1 DEF UserStep, OthersKept, Fits, InHandler, signals
<1>3. ASSUME NEW t \in Task, Patch(t)  PROVE OthersKept(t) /\ Fits(t)'
  <2>1. PICK r \in {0, 1} : saved' = [saved EXCEPT ![t][1].eax = r]
    BY <1>3 DEF Patch, Reg
  <2>2. /\ Len(saved'[t]) = Len(saved[t])
        /\ saved'[t][1].code = saved[t][1].code
        /\ \A u \in Task \ {t} : saved'[u] = saved[u]
    <3> DEFINE p == [saved[t] EXCEPT ![1].eax = r]
    <3>1. Len(p) = Len(saved[t]) /\ p[1].code = saved[t][1].code
      BY <1>3, Patched DEF Patch, TypeOK
    <3>2. saved' = [saved EXCEPT ![t] = p]
      BY <2>1 DEF TypeOK
    <3> HIDE DEF p
    <3> QED
      BY <3>1, <3>2 DEF TypeOK
  <2>3. phase[t] # "halted"
    BY <1>3 DEF Patch, InUserMode
  <2> QED
    BY <1>0, <1>3, <2>2, <2>3 DEF Patch, OthersKept, Fits, InHandler, signals
<1>4. ASSUME NEW t \in Task, Exception(t)  PROVE OthersKept(t) /\ Fits(t)'
  BY <1>0, <1>4 DEF Exception, ExceptionEntry, InUserMode, GoTo, OthersKept, Fits,
                    InHandler, TypeOK
<1>5. ASSUME NEW t \in Task, Call(t)  PROVE OthersKept(t) /\ Fits(t)'
  BY <1>0, <1>5 DEF Call, InUserMode, GoTo, OthersKept, Fits, InHandler, TypeOK, signals
<1>6. ASSUME NEW t \in Task, CallReturns(t)  PROVE OthersKept(t) /\ Fits(t)'
  <2>1. \A u \in Task : hw'[u].code = hw[u].code
    <3>1. PICK r \in {0, 1} : hw' = [hw EXCEPT ![t].at = "run", ![t].eax = r]
      BY <1>6 DEF CallReturns, Reg
    <3>2. hw \in [Task -> Context]
      BY DEF TypeOK
    <3> QED
      BY <3>1, <3>2, RegistersSet
  <2> QED
    BY <1>0, <1>6, <2>1 DEF CallReturns, GoTo, OthersKept, Fits, InHandler, TypeOK, signals
<1>7. ASSUME NEW t \in Task, SetHandler(t)  PROVE OthersKept(t) /\ Fits(t)'
  <2>1. \A u \in Task : hw'[u].code = hw[u].code
    <3>1. hw \in [Task -> Context] /\ hw' = [hw EXCEPT ![t].at = "run", ![t].eax = 0]
      BY <1>7 DEF SetHandler, TypeOK
    <3> QED
      BY <3>1, RegistersSet
  <2>2. /\ \A u \in Task \ {t} : sig'[u] = sig[u]
        /\ \A s \in Signum : sig'[t][s] # "stale"
    <3>1. PICK s \in Installs[t], h \in {"default", "own"} : sig' = [sig EXCEPT ![t][s] = h]
      BY <1>7 DEF SetHandler
    <3>2. \A r \in Signum : sig[t][r] # "stale"
      BY <1>0, <1>7 DEF SetHandler, InUserMode, Fits
    <3> QED
      BY <3>1, <3>2, InstallsAssumption DEF TypeOK
  <2>3. phase[t] # "halted" /\ phase'[t] # "halted" /\ \A u \in Task \ {t} : phase'[u] = phase[u]
    BY <1>7 DEF SetHandler, InUserMode, GoTo, TypeOK
  <2> QED
    BY <1>0, <1>7, <2>1, <2>2, <2>3 DEF SetHandler, OthersKept, Fits, InHandler
<1>8. ASSUME NEW t \in Task, SystemHalt(t)
      PROVE  /\ phase'[t] = "halted" /\ saved'[t] = << >>
             /\ \A u \in Task \ {t} : /\ phase'[u] = phase[u] /\ hw'[u] = hw[u]
                                      /\ saved'[u] = saved[u] /\ sig'[u] = sig[u]
  BY <1>8 DEF SystemHalt, GoTo, TypeOK
<1>9. ASSUME NEW t \in Task, Halt(t)  PROVE OthersKept(t) /\ Fits(t)'
  BY <1>8, <1>9 DEF Halt, OthersKept, Fits, signals
<1>10. ASSUME NEW t \in Task, Execute(t)  PROVE OthersKept(t) /\ Fits(t)'
  <2>1. saved[t] = << >> /\ Len(<< >>) = 0
    BY <1>0, <1>10 DEF Execute, Fits
  <2>2. hw'[t].code = MAIN /\ phase'[t] = "user" /\ signal_masked'[t] = {}
    BY <1>10 DEF Execute, GoTo, TaskSignalInit, Main, TypeOK
  <2>3. \A s \in Signum : sig'[t][s] # "stale"
    BY <1>10 DEF Execute, TaskSignalInit, TypeOK
  <2>4. OthersKept(t)
    BY <1>10 DEF Execute, GoTo, TaskSignalInit, OthersKept, TypeOK
  <2>5. saved' = saved
    BY <1>10 DEF Execute
  <2> QED
    BY <2>1, <2>2, <2>3, <2>4, <2>5 DEF Fits, InHandler
<1>11. ASSUME NEW t \in Task, CheckSignal(t)  PROVE OthersKept(t) /\ Fits(t)'
  <2>0. phase[t] = "check"
    BY <1>11 DEF CheckSignal
  <2>1. CASE Deliverable(t) = {}
    BY <1>0, <1>11, <2>1 DEF CheckSignal, GoTo, OthersKept, Fits, InHandler, TypeOK
  <2>2. CASE Deliverable(t) # {}
    <3> DEFINE s == Min(Deliverable(t))
    <3>1. Deliver(t, s) /\ s \in Signum
      <4>1. Deliverable(t) \in SUBSET Signum
        BY DEF Deliverable, TypeOK
      <4>2. s \in Signum
        BY <2>2, <4>1, MinIsOne
      <4> QED
        BY <1>11, <2>2, <4>2 DEF CheckSignal
    <3> HIDE DEF s
    <3>2. ~ InHandler(t) /\ signal_masked[t] = {} /\ Len(saved[t]) = 0
      BY <1>0, <2>0, <2>2 DEF Fits, Deliverable, MASK_ALL, TypeOK
    <3>3. /\ previous_masked'[t] = {}
          /\ \A u \in Task \ {t} : previous_masked'[u] = previous_masked[u]
                                    /\ signal_masked'[u] = signal_masked[u]
      BY <3>1, <3>2 DEF Deliver, RestoreMask, TypeOK
    <3>4. CASE SystemHalt(t)
      BY <1>8, <2>0, <3>3, <3>4 DEF OthersKept, Fits
    <3>5. CASE GoTo(t, "user") /\ RestoreMask(t) /\ UNCHANGED <<hw, saved, sig>>
      BY <1>0, <2>0, <3>2, <3>3, <3>5 DEF GoTo, RestoreMask, OthersKept, Fits, InHandler, TypeOK
    <3>6. CASE /\ GoTo(t, "user") /\ StartHandler(t, s)
               /\ signal_masked' = [signal_masked EXCEPT ![t] = MASK_ALL]
               /\ UNCHANGED sig
      <4>1. /\ hw'[t].code = s /\ s # MAIN
            /\ \A u \in Task \ {t} : hw'[u] = hw[u]
        <5>1. hw \in [Task -> Context] /\ hw' = [hw EXCEPT ![t].code = s, ![t].at = "run"]
          BY <3>6 DEF StartHandler, TypeOK
        <5>2. s # MAIN
          BY <3>1 DEF Signum, MAIN
        <5> QED
          BY <3>1, <5>1, <5>2, HandlerEntered
      <4>2. /\ Len(saved'[t]) = 1 /\ saved'[t][1] = hw[t]
            /\ \A u \in Task \ {t} : saved'[u] = saved[u]
        <5>1. hw[t] \in Context /\ saved[t] \in Seq(Context)
          BY DEF TypeOK
        <5>2. saved'[t] = <<hw[t]>> \o saved[t]
              /\ \A u \in Task \ {t} : saved'[u] = saved[u]
          BY <3>6 DEF StartHandler, TypeOK
        <5> QED
          BY <3>2, <5>1, <5>2, Pushed
      <4>3. hw[t].code = MAIN
        BY <3>2 DEF InHandler
      <4>4. phase'[t] = "user" /\ \A u \in Task \ {t} : phase'[u] = phase[u]
        BY <3>6 DEF GoTo, TypeOK
      <4>5. signal_masked'[t] = MASK_ALL
        BY <3>6 DEF TypeOK
      <4>6. \A r \in Signum : sig'[t][r] # "stale"
        BY <1>0, <2>0, <3>6 DEF Fits
      <4> QED
        BY <2>0, <3>3, <3>6, <4>1, <4>2, <4>3, <4>4, <4>5, <4>6 DEF OthersKept, Fits, InHandler
    <3> QED
      BY <3>1, <3>4, <3>5, <3>6 DEF Deliver
  <2> QED
    BY <2>1, <2>2
<1>12. ASSUME NEW t \in Task, SigReturn(t)  PROVE OthersKept(t) /\ Fits(t)'
  <2>1. /\ phase[t] = "user" /\ saved[t] \in Seq(Context) /\ Len(saved[t]) = 1
        /\ saved[t][1].code = MAIN /\ previous_masked[t] = {}
    BY <1>0, <1>12 DEF SigReturn, InUserMode, Fits, TypeOK
  <2>2. saved[t] # << >>
    BY <2>1, OneIsNotEmpty
  <2>3. Len(Tail(saved[t])) = 0 /\ Head(saved[t]).code = MAIN
    BY <2>1, <2>2, Popped
  <2>4. hw'[t] = Head(saved[t]) /\ saved'[t] = Tail(saved[t]) /\ phase'[t] = "fetch"
        /\ signal_masked'[t] = {}
    BY <1>12, <2>1 DEF SigReturn, RestoreMask, GoTo, TypeOK
  <2>5. OthersKept(t)
    BY <1>12 DEF SigReturn, RestoreMask, GoTo, OthersKept, TypeOK
  <2>6. \A s \in Signum : sig'[t][s] # "stale"
    BY <1>0, <1>12, <2>1 DEF SigReturn, Fits
  <2> QED
    BY <2>3, <2>4, <2>5, <2>6 DEF Fits, InHandler
<1>13. ASSUME NEW t \in Task, FetchEax(t)  PROVE OthersKept(t) /\ Fits(t)'
  <2>1. \A u \in Task : hw'[u].code = hw[u].code
    BY <1>13 DEF FetchEax, TypeOK, Context
  <2> QED
    BY <1>0, <1>13, <2>1 DEF FetchEax, GoTo, OthersKept, Fits, InHandler, TypeOK, signals
<1>14. ASSUME phase' = Entry,
              UNCHANGED <<hw, saved, signal_masked, previous_masked, sig>>
       PROVE  \A t \in Task : Fits(t)'
  <2>1. \A t \in Task : (Entry[t] = "halted") <=> (phase[t] = "halted")
    BY DEF Entry, TypeOK
  <2> QED
    BY <1>0, <1>14, <2>1 DEF Fits, InHandler
<1>15. CASE CtrlC \/ SwitchTerminal \/ \E next \in Task : Pit(next)
  BY <1>14, <1>15 DEF CtrlC, SwitchTerminal, Pit, signals
<1>16. CASE UNCHANGED vars
  BY <1>0, <1>16 DEF vars, signals, Fits, InHandler
<1> QED
  BY <1>1, <1>2, <1>3, <1>4, <1>5, <1>6, <1>7, <1>9, <1>10, <1>11, <1>12, <1>13,
     <1>15, <1>16 DEF Next, TaskStep, UserWork
-----------------------------------------------------------------------------
LEMMA FetchStep ==
  ASSUME Inductive, [Next]_vars
  PROVE  FetchHasContext'
<1> USE DEF Inductive
<1>1. ASSUME NEW t \in Task, SigReturn(t)  PROVE FetchHasContext'
  BY <1>1 DEF SigReturn, FetchHasContext
<1>2. ASSUME UNCHANGED kernel_hw_context_ptr,
             \A u \in Task : phase'[u] = "fetch" => phase[u] = "fetch"
      PROVE  FetchHasContext'
  BY <1>2 DEF FetchHasContext
<1>3. ASSUME NEW t \in Task, NEW p \in Phases \ {"fetch"}, GoTo(t, p)
      PROVE  \A u \in Task : phase'[u] = "fetch" => phase[u] = "fetch"
  BY <1>3 DEF GoTo, TypeOK
<1>4. ASSUME NEW t \in Task, SystemHalt(t)
      PROVE  \A u \in Task : phase'[u] = "fetch" => phase[u] = "fetch"
  BY <1>3, <1>4 DEF SystemHalt, Phases
<1>5. ASSUME NEW t \in Task, TaskStep(t), ~ SigReturn(t)
      PROVE  /\ UNCHANGED kernel_hw_context_ptr
             /\ \A u \in Task : phase'[u] = "fetch" => phase[u] = "fetch"
  <2>1. CASE UserStep(t) \/ Patch(t)
    BY <2>1 DEF UserStep, Patch
  <2>2. CASE Exception(t) \/ Call(t) \/ CallReturns(t) \/ SetHandler(t) \/ FetchEax(t)
             \/ Execute(t)
    BY <1>3, <2>2 DEF Exception, ExceptionEntry, Call, CallReturns, SetHandler, FetchEax,
                      Execute, Phases
  <2>3. CASE Halt(t)
    BY <1>4, <2>3 DEF Halt
  <2>4. CASE CheckSignal(t)
    <3>1. GoTo(t, "user") \/ SystemHalt(t)
      BY <2>4 DEF CheckSignal, Deliver
    <3> QED
      BY <1>3, <1>4, <2>4, <3>1 DEF CheckSignal, Phases
  <2> QED
    BY <1>5, <2>1, <2>2, <2>3, <2>4 DEF TaskStep, UserWork
<1>6. CASE CtrlC \/ SwitchTerminal \/ \E next \in Task : Pit(next)
  <2>1. phase' = Entry /\ UNCHANGED kernel_hw_context_ptr
    BY <1>6 DEF CtrlC, SwitchTerminal, Pit
  <2> QED
    BY <1>2, <2>1 DEF Entry, TypeOK
<1>7. CASE UNCHANGED vars
  BY <1>2, <1>7 DEF vars
<1> QED
  BY <1>1, <1>2, <1>5, <1>6, <1>7 DEF Next

LEMMA InductiveStep == Inductive /\ [Next]_vars => Inductive'
<1> SUFFICES ASSUME Inductive, [Next]_vars  PROVE Inductive'
  OBVIOUS
<1>1. TypeOK'
  BY TypeStep
<1>2. \A t \in Task : Fits(t)'
  BY <1>1, FitsStep
<1>3. MaskMatchesHandler' /\ HaltedIsClean' /\ OwnHandlers'
  BY <1>2 DEF Fits, MaskMatchesHandler, HaltedIsClean, OwnHandlers, InHandler
<1> QED
  BY <1>1, <1>3, FetchStep DEF Inductive

LEMMA Invariance == Spec => []Inductive
<1> QED
  BY InitInductive, InductiveStep, PTL DEF Spec

-----------------------------------------------------------------------------
(* The theorems                                                            *)

(* Every variable has its type, and no task is in user mode off the CPU.   *)
THEOREM SignalTypes == Spec => []TypeOK
<1>1. Inductive => TypeOK
  BY DEF Inductive
<1> QED
  BY <1>1, Invariance, PTL

(* Handlers do not nest, whatever signals come where: check_signal and     *)
(* sigreturn keep the mask, the stack and the handler in step.             *)
THEOREM HandlersDoNotNest == Spec => []MaskMatchesHandler
<1>1. Inductive => MaskMatchesHandler
  BY DEF Inductive
<1> QED
  BY <1>1, Invariance, PTL

(* system_halt leaves a program's handlers in its PCB, and task_signal_init *)
(* takes them away before the next program of that PCB runs: none is       *)
(* inherited, however the program before ended.                            *)
THEOREM NoHandlerInherited == Spec => []OwnHandlers
<1>1. Inductive => OwnHandlers
  BY DEF Inductive
<1> QED
  BY <1>1, Invariance, PTL

(* check_signal forgets no signal of a task in its handler.                *)
THEOREM SignalsKept == Spec => KeptInHandler
<1>1. ASSUME Inductive, [Next]_vars
      PROVE  [\A t \in Task : InHandler(t) /\ phase[t] # "halted"
                                => signal_pending[t] \subseteq signal_pending'[t]]_vars
  <2> SUFFICES ASSUME NEW t \in Task, InHandler(t), phase[t] # "halted"
               PROVE  signal_pending[t] \subseteq signal_pending'[t]
    OBVIOUS
  <2> USE <1>1 DEF Inductive
  <2>1. Deliverable(t) = {}
    BY DEF Deliverable, MaskMatchesHandler, MASK_ALL, TypeOK
  <2>2. ASSUME NEW u \in Task, CheckSignal(u)
        PROVE  signal_pending[t] \subseteq signal_pending'[t]
    BY <2>1, <2>2 DEF CheckSignal, Deliver, TypeOK
  <2>3. ASSUME NEW u \in Task, Execute(u)
        PROVE  signal_pending[t] \subseteq signal_pending'[t]
    BY <2>3 DEF Execute, TaskSignalInit, TypeOK
  <2>4. ASSUME NEW u \in Task, Exception(u)
        PROVE  signal_pending[t] \subseteq signal_pending'[t]
    BY <2>4 DEF Exception, TypeOK
  <2>5. ASSUME NEW u \in Task, UserWork(u), ~ Exception(u)
        PROVE  signal_pending' = signal_pending
    BY <2>5 DEF UserWork, UserStep, Patch, Call, SetHandler, Halt, SigReturn, signals
  <2>6. ASSUME NEW u \in Task, CallReturns(u) \/ FetchEax(u)
        PROVE  signal_pending' = signal_pending
    BY <2>6 DEF CallReturns, FetchEax, signals
  <2>7. CASE CtrlC \/ \E next \in Task : Pit(next)
    <3>1. \A u \in Task : signal_pending[u] \in SUBSET Signum
      BY DEF TypeOK
    <3>2. CASE CtrlC
      BY <3>1, <3>2 DEF CtrlC, SendToShowing, TypeOK
    <3>3. ASSUME NEW next \in Task, Pit(next)
          PROVE  signal_pending[t] \subseteq signal_pending'[t]
      BY <3>1, <3>3 DEF Pit, SendToShowing, TypeOK
    <3> QED  BY <2>7, <3>2, <3>3
  <2>8. CASE SwitchTerminal \/ UNCHANGED vars
    BY <2>8 DEF SwitchTerminal, vars, signals
  <2> QED
    BY <2>2, <2>3, <2>4, <2>5, <2>6, <2>7, <2>8 DEF Next, TaskStep
<1> QED
  BY <1>1, Invariance, PTL DEF Spec, KeptInHandler
=============================================================================

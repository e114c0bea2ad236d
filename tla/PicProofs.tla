------------------------------ MODULE PicProofs ------------------------------
(* Proofs about Pic: the types, that the handlers of the slave's lines     *)
(* exclude each other, and that every line in service has a handler that   *)
(* will acknowledge it, for any tasks and any depth of nesting.            *)
EXTENDS Pic, FiniteSetTheorems, TLAPS

(* A frame of a line of the slave that still holds the cascade.            *)
Unacked(f) == f.irq \in Slave /\ f.at <= 2

(* There is one at most, and while there is one no other comes.            *)
OneUnacked ==
  \A t, u \in Task : \A n \in 1 .. Len(frames[t]), m \in 1 .. Len(frames[u]) :
    Unacked(frames[t][n]) /\ Unacked(frames[u][m])
      => t = u /\ n = m /\ SLAVE_CAS_PORT \in isr

(* The frame of the handler that will acknowledge l.                       *)
Serves(f, l) ==
  IF l = SLAVE_CAS_PORT THEN Unacked(f)
  ELSE f.irq = l /\ f.at <= IF l \in Slave THEN 1 ELSE 2

EachServed ==
  /\ PIT \in isr => frames[cpu] # << >> /\ Top(cpu) = [irq |-> PIT, at |-> 1]
  /\ \A l \in isr \ {PIT} :
       \E t \in Task : \E n \in 1 .. Len(frames[t]) : Serves(frames[t][n], l)

Inductive == TypeOK /\ OneUnacked /\ EachServed

-----------------------------------------------------------------------------
(* Handlers and stacks                                                     *)

(* What a handler's next step says about where it is.                      *)
LEMMA StepFacts ==
  ASSUME NEW f \in Frame
  PROVE  /\ Step(f) = "tick" => f.irq = PIT /\ f.at = 1
         /\ Step(f) = "eoi" => f.irq \in {KEYBOARD, DSP_IRQ_NUM} /\ f.at <= 2
         /\ Step(f) = "slave" => f.irq \in Slave /\ f.at = 1
         /\ Step(f) = "cascade" => f.irq \in Slave /\ f.at = 2
         /\ Step(f) = "iret" => f.irq = PIT \/ f.at = 3
         /\ f = [irq |-> PIT, at |-> 1] => Step(f) = "tick"
<1> USE DEF PIT, KEYBOARD, DSP_IRQ_NUM, RTC, MOUSE, Slave, Irq
<1>1. f.irq \in Irq /\ f.at \in {1, 2, 3}
  BY DEF Frame
<1>2. CASE f.irq = PIT
  <2>1. Handler[f.irq] = << "tick" >>
    BY <1>1, <1>2 DEF Handler
  <2>2. Step(f) = IF f.at = 1 THEN "tick" ELSE "iret"
    BY <1>1, <2>1 DEF Step
  <2> QED
    BY <1>1, <1>2, <2>2
<1>3. CASE f.irq \in {KEYBOARD, DSP_IRQ_NUM}
  <2>1. Handler[f.irq] = << "eoi", "eoi" >>
    BY <1>1, <1>3 DEF Handler
  <2>2. Step(f) = IF f.at <= 2 THEN "eoi" ELSE "iret"
    BY <1>1, <2>1 DEF Step
  <2> QED
    BY <1>1, <1>3, <2>2
<1>4. CASE f.irq \in Slave
  <2>1. Handler[f.irq] = << "slave", "cascade" >>
    BY <1>1, <1>4 DEF Handler
  <2>2. Step(f) = IF f.at = 1 THEN "slave" ELSE IF f.at = 2 THEN "cascade" ELSE "iret"
    BY <1>1, <2>1 DEF Step
  <2> QED
    BY <1>1, <1>4, <2>2
<1> QED
  BY <1>1, <1>2, <1>3, <1>4

(* The last handler of a stack goes one step on: the rest stays.           *)
LEMMA AdvancedFacts ==
  ASSUME TypeOK, NEW t \in Task, frames[t] # << >>
  PROVE  LET k == Len(frames[t]) IN
         /\ k \in Nat /\ k >= 1 /\ Top(t) = frames[t][k] /\ Top(t) \in Frame
         /\ Len(Advanced(t)) = k
         /\ \A n \in 1 .. k : n # k => Advanced(t)[n] = frames[t][n]
         /\ Advanced(t)[k].irq = Top(t).irq
         /\ Advanced(t)[k].at = Top(t).at + 1
         /\ Top(t).at <= 2 => Advanced(t) \in Seq(Frame)
<1> DEFINE s == frames[t]
           k == Len(s)
           f == [Top(t) EXCEPT !.at = @ + 1]
<1>1. s \in Seq(Frame) /\ k \in Nat /\ k >= 1
  BY DEF TypeOK
<1>2. Top(t) = s[k] /\ Top(t) \in Frame
  BY <1>1 DEF Top, Last
<1>3. f.irq = Top(t).irq /\ f.at = Top(t).at + 1 /\ (Top(t).at <= 2 => f \in Frame)
  BY <1>2 DEF Frame
<1>4. /\ Front(s) \in Seq(Frame) /\ Len(Front(s)) = k - 1
      /\ \A n \in 1 .. k - 1 : Front(s)[n] = s[n]
  BY <1>1 DEF Front
<1>5. Advanced(t) = Append(Front(s), f)
  BY DEF Advanced
<1> HIDE DEF f, s, k
<1>6. /\ Len(Append(Front(s), f)) = k /\ Append(Front(s), f)[k] = f
      /\ \A n \in 1 .. k - 1 : Append(Front(s), f)[n] = s[n]
  BY <1>1, <1>4
<1>7. f \in Frame => Append(Front(s), f) \in Seq(Frame)
  BY <1>4
<1> QED
  BY <1>1, <1>2, <1>3, <1>5, <1>6, <1>7 DEF s, k

(* The handlers after a step of the last one on the stack of t.            *)
LEMMA GoesFacts ==
  ASSUME TypeOK, NEW t \in Task, frames[t] # << >>, Top(t).at <= 2,
         frames' = [frames EXCEPT ![t] = Advanced(t)]
  PROVE  /\ frames' \in [Task -> Seq(Frame)]
         /\ \A u \in Task :
              /\ Len(frames'[u]) = Len(frames[u])
              /\ \A n \in 1 .. Len(frames[u]) :
                   /\ frames'[u][n].irq = frames[u][n].irq
                   /\ u # t \/ n # Len(frames[u]) => frames'[u][n] = frames[u][n]
                   /\ u = t /\ n = Len(frames[u]) =>
                        /\ frames[u][n] = Top(t)
                        /\ frames'[u][n].at = frames[u][n].at + 1
<1>1. frames \in [Task -> Seq(Frame)]
  BY DEF TypeOK
<1>2. /\ Len(frames[t]) \in Nat /\ Len(frames[t]) >= 1
      /\ Top(t) = frames[t][Len(frames[t])]
      /\ Len(Advanced(t)) = Len(frames[t])
      /\ \A n \in 1 .. Len(frames[t]) :
           n # Len(frames[t]) => Advanced(t)[n] = frames[t][n]
      /\ Advanced(t)[Len(frames[t])].irq = Top(t).irq
      /\ Advanced(t)[Len(frames[t])].at = Top(t).at + 1
      /\ Advanced(t) \in Seq(Frame)
  BY AdvancedFacts
<1>3. frames'[t] = Advanced(t) /\ \A u \in Task \ {t} : frames'[u] = frames[u]
  BY <1>1
<1>4. frames' \in [Task -> Seq(Frame)]
  BY <1>1, <1>2
<1>5. ASSUME NEW u \in Task
      PROVE  /\ Len(frames'[u]) = Len(frames[u])
             /\ \A n \in 1 .. Len(frames[u]) :
                  /\ frames'[u][n].irq = frames[u][n].irq
                  /\ u # t \/ n # Len(frames[u]) => frames'[u][n] = frames[u][n]
                  /\ u = t /\ n = Len(frames[u]) =>
                       /\ frames[u][n] = Top(t)
                       /\ frames'[u][n].at = frames[u][n].at + 1
  <2>1. CASE u = t
    BY <1>2, <1>3, <2>1
  <2>2. CASE u # t
    BY <1>3, <2>2
  <2> QED
    BY <2>1, <2>2
<1> QED
  BY <1>4, <1>5

(* A handler is entered on the stack of the running task.                  *)
LEMMA EntryFacts ==
  ASSUME TypeOK, NEW l \in Irq,
         frames' = [frames EXCEPT ![cpu] = Append(@, [irq |-> l, at |-> 1])]
  PROVE  /\ frames' \in [Task -> Seq(Frame)]
         /\ Len(frames'[cpu]) = Len(frames[cpu]) + 1
         /\ frames'[cpu][Len(frames[cpu]) + 1] = [irq |-> l, at |-> 1]
         /\ \A u \in Task \ {cpu} : frames'[u] = frames[u]
         /\ \A u \in Task : \A n \in 1 .. Len(frames[u]) :
              n \in 1 .. Len(frames'[u]) /\ frames'[u][n] = frames[u][n]
<1> DEFINE f == [irq |-> l, at |-> 1]
<1>1. frames \in [Task -> Seq(Frame)] /\ cpu \in Task
  BY DEF TypeOK
<1>2. f \in Frame
  BY DEF Frame
<1> HIDE DEF f
<1>3. frames'[cpu] = Append(frames[cpu], f) /\ \A u \in Task \ {cpu} : frames'[u] = frames[u]
  BY <1>1 DEF f
<1>4. frames[cpu] \in Seq(Frame) /\ Len(frames[cpu]) \in Nat
  BY <1>1
<1>5. /\ Append(frames[cpu], f) \in Seq(Frame)
      /\ Len(Append(frames[cpu], f)) = Len(frames[cpu]) + 1
      /\ Append(frames[cpu], f)[Len(frames[cpu]) + 1] = f
      /\ \A n \in 1 .. Len(frames[cpu]) : Append(frames[cpu], f)[n] = frames[cpu][n]
  BY <1>2, <1>4
<1>6. frames' \in [Task -> Seq(Frame)]
  BY <1>1, <1>3, <1>5 DEF f
<1>7. ASSUME NEW u \in Task, NEW n \in 1 .. Len(frames[u])
      PROVE  n \in 1 .. Len(frames'[u]) /\ frames'[u][n] = frames[u][n]
  <2>1. CASE u = cpu
    BY <1>3, <1>4, <1>5, <2>1
  <2>2. CASE u # cpu
    BY <1>3, <2>2
  <2> QED
    BY <2>1, <2>2
<1> QED
  BY <1>3, <1>5, <1>6, <1>7 DEF f

(* The last handler returns.                                               *)
LEMMA ReturnFacts ==
  ASSUME TypeOK, frames[cpu] # << >>,
         frames' = [frames EXCEPT ![cpu] = Front(@)]
  PROVE  /\ frames' \in [Task -> Seq(Frame)]
         /\ \A u \in Task : \A n \in 1 .. Len(frames'[u]) :
              n \in 1 .. Len(frames[u]) /\ frames'[u][n] = frames[u][n]
         /\ \A u \in Task : \A n \in 1 .. Len(frames[u]) :
              \/ u = cpu /\ n = Len(frames[u]) /\ frames[u][n] = Top(cpu)
              \/ n \in 1 .. Len(frames'[u])
<1>1. frames \in [Task -> Seq(Frame)] /\ cpu \in Task
  BY DEF TypeOK
<1>2. frames'[cpu] = Front(frames[cpu]) /\ \A u \in Task \ {cpu} : frames'[u] = frames[u]
  BY <1>1
<1>3. frames[cpu] \in Seq(Frame) /\ Len(frames[cpu]) \in Nat /\ Len(frames[cpu]) >= 1
  BY <1>1
<1>4. /\ Front(frames[cpu]) \in Seq(Frame)
      /\ Len(Front(frames[cpu])) = Len(frames[cpu]) - 1
      /\ \A n \in 1 .. Len(frames[cpu]) - 1 : Front(frames[cpu])[n] = frames[cpu][n]
  BY <1>3 DEF Front
<1>5. Top(cpu) = frames[cpu][Len(frames[cpu])]
  BY DEF Top, Last
<1>6. frames' \in [Task -> Seq(Frame)]
  BY <1>1, <1>2, <1>4
<1>7. ASSUME NEW u \in Task
      PROVE  /\ \A n \in 1 .. Len(frames'[u]) :
                  n \in 1 .. Len(frames[u]) /\ frames'[u][n] = frames[u][n]
             /\ \A n \in 1 .. Len(frames[u]) :
                  \/ u = cpu /\ n = Len(frames[u]) /\ frames[u][n] = Top(cpu)
                  \/ n \in 1 .. Len(frames'[u])
  <2>1. CASE u = cpu
    BY <1>2, <1>3, <1>4, <1>5, <2>1
  <2>2. CASE u # cpu
    BY <1>2, <2>2
  <2> QED
    BY <2>1, <2>2
<1> QED
  BY <1>6, <1>7

-----------------------------------------------------------------------------
(* The inductive invariant                                                 *)
LEMMA InitInductive == Init => Inductive
<1> SUFFICES ASSUME Init PROVE Inductive
  OBVIOUS
<1> USE DEF Init, Frame, PIT, KEYBOARD, DSP_IRQ_NUM, RTC, MOUSE, Slave, Irq
<1> DEFINE first == [irq |-> PIT, at |-> 1]
<1>1. first \in Frame
  OBVIOUS
<1>2. << first >> \in Seq(Frame) /\ Len(<< first >>) = 1 /\ << first >>[1] = first
  BY <1>1
<1>3. \A t \in Task : frames[t] \in {<< >>, << first >>}
  OBVIOUS
<1>4. frames \in [Task -> Seq(Frame)]
  <2>1. << >> \in Seq(Frame)
    OBVIOUS
  <2>2. \A t \in Task : frames[t] \in Seq(Frame)
    BY <1>2, <1>3, <2>1
  <2>3. frames = [t \in Task |-> frames[t]]
    OBVIOUS
  <2> QED
    BY <2>2, <2>3
<1>5. TypeOK
  BY <1>4, TaskAssumption DEF TypeOK, Line
<1>6. \A t \in Task : \A n \in 1 .. Len(frames[t]) : ~Unacked(frames[t][n])
  <2> SUFFICES ASSUME NEW t \in Task, NEW n \in 1 .. Len(frames[t])
               PROVE  ~Unacked(frames[t][n])
    OBVIOUS
  <2>1. frames[t] = << first >>
    BY <1>3
  <2>2. frames[t][n] = first
    BY <1>2, <2>1
  <2> QED
    BY <2>2 DEF Unacked
<1>7. OneUnacked
  BY <1>6 DEF OneUnacked
<1>8. EachServed
  BY DEF EachServed
<1> QED
  BY <1>5, <1>7, <1>8 DEF Inductive

(* A line comes.                                                           *)
LEMMA AcceptInductive ==
  ASSUME Inductive, NEW l \in Irq, Accept(l)
  PROVE  Inductive'
<1> USE DEF PIT, KEYBOARD, DSP_IRQ_NUM, RTC, MOUSE, SLAVE_CAS_PORT, Slave, Irq, Line
<1> DEFINE k == Len(frames[cpu])
           f == [irq |-> l, at |-> 1]
<1>1. TypeOK /\ OneUnacked /\ EachServed
  BY DEF Inductive
<1>2. /\ ~Blocked(l) /\ isr' = isr \cup {l, OnMaster(l)}
      /\ frames' = [frames EXCEPT ![cpu] = Append(@, [irq |-> l, at |-> 1])]
      /\ masked' = masked /\ cpu' = cpu
  BY DEF Accept
<1>3. /\ frames' \in [Task -> Seq(Frame)]
      /\ Len(frames'[cpu]) = k + 1
      /\ frames'[cpu][k + 1] = f
      /\ \A u \in Task \ {cpu} : frames'[u] = frames[u]
      /\ \A u \in Task : \A n \in 1 .. Len(frames[u]) :
           n \in 1 .. Len(frames'[u]) /\ frames'[u][n] = frames[u][n]
  BY <1>1, <1>2, EntryFacts
<1>4. cpu \in Task /\ k \in Nat /\ isr \subseteq Line
  BY <1>1 DEF TypeOK
<1>5. OnMaster(l) \in Line /\ (l \in Slave => OnMaster(l) = SLAVE_CAS_PORT)
  BY DEF OnMaster
<1>6. TypeOK'
  BY <1>1, <1>2, <1>3, <1>5 DEF TypeOK
<1>7. PIT \notin isr
  <2>1. OnMaster(l) \in Nat
    BY <1>5
  <2> QED
    BY <1>2, <2>1 DEF Blocked
<1>8. l \in Slave => SLAVE_CAS_PORT \notin isr
  BY <1>2, <1>5 DEF Blocked
<1>9. \A u \in Task : \A n \in 1 .. Len(frames'[u]) :
        \/ u = cpu /\ n = k + 1 /\ frames'[u][n] = f
        \/ n \in 1 .. Len(frames[u]) /\ frames'[u][n] = frames[u][n]
  <2> SUFFICES ASSUME NEW u \in Task, NEW n \in 1 .. Len(frames'[u])
               PROVE  \/ u = cpu /\ n = k + 1 /\ frames'[u][n] = f
                      \/ n \in 1 .. Len(frames[u]) /\ frames'[u][n] = frames[u][n]
    OBVIOUS
  <2>1. CASE u = cpu /\ n = k + 1
    BY <1>3, <2>1
  <2>2. CASE u = cpu /\ n # k + 1
    <3>1. n \in 1 .. k
      BY <1>3, <1>4, <2>2
    <3> QED
      BY <1>3, <2>2, <3>1
  <2>3. CASE u # cpu
    BY <1>3, <2>3
  <2> QED
    BY <2>1, <2>2, <2>3
<1>10. OneUnacked'
  <2> SUFFICES ASSUME NEW t \in Task, NEW u \in Task,
                      NEW n \in 1 .. Len(frames'[t]), NEW m \in 1 .. Len(frames'[u]),
                      Unacked(frames'[t][n]), Unacked(frames'[u][m])
               PROVE  t = u /\ n = m /\ SLAVE_CAS_PORT \in isr'
    BY DEF OneUnacked, Unacked
  <2>1. CASE l \in Slave
    <3>1. \A v \in Task : \A i \in 1 .. Len(frames[v]) : ~Unacked(frames[v][i])
      BY <1>1, <1>8, <2>1 DEF OneUnacked
    <3>2. t = cpu /\ n = k + 1
      BY <1>9, <3>1
    <3>3. u = cpu /\ m = k + 1
      BY <1>9, <3>1
    <3> QED
      BY <1>2, <1>5, <2>1, <3>2, <3>3
  <2>2. CASE l \notin Slave
    <3>1. ~Unacked(f)
      BY <2>2 DEF Unacked
    <3>2. n \in 1 .. Len(frames[t]) /\ frames'[t][n] = frames[t][n]
      BY <1>9, <3>1
    <3>3. m \in 1 .. Len(frames[u]) /\ frames'[u][m] = frames[u][m]
      BY <1>9, <3>1
    <3> QED
      BY <1>1, <1>2, <3>2, <3>3 DEF OneUnacked
  <2> QED
    BY <2>1, <2>2
<1>11. f.irq = l /\ f.at = 1
  OBVIOUS
<1>12. EachServed'
  <2>1. PIT \in isr' => frames'[cpu] # << >> /\ Last(frames'[cpu]) = [irq |-> PIT, at |-> 1]
    <3> SUFFICES ASSUME PIT \in isr'
                 PROVE  frames'[cpu] # << >> /\ Last(frames'[cpu]) = [irq |-> PIT, at |-> 1]
      OBVIOUS
    <3>1. l = PIT
      BY <1>2, <1>7, <1>5 DEF OnMaster
    <3> QED
      BY <1>3, <1>4, <3>1 DEF Last
  <2>2. ASSUME NEW j \in isr' \ {PIT}
        PROVE  \E t \in Task : \E n \in 1 .. Len(frames'[t]) : Serves(frames'[t][n], j)
    <3>1. CASE j \in isr
      <4>a. PICK t \in Task : \E n \in 1 .. Len(frames[t]) : Serves(frames[t][n], j)
        BY <1>1, <3>1 DEF EachServed
      <4>1. PICK n \in 1 .. Len(frames[t]) : Serves(frames[t][n], j)
        BY <4>a
      <4> QED
        BY <1>3, <4>1
    <3>2. CASE j \notin isr
      <4>1. j = l \/ (l \in Slave /\ j = SLAVE_CAS_PORT)
        BY <1>2, <3>2 DEF OnMaster
      <4>2. Serves(f, j)
        BY <1>11, <4>1 DEF Serves, Unacked
      <4>3. k + 1 \in 1 .. Len(frames'[cpu])
        BY <1>3, <1>4
      <4> QED
        BY <1>3, <1>4, <4>2, <4>3
    <3> QED
      BY <3>1, <3>2
  <2> QED
    BY <1>2, <2>1, <2>2 DEF EachServed, Top, Serves, Unacked
<1> QED
  BY <1>6, <1>10, <1>12 DEF Inductive

(* A handler sends an acknowledgement.                                     *)
LEMMA EoiInductive ==
  ASSUME Inductive, SendEoi
  PROVE  Inductive'
<1> USE DEF PIT, KEYBOARD, DSP_IRQ_NUM, RTC, MOUSE, SLAVE_CAS_PORT, Slave, Irq, Line
<1> DEFINE f == Top(cpu)
           k == Len(frames[cpu])
<1>1. TypeOK /\ OneUnacked /\ EachServed
  BY DEF Inductive
<1>2. PICK step \in {"eoi", "slave", "cascade"}, l \in {Top(cpu).irq, SLAVE_CAS_PORT} :
        /\ Eoi(step, l)
        /\ l = IF step = "cascade" THEN SLAVE_CAS_PORT ELSE Top(cpu).irq
  BY DEF SendEoi
<1>3. /\ frames[cpu] # << >> /\ Step(f) = step
      /\ isr' = isr \ {l} /\ frames' = [frames EXCEPT ![cpu] = Advanced(cpu)]
      /\ masked' = masked /\ cpu' = cpu
  BY <1>2 DEF Eoi, Runs, Goes
<1>4. cpu \in Task
  BY <1>1 DEF TypeOK
<1>5. f \in Frame /\ k \in 1 .. Len(frames[cpu]) /\ frames[cpu][k] = f
  BY <1>1, <1>3, <1>4, AdvancedFacts
<1>6. /\ step = "eoi" => f.irq \in {KEYBOARD, DSP_IRQ_NUM} /\ f.at <= 2
      /\ step = "slave" => f.irq \in Slave /\ f.at = 1
      /\ step = "cascade" => f.irq \in Slave /\ f.at = 2
      /\ f # [irq |-> PIT, at |-> 1]
  BY <1>3, <1>5, StepFacts
<1>7. f.at <= 2 /\ f.at \in 1 .. 3
  BY <1>2, <1>5, <1>6 DEF Frame
<1>8. /\ frames' \in [Task -> Seq(Frame)]
      /\ \A u \in Task :
           /\ Len(frames'[u]) = Len(frames[u])
           /\ \A n \in 1 .. Len(frames[u]) :
                /\ frames'[u][n].irq = frames[u][n].irq
                /\ u # cpu \/ n # Len(frames[u]) => frames'[u][n] = frames[u][n]
                /\ u = cpu /\ n = Len(frames[u]) =>
                     /\ frames[u][n] = f
                     /\ frames'[u][n].at = frames[u][n].at + 1
  BY <1>1, <1>3, <1>4, <1>7, GoesFacts
<1>9. TypeOK'
  BY <1>1, <1>3, <1>8 DEF TypeOK
<1>10. PIT \notin isr
  BY <1>1, <1>6 DEF EachServed
<1>11. \A u \in Task : \A n \in 1 .. Len(frames[u]) :
         Unacked(frames'[u][n]) => /\ Unacked(frames[u][n])
                                   /\ ~(step = "cascade" /\ u = cpu /\ n = k)
  <2> SUFFICES ASSUME NEW u \in Task, NEW n \in 1 .. Len(frames[u]), Unacked(frames'[u][n])
               PROVE  Unacked(frames[u][n]) /\ ~(step = "cascade" /\ u = cpu /\ n = k)
    OBVIOUS
  <2>1. CASE u = cpu /\ n = k
    BY <1>6, <1>7, <1>8, <2>1 DEF Unacked
  <2>2. CASE ~(u = cpu /\ n = k)
    <3>1. frames'[u][n] = frames[u][n]
      BY <1>8, <2>2
    <3> QED
      BY <2>2, <3>1
  <2> QED
    BY <2>1, <2>2
<1>12. step = "cascade" => Unacked(frames[cpu][k])
  BY <1>5, <1>6 DEF Unacked
<1>13. OneUnacked'
  <2> SUFFICES ASSUME NEW t \in Task, NEW u \in Task,
                      NEW n \in 1 .. Len(frames'[t]), NEW m \in 1 .. Len(frames'[u]),
                      Unacked(frames'[t][n]), Unacked(frames'[u][m])
               PROVE  t = u /\ n = m /\ SLAVE_CAS_PORT \in isr'
    BY DEF OneUnacked, Unacked
  <2>1. n \in 1 .. Len(frames[t]) /\ m \in 1 .. Len(frames[u])
    BY <1>8
  <2>2. Unacked(frames[t][n]) /\ Unacked(frames[u][m])
    BY <1>11, <2>1
  <2>3. t = u /\ n = m /\ SLAVE_CAS_PORT \in isr
    BY <1>1, <2>1, <2>2 DEF OneUnacked
  <2>4. step # "cascade"
    <3> SUFFICES ASSUME step = "cascade" PROVE FALSE
      OBVIOUS
    <3>1. t = cpu /\ n = k
      BY <1>1, <1>4, <1>5, <1>12, <2>1, <2>2 DEF OneUnacked
    <3> QED
      BY <1>11, <2>1, <3>1
  <2>5. l # SLAVE_CAS_PORT
    BY <1>2, <1>6, <2>4
  <2> QED
    BY <1>3, <2>3, <2>5
<1>14. ASSUME NEW j \in isr' \ {PIT}
       PROVE  \E t \in Task : \E n \in 1 .. Len(frames'[t]) : Serves(frames'[t][n], j)
  <2>a. PICK t \in Task : \E n \in 1 .. Len(frames[t]) : Serves(frames[t][n], j)
    BY <1>1, <1>3 DEF EachServed
  <2>1. PICK n \in 1 .. Len(frames[t]) : Serves(frames[t][n], j)
    BY <2>a
  <2>2. n \in 1 .. Len(frames'[t])
    BY <1>8
  <2>3. j # l
    BY <1>3
  <2>4. CASE ~(t = cpu /\ n = k)
    <3>1. frames'[t][n] = frames[t][n]
      BY <1>8, <2>4
    <3> QED
      BY <2>1, <2>2, <3>1
  <2>5. CASE t = cpu /\ n = k
    <3>1. Serves(f, j)
      BY <1>5, <2>1, <2>5
    <3>2. step = "slave" /\ j = SLAVE_CAS_PORT
      BY <1>2, <1>6, <2>3, <3>1 DEF Serves, Unacked
    <3>3. frames'[t][n].irq \in Slave /\ frames'[t][n].at = 2
      BY <1>5, <1>6, <1>8, <2>5, <3>2
    <3> QED
      BY <2>2, <3>2, <3>3 DEF Serves, Unacked
  <2> QED
    BY <2>4, <2>5
<1>15. EachServed'
  BY <1>3, <1>10, <1>14 DEF EachServed, Serves, Unacked
<1> QED
  BY <1>9, <1>13, <1>15 DEF Inductive

(* The timer's handler acknowledges and goes on, in this task or another.  *)
LEMMA TickInductive ==
  ASSUME Inductive, NEW t \in Task, frames[t] # << >>, Top(t) = [irq |-> PIT, at |-> 1],
         isr' = isr \ {PIT}, masked' = masked, cpu' = t,
         frames' = [frames EXCEPT ![t] = Advanced(t)]
  PROVE  Inductive'
<1> USE DEF PIT, KEYBOARD, DSP_IRQ_NUM, RTC, MOUSE, SLAVE_CAS_PORT, Slave, Irq, Line
<1>1. TypeOK /\ OneUnacked /\ EachServed
  BY DEF Inductive
<1>2. Top(t).irq = PIT /\ Top(t).at = 1 /\ Top(t).at <= 2
  OBVIOUS
<1>3. /\ frames' \in [Task -> Seq(Frame)]
      /\ \A u \in Task :
           /\ Len(frames'[u]) = Len(frames[u])
           /\ \A n \in 1 .. Len(frames[u]) :
                /\ frames'[u][n].irq = frames[u][n].irq
                /\ u # t \/ n # Len(frames[u]) => frames'[u][n] = frames[u][n]
                /\ u = t /\ n = Len(frames[u]) =>
                     /\ frames[u][n] = Top(t)
                     /\ frames'[u][n].at = frames[u][n].at + 1
  BY <1>1, <1>2, GoesFacts
<1>4. TypeOK'
  BY <1>1, <1>3 DEF TypeOK
<1>5. \A u \in Task : \A n \in 1 .. Len(frames[u]) :
        \/ frames'[u][n] = frames[u][n]
        \/ frames[u][n].irq = PIT /\ frames'[u][n].irq = PIT
  BY <1>2, <1>3
<1>6. OneUnacked'
  <2> SUFFICES ASSUME NEW v \in Task, NEW u \in Task,
                      NEW n \in 1 .. Len(frames'[v]), NEW m \in 1 .. Len(frames'[u]),
                      Unacked(frames'[v][n]), Unacked(frames'[u][m])
               PROVE  v = u /\ n = m /\ SLAVE_CAS_PORT \in isr'
    BY DEF OneUnacked, Unacked
  <2>1. n \in 1 .. Len(frames[v]) /\ m \in 1 .. Len(frames[u])
    BY <1>3
  <2>2. Unacked(frames[v][n]) /\ Unacked(frames[u][m])
    BY <1>5, <2>1 DEF Unacked
  <2> QED
    BY <1>1, <2>1, <2>2 DEF OneUnacked
<1>7. ASSUME NEW j \in isr' \ {PIT}
      PROVE  \E u \in Task : \E n \in 1 .. Len(frames'[u]) : Serves(frames'[u][n], j)
  <2>a. PICK u \in Task : \E n \in 1 .. Len(frames[u]) : Serves(frames[u][n], j)
    BY <1>1 DEF EachServed
  <2>1. PICK n \in 1 .. Len(frames[u]) : Serves(frames[u][n], j)
    BY <2>a
  <2>2. n \in 1 .. Len(frames'[u])
    BY <1>3
  <2>3. frames'[u][n] = frames[u][n]
    BY <1>5, <2>1 DEF Serves, Unacked
  <2> QED
    BY <2>1, <2>2, <2>3
<1>8. EachServed'
  BY <1>7 DEF EachServed, Serves, Unacked
<1> QED
  BY <1>4, <1>6, <1>8 DEF Inductive

(* The entry returns.                                                      *)
LEMMA IretInductive ==
  ASSUME Inductive, Iret
  PROVE  Inductive'
<1> USE DEF PIT, KEYBOARD, DSP_IRQ_NUM, RTC, MOUSE, SLAVE_CAS_PORT, Slave, Irq, Line
<1>1. TypeOK /\ OneUnacked /\ EachServed
  BY DEF Inductive
<1>2. /\ frames[cpu] # << >> /\ Step(Top(cpu)) = "iret"
      /\ frames' = [frames EXCEPT ![cpu] = Front(@)]
      /\ isr' = isr /\ masked' = masked /\ cpu' = cpu
  BY DEF Iret, Runs, pic
<1>3. cpu \in Task
  BY <1>1 DEF TypeOK
<1>4. Top(cpu) \in Frame
  BY <1>1, <1>2, <1>3, AdvancedFacts
<1>5. /\ Top(cpu).irq = PIT \/ Top(cpu).at = 3
      /\ Top(cpu) # [irq |-> PIT, at |-> 1]
  BY <1>2, <1>4, StepFacts
<1>6. /\ frames' \in [Task -> Seq(Frame)]
      /\ \A u \in Task : \A n \in 1 .. Len(frames'[u]) :
           n \in 1 .. Len(frames[u]) /\ frames'[u][n] = frames[u][n]
      /\ \A u \in Task : \A n \in 1 .. Len(frames[u]) :
           \/ u = cpu /\ n = Len(frames[u]) /\ frames[u][n] = Top(cpu)
           \/ n \in 1 .. Len(frames'[u])
  BY <1>1, <1>2, ReturnFacts
<1>7. TypeOK'
  BY <1>1, <1>2, <1>6 DEF TypeOK
<1>8. OneUnacked'
  <2> SUFFICES ASSUME NEW v \in Task, NEW u \in Task,
                      NEW n \in 1 .. Len(frames'[v]), NEW m \in 1 .. Len(frames'[u]),
                      Unacked(frames'[v][n]), Unacked(frames'[u][m])
               PROVE  v = u /\ n = m /\ SLAVE_CAS_PORT \in isr'
    BY DEF OneUnacked, Unacked
  <2> QED
    BY <1>1, <1>2, <1>6 DEF OneUnacked
<1>9. ASSUME NEW j \in isr \ {PIT}
      PROVE  \E u \in Task : \E n \in 1 .. Len(frames'[u]) : Serves(frames'[u][n], j)
  <2>a. PICK u \in Task : \E n \in 1 .. Len(frames[u]) : Serves(frames[u][n], j)
    BY <1>1 DEF EachServed
  <2>1. PICK n \in 1 .. Len(frames[u]) : Serves(frames[u][n], j)
    BY <2>a
  <2>2. ~Serves(Top(cpu), j)
    BY <1>5 DEF Serves, Unacked
  <2>3. n \in 1 .. Len(frames'[u])
    BY <1>6, <2>1, <2>2
  <2> QED
    BY <1>6, <2>1, <2>3
<1>10. PIT \notin isr
  BY <1>1, <1>5 DEF EachServed
<1>11. EachServed'
  BY <1>2, <1>9, <1>10 DEF EachServed, Serves, Unacked
<1> QED
  BY <1>7, <1>8, <1>11 DEF Inductive

(* Every step                                                              *)
LEMMA NextInductive == Inductive /\ [Next]_vars => Inductive'
<1> SUFFICES ASSUME Inductive, [Next]_vars PROVE Inductive'
  OBVIOUS
<1>1. TypeOK
  BY DEF Inductive
<1>2. ASSUME NEW l \in Irq, Accept(l) PROVE Inductive'
  BY <1>2, AcceptInductive
<1>3. CASE EnableIrq
  <2>1. /\ isr' = isr /\ frames' = frames /\ cpu' = cpu /\ masked' \subseteq masked
    BY <1>3 DEF EnableIrq
  <2>2. TypeOK'
    BY <1>1, <2>1 DEF TypeOK
  <2> QED
    BY <2>1, <2>2 DEF Inductive, OneUnacked, EachServed, Serves, Unacked, Top
<1>4. CASE SendEoi
  BY <1>4, EoiInductive
<1>5. CASE Tick
  <2>1. cpu \in Task /\ frames[cpu] # << >> /\ Step(Top(cpu)) = "tick"
    BY <1>1, <1>5 DEF Tick, Runs, TypeOK
  <2>2. Top(cpu) \in Frame
    BY <1>1, <2>1, AdvancedFacts
  <2>3. Top(cpu).irq = PIT /\ Top(cpu).at = 1
    BY <2>1, <2>2, StepFacts
  <2>4. Top(cpu) = [irq |-> PIT, at |-> 1]
    BY <2>2, <2>3 DEF Frame
  <2>5. /\ isr' = isr \ {PIT} /\ masked' = masked /\ cpu' = cpu
        /\ frames' = [frames EXCEPT ![cpu] = Advanced(cpu)]
    BY <1>5 DEF Tick, Goes
  <2> QED
    BY <2>1, <2>4, <2>5, TickInductive
<1>6. CASE Iret
  BY <1>6, IretInductive
<1>7. ASSUME NEW next \in Task, Reschedule(next) PROVE Inductive'
  <2>1. frames[next] # << >> /\ Top(next).irq = PIT /\ Top(next).at = 1
    BY <1>7 DEF Reschedule, Switched
  <2>2. Top(next) \in Frame
    BY <1>1, <2>1, AdvancedFacts
  <2>3. Top(next) = [irq |-> PIT, at |-> 1]
    BY <2>1, <2>2 DEF Frame
  <2>4. /\ isr' = isr \ {PIT} /\ masked' = masked /\ cpu' = next
        /\ frames' = [frames EXCEPT ![next] = Advanced(next)]
    BY <1>7 DEF Reschedule
  <2> QED
    BY <2>1, <2>3, <2>4, TickInductive
<1>8. CASE UNCHANGED vars
  BY <1>8 DEF vars, pic, Inductive, TypeOK, OneUnacked, EachServed, Serves, Unacked, Top
<1> QED
  BY <1>2, <1>3, <1>4, <1>5, <1>6, <1>7, <1>8 DEF Next, HandlerStep

LEMMA AlwaysInductive == Spec => []Inductive
<1> QED
  BY InitInductive, NextInductive, PTL DEF Spec

-----------------------------------------------------------------------------
(* What it implies                                                         *)

(* The steps to come, from the place of a handler.                         *)
LEMMA ToComeFacts ==
  ASSUME NEW f \in Frame
  PROVE  /\ "slave" \in ToCome(f) => Unacked(f)
         /\ f.irq \in Slave /\ f.at <= 1 => "slave" \in ToCome(f)
         /\ Unacked(f) => "cascade" \in ToCome(f)
         /\ f.irq \in {KEYBOARD, DSP_IRQ_NUM} /\ f.at <= 2 => "eoi" \in ToCome(f)
<1> USE DEF PIT, KEYBOARD, DSP_IRQ_NUM, RTC, MOUSE, Slave, Irq
<1>1. f.irq \in Irq /\ f.at \in {1, 2, 3}
  BY DEF Frame
<1>2. CASE f.irq = PIT
  <2>1. Handler[f.irq] = << "tick" >>
    BY <1>1, <1>2 DEF Handler
  <2>2. \A k \in f.at .. Len(Handler[f.irq]) : Handler[f.irq][k] = "tick"
    BY <1>1, <2>1
  <2> QED
    BY <1>1, <1>2, <2>2 DEF ToCome, Unacked
<1>3. CASE f.irq \in {KEYBOARD, DSP_IRQ_NUM}
  <2>1. Handler[f.irq] = << "eoi", "eoi" >>
    BY <1>1, <1>3 DEF Handler
  <2>2. \A k \in f.at .. Len(Handler[f.irq]) : Handler[f.irq][k] = "eoi"
    BY <1>1, <2>1
  <2>3. f.at <= 2 => f.at \in f.at .. Len(Handler[f.irq])
    BY <1>1, <2>1
  <2> QED
    BY <1>1, <1>3, <2>2, <2>3 DEF ToCome, Unacked
<1>4. CASE f.irq \in Slave
  <2>1. Handler[f.irq] = << "slave", "cascade" >>
    BY <1>1, <1>4 DEF Handler
  <2>2. Len(Handler[f.irq]) = 2 /\ Handler[f.irq][1] = "slave" /\ Handler[f.irq][2] = "cascade"
    BY <2>1
  <2>3. "slave" \in ToCome(f) => f.at <= 1
    BY <1>1, <2>2 DEF ToCome
  <2>4. f.at <= 1 => "slave" \in ToCome(f)
    BY <1>1, <2>2 DEF ToCome
  <2>5. f.at <= 2 => "cascade" \in ToCome(f)
    BY <1>1, <2>2 DEF ToCome
  <2> QED
    BY <1>1, <1>4, <2>3, <2>4, <2>5 DEF Unacked
<1> QED
  BY <1>1, <1>2, <1>3, <1>4

LEMMA InductiveAlone == Inductive => SlaveAlone
<1> SUFFICES ASSUME Inductive PROVE Cardinality(Waiting("slave")) <= 1
  BY DEF SlaveAlone
<1> DEFINE W == Waiting("slave")
<1>1. frames \in [Task -> Seq(Frame)] /\ OneUnacked
  BY DEF Inductive, TypeOK
<1>2. ASSUME NEW w \in W
      PROVE  /\ w \in Task \X (1 .. MaxFrames) /\ w = << w[1], w[2] >> /\ w[1] \in Task
             /\ w[2] \in 1 .. Len(frames[w[1]]) /\ Unacked(frames[w[1]][w[2]])
  <2>1. /\ w \in Task \X (1 .. MaxFrames) /\ w[2] \in DOMAIN frames[w[1]]
        /\ "slave" \in ToCome(frames[w[1]][w[2]])
    BY <1>2 DEF Waiting
  <2>2. w = << w[1], w[2] >> /\ w[1] \in Task
    BY <2>1
  <2>3. w[2] \in 1 .. Len(frames[w[1]]) /\ frames[w[1]][w[2]] \in Frame
    BY <1>1, <2>1, <2>2
  <2> QED
    BY <2>1, <2>2, <2>3, ToComeFacts
<1>3. ASSUME NEW v \in W, NEW w \in W PROVE v = w
  <2>1. v[1] = w[1] /\ v[2] = w[2]
    BY <1>1, <1>2 DEF OneUnacked
  <2> QED
    BY <1>2, <2>1
<1> HIDE DEF W
<1>4. W = {} \/ \E w \in W : W = {w}
  BY <1>3
<1>5. Cardinality(W) \in {0, 1}
  BY <1>4, FS_EmptySet, FS_Singleton
<1> QED
  BY <1>5 DEF W

LEMMA InductiveServed == Inductive => ServiceHasHandler
<1> USE DEF PIT, KEYBOARD, DSP_IRQ_NUM, RTC, MOUSE, SLAVE_CAS_PORT, Slave, Irq, Line
<1> SUFFICES ASSUME Inductive, NEW l \in isr, l # PIT
             PROVE  \E t \in Task : \E n \in DOMAIN frames[t] :
                      /\ OnMaster(frames[t][n].irq) = OnMaster(l)
                      /\ ToCome(frames[t][n])
                           \cap (IF l = SLAVE_CAS_PORT THEN {"cascade"} ELSE {"eoi", "slave"}) # {}
  BY DEF ServiceHasHandler, Inductive, EachServed
<1>1. frames \in [Task -> Seq(Frame)] /\ l \in Line
  BY DEF Inductive, TypeOK
<1>2. PICK t \in Task : \E n \in 1 .. Len(frames[t]) : Serves(frames[t][n], l)
  BY DEF Inductive, EachServed
<1>3. PICK n \in 1 .. Len(frames[t]) : Serves(frames[t][n], l)
  BY <1>2
<1>4. n \in DOMAIN frames[t] /\ frames[t][n] \in Frame
  BY <1>1
<1> DEFINE f == frames[t][n]
<1> HIDE DEF f
<1>5. f \in Frame /\ Serves(f, l)
  BY <1>3, <1>4 DEF f
<1>6. CASE l = SLAVE_CAS_PORT
  <2>1. Unacked(f)
    BY <1>5, <1>6 DEF Serves
  <2>2. "cascade" \in ToCome(f) /\ OnMaster(f.irq) = OnMaster(l)
    BY <1>5, <1>6, <2>1, ToComeFacts DEF Unacked, OnMaster
  <2> QED
    BY <1>4, <1>6, <2>2 DEF f
<1>7. CASE l # SLAVE_CAS_PORT
  <2>1. f.irq = l /\ f.at <= IF l \in Slave THEN 1 ELSE 2
    BY <1>5, <1>7 DEF Serves
  <2>2. "eoi" \in ToCome(f) \/ "slave" \in ToCome(f)
    BY <1>1, <1>5, <1>7, <2>1, ToComeFacts
  <2> QED
    BY <1>4, <1>7, <2>1, <2>2 DEF f
<1> QED
  BY <1>6, <1>7

(* The lines and handlers keep their types, however the timer, the other   *)
(* lines and the switches of tasks interleave.                             *)
THEOREM PicTypes == Spec => []TypeOK
<1>1. Inductive => TypeOK
  BY DEF Inductive
<1> QED
  BY <1>1, AlwaysInductive, PTL

(* The handlers of the RTC and of the mouse exclude each other for any     *)
(* number of tasks, because send_eoi tells the slave first and the master  *)
(* after it.                                                               *)
THEOREM SlaveHandlersAlone == Spec => []SlaveAlone
<1> QED
  BY AlwaysInductive, InductiveAlone, PTL

(* No line is left in service by a handler that has forgotten it, though   *)
(* several handlers acknowledge the same line twice.                       *)
THEOREM NoOrphanedService == Spec => []ServiceHasHandler
<1> QED
  BY AlwaysInductive, InductiveServed, PTL
=============================================================================

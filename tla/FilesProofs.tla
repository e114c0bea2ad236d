----------------------------- MODULE FilesProofs -----------------------------
(* Proofs about Files: the count of open descriptors is exact, so that     *)
(* none is ever taken past the end of the array; no clock and no card is   *)
(* lost; and what is read is the file, from its first byte on. For any     *)
(* tasks, any number of descriptors and of clocks, and any disk.           *)
EXTENDS Files, FiniteSetTheorems, SequenceTheorems, WellFoundedInduction, TLAPS

(* A non-empty set of naturals has a least element.                        *)
LEMMA MinFacts ==
  ASSUME NEW S, S \subseteq Nat, S # {}
  PROVE  Min(S) \in S /\ \A x \in S : Min(S) <= x
<1> DEFINE R == {xy \in Nat \X Nat : xy[1] < xy[2]}
<1>1. IsWellFoundedOn(R, Nat)
  BY NatLessThanWellFounded DEF OpToRel
<1>2. \A x, y \in Nat : x < y => <<x, y>> \in R
  OBVIOUS
<1> HIDE DEF R
<1>3. PICK m \in S : \A x \in S : ~ (<<x, m>> \in R)
  BY <1>1, WFMin
<1>4. \A x \in S : m \in Nat /\ x \in Nat /\ ~ (x < m)
  BY <1>2, <1>3
<1>5. \A x \in S : m <= x
  BY <1>4
<1> QED  BY <1>5 DEF Min
-----------------------------------------------------------------------------

Desc == [f_op : {"none", "terminal", "file", "dir", "rtc", Audio},
         inode : Nat, f_pos : Nat]

Where == {"user", "clock", "card", "stop", "wait", "dead"}

Shape ==
  /\ files \in [Task -> [Fd -> Desc]]
  /\ n_opend_files \in [Task -> Int]
  /\ rtc_id \in [Task -> Clock \cup {-1}]
  /\ virtual_ctr = [i \in Clock |-> virtual_ctr[i]]
  /\ pc \in [Task -> Where]
  /\ arg \in [Task -> Fd]
  /\ fault \in {"none", "no_clock"}

OpenOf(f) == {fd \in Fd : f[fd] # Closed}

(* A task's descriptors f, counted by n, fit what it is doing: it went     *)
(* past the test of the count with room left, and stops a card that it     *)
(* has open. The first two descriptors stay with the terminal.             *)
Fits(f, n, r, p, a) ==
  /\ f[0].f_op = "terminal" /\ f[1].f_op = "terminal"
  /\ p # "dead" => n = Cardinality(OpenOf(f))
  /\ p \in {"clock", "card"} => n < NFile
  /\ p = "clock" => r # -1
  /\ p = "stop" => f[a].f_op = Audio
  /\ p = "dead" => \A fd \in Fd : f[fd].f_op \in {"none", "terminal"}

FitsAt(t) == Fits(files[t], n_opend_files[t], rtc_id[t], pc[t], arg[t])

Owns(t, i) == rtc_id[t] = i /\ (Uses(t, "rtc") # {} \/ pc[t] = "clock")

Inductive == Shape /\ (\A t \in Task : FitsAt(t)) /\ DevicesOwned

-----------------------------------------------------------------------------
(* Descriptor arrays                                                       *)

LEMMA FdFacts == IsFiniteSet(Fd) /\ Cardinality(Fd) = NFile /\ {0, 1, 2} \subseteq Fd
<1>1. NFile \in Nat /\ NFile > 2
  BY LimitAssumption
<1>2. IsFiniteSet(0 .. NFile - 1) /\ Cardinality(0 .. NFile - 1) = NFile
  BY <1>1, FS_Interval
<1> QED
  BY <1>1, <1>2 DEF Fd

(* Taking a descriptor that is free, and giving back one that is not.      *)
LEMMA OpenCount ==
  ASSUME NEW f \in [Fd -> Desc]
  PROVE  /\ IsFiniteSet(OpenOf(f)) /\ Cardinality(OpenOf(f)) \in Nat
         /\ \A fd \in Fd, d \in Desc : f[fd] = Closed /\ d # Closed =>
              Cardinality(OpenOf([f EXCEPT ![fd] = d])) = Cardinality(OpenOf(f)) + 1
         /\ \A fd \in Fd, d \in Desc : f[fd] # Closed /\ d # Closed =>
              Cardinality(OpenOf([f EXCEPT ![fd] = d])) = Cardinality(OpenOf(f))
         /\ \A fd \in Fd : f[fd] # Closed =>
              Cardinality(OpenOf([f EXCEPT ![fd] = Closed])) = Cardinality(OpenOf(f)) - 1
         /\ Cardinality(OpenOf(f)) < NFile => \E fd \in Fd : f[fd] = Closed
<1>1. IsFiniteSet(OpenOf(f)) /\ Cardinality(OpenOf(f)) \in Nat
  BY FdFacts, FS_Subset, FS_CardinalityType DEF OpenOf
<1>2. ASSUME NEW fd \in Fd, NEW d \in Desc, f[fd] = Closed, d # Closed
      PROVE  Cardinality(OpenOf([f EXCEPT ![fd] = d])) = Cardinality(OpenOf(f)) + 1
  <2>1. OpenOf([f EXCEPT ![fd] = d]) = OpenOf(f) \cup {fd}
    BY <1>2 DEF OpenOf
  <2>2. fd \notin OpenOf(f)
    BY <1>2 DEF OpenOf
  <2> QED
    BY <1>1, <2>1, <2>2, FS_AddElement
<1>3. ASSUME NEW fd \in Fd, NEW d \in Desc, f[fd] # Closed, d # Closed
      PROVE  Cardinality(OpenOf([f EXCEPT ![fd] = d])) = Cardinality(OpenOf(f))
  <2>1. OpenOf([f EXCEPT ![fd] = d]) = OpenOf(f)
    BY <1>3 DEF OpenOf
  <2> QED
    BY <2>1
<1>4. ASSUME NEW fd \in Fd, f[fd] # Closed
      PROVE  Cardinality(OpenOf([f EXCEPT ![fd] = Closed])) = Cardinality(OpenOf(f)) - 1
  <2>1. OpenOf([f EXCEPT ![fd] = Closed]) = OpenOf(f) \ {fd}
    BY DEF OpenOf
  <2>2. fd \in OpenOf(f)
    BY <1>4 DEF OpenOf
  <2> QED
    BY <1>1, <2>1, <2>2, FS_RemoveElement
<1>5. ASSUME Cardinality(OpenOf(f)) < NFile
      PROVE  \E fd \in Fd : f[fd] = Closed
  <2>1. OpenOf(f) # Fd
    BY <1>5, FdFacts, <1>1
  <2> QED
    BY <2>1 DEF OpenOf
<1> QED
  BY <1>1, <1>2, <1>3, <1>4, <1>5

(* What an action does to the PCB of t, and to no other.                   *)
PcbOf(t) ==
  /\ files' = [files EXCEPT ![t] = files'[t]] /\ files'[t] \in [Fd -> Desc]
  /\ n_opend_files' = [n_opend_files EXCEPT ![t] = n_opend_files'[t]]
  /\ n_opend_files'[t] \in Int

(* allocate_fd finds the first descriptor that is free, if there is room.  *)
LEMMA PopulateFacts ==
  ASSUME Shape, NEW t \in Task, FitsAt(t), pc[t] # "dead", n_opend_files[t] < NFile,
         NEW op, op \in {"file", "dir", "rtc", Audio}, NEW inode \in Nat,
         Populate(t, op, inode)
  PROVE  /\ PcbOf(t)
         /\ files'[t][0].f_op = "terminal" /\ files'[t][1].f_op = "terminal"
         /\ n_opend_files'[t] = Cardinality(OpenOf(files'[t]))
         /\ Uses(t, op)' # {}
         /\ \A o : Uses(t, o) \subseteq Uses(t, o)' \/ o = "none"
         /\ fault' = fault
<1> DEFINE d == [f_op |-> op, inode |-> inode, f_pos |-> 0]
           k == AllocateFd(t)
<1>1. files[t] \in [Fd -> Desc] /\ n_opend_files[t] = Cardinality(OpenOf(files[t]))
  BY DEF Shape, FitsAt, Fits
<1>2. \E fd \in Fd : files[t][fd] = Closed
  BY <1>1, OpenCount
<1>3. Open(t) = OpenOf(files[t]) /\ Fd \ Open(t) # {} /\ Fd \ Open(t) \subseteq Nat
  BY <1>2, LimitAssumption DEF Open, OpenOf, Fd
<1>4. k \in Fd \ Open(t)
  BY <1>3, MinFacts DEF AllocateFd
<1>5. k \in Fd /\ files[t][k] = Closed /\ Closed.f_op = "none"
  BY <1>4 DEF Open, Closed
<1>6. d \in Desc /\ d # Closed /\ d.f_op = op
  <2>1. d.f_op = op /\ op # "none"
    BY DEF Audio
  <2>2. d # Closed
    BY <1>5, <2>1
  <2> QED
    BY <2>1, <2>2 DEF Desc, Audio
<1>7. /\ files' = [files EXCEPT ![t][k] = d]
      /\ n_opend_files' = [n_opend_files EXCEPT ![t] = @ + 1]
      /\ fault' = fault
  BY <1>5 DEF Populate
<1>8. Cardinality(OpenOf([files[t] EXCEPT ![k] = d])) = n_opend_files[t] + 1
  BY <1>1, <1>5, <1>6, OpenCount
<1> HIDE DEF d, k
<1>9. files'[t] = [files[t] EXCEPT ![k] = d] /\ files' = [files EXCEPT ![t] = files'[t]]
  BY <1>7 DEF Shape
<1>10. /\ n_opend_files'[t] = n_opend_files[t] + 1 /\ n_opend_files'[t] \in Int
       /\ n_opend_files' = [n_opend_files EXCEPT ![t] = n_opend_files'[t]]
  BY <1>7 DEF Shape
<1>11. PcbOf(t)
  BY <1>1, <1>5, <1>6, <1>9, <1>10 DEF PcbOf
<1>12. /\ files'[t][k] = d
       /\ \A fd \in Fd : fd # k => files'[t][fd] = files[t][fd]
  BY <1>1, <1>5, <1>9
<1>13. files'[t][0].f_op = "terminal" /\ files'[t][1].f_op = "terminal"
  BY <1>5, <1>12, FdFacts DEF FitsAt, Fits
<1>14. Uses(t, op)' # {}
  BY <1>5, <1>6, <1>12 DEF Uses
<1>15. \A o : Uses(t, o) \subseteq Uses(t, o)' \/ o = "none"
  BY <1>5, <1>12 DEF Uses
<1> QED
  BY <1>7, <1>8, <1>9, <1>10, <1>11, <1>13, <1>14, <1>15

(* A descriptor that is given back.                                        *)
LEMMA ReleaseFacts ==
  ASSUME Shape, NEW t \in Task, FitsAt(t), pc[t] # "dead", NEW k \in Fd,
         files[t][k].f_op \notin {"none", "terminal"}, Release(t, {k})
  PROVE  /\ PcbOf(t)
         /\ files'[t][0].f_op = "terminal" /\ files'[t][1].f_op = "terminal"
         /\ n_opend_files'[t] = Cardinality(OpenOf(files'[t]))
         /\ \A o : o # files[t][k].f_op => Uses(t, o) \subseteq Uses(t, o)'
<1>1. files[t] \in [Fd -> Desc] /\ n_opend_files[t] = Cardinality(OpenOf(files[t]))
  BY DEF Shape, FitsAt, Fits
<1>2. files[t][k] # Closed /\ Closed.f_op = "none" /\ Closed \in Desc
  BY DEF Closed, Desc
<1>3. Cardinality({k}) = 1
  BY FS_Singleton
<1>4. /\ files' = [files EXCEPT ![t] = [fd \in Fd |-> IF fd \in {k} THEN Closed ELSE @[fd]]]
      /\ n_opend_files' = [n_opend_files EXCEPT ![t] = @ - Cardinality({k})]
  BY DEF Release
<1>5. files'[t] = [fd \in Fd |-> IF fd \in {k} THEN Closed ELSE files[t][fd]]
  BY <1>4 DEF Shape
<1>6. files'[t] = [files[t] EXCEPT ![k] = Closed] /\ files' = [files EXCEPT ![t] = files'[t]]
  <2>1. files' = [files EXCEPT ![t] = files'[t]]
    BY <1>4, <1>5 DEF Shape
  <2> QED
    BY <1>1, <1>5, <2>1
<1>7. /\ n_opend_files'[t] = n_opend_files[t] - 1 /\ n_opend_files'[t] \in Int
      /\ n_opend_files' = [n_opend_files EXCEPT ![t] = n_opend_files'[t]]
  BY <1>3, <1>4 DEF Shape
<1>8. n_opend_files'[t] = Cardinality(OpenOf(files'[t]))
  BY <1>1, <1>2, <1>6, <1>7, OpenCount
<1>9. PcbOf(t)
  BY <1>1, <1>2, <1>6, <1>7 DEF PcbOf
<1>10. \A fd \in Fd : fd # k => files'[t][fd] = files[t][fd]
  BY <1>1, <1>6
<1>11. files'[t][0].f_op = "terminal" /\ files'[t][1].f_op = "terminal"
  BY <1>10, FdFacts DEF FitsAt, Fits
<1>12. \A o : o # files[t][k].f_op => Uses(t, o) \subseteq Uses(t, o)'
  BY <1>10 DEF Uses
<1> QED
  BY <1>8, <1>9, <1>11, <1>12

(* A read moves the position only.                                         *)
LEMMA AdvanceFacts ==
  ASSUME Shape, NEW t \in Task, FitsAt(t), pc[t] # "dead", NEW k \in Fd, NEW n \in Nat,
         files[t][k].f_op # "none",
         files' = [files EXCEPT ![t][k].f_pos = @ + n], n_opend_files' = n_opend_files
  PROVE  /\ PcbOf(t)
         /\ files'[t][0].f_op = "terminal" /\ files'[t][1].f_op = "terminal"
         /\ n_opend_files'[t] = Cardinality(OpenOf(files'[t]))
         /\ \A o : Uses(t, o) \subseteq Uses(t, o)'
<1> DEFINE d == [files[t][k] EXCEPT !.f_pos = files[t][k].f_pos + n]
<1>1. files[t] \in [Fd -> Desc] /\ n_opend_files[t] = Cardinality(OpenOf(files[t]))
  BY DEF Shape, FitsAt, Fits
<1>2. files[t][k] \in Desc /\ files[t][k] # Closed /\ Closed.f_op = "none"
  BY <1>1 DEF Closed
<1>3. d \in Desc /\ d.f_op = files[t][k].f_op
  BY <1>2 DEF Desc
<1>4. d # Closed
  BY <1>2, <1>3
<1>5. files'[t] = [files[t] EXCEPT ![k] = d] /\ files' = [files EXCEPT ![t] = files'[t]]
  BY DEF Shape
<1> HIDE DEF d
<1>6. n_opend_files'[t] = Cardinality(OpenOf(files'[t]))
  BY <1>1, <1>2, <1>3, <1>4, <1>5, OpenCount
<1>7. PcbOf(t)
  BY <1>1, <1>3, <1>5 DEF PcbOf, Shape
<1>8. \A fd \in Fd : files'[t][fd].f_op = files[t][fd].f_op
  BY <1>1, <1>3, <1>5
<1>9. files'[t][0].f_op = "terminal" /\ files'[t][1].f_op = "terminal"
  BY <1>8, FdFacts DEF FitsAt, Fits
<1>10. \A o : Uses(t, o) \subseteq Uses(t, o)'
  BY <1>8 DEF Uses
<1> QED
  BY <1>6, <1>7, <1>9, <1>10

(* The entry of a name that is found is one of the directory.              *)
LEMMA LookupFacts ==
  ASSUME NEW nm, Found(nm)
  PROVE  Lookup(nm).inode \in Nat
<1> DEFINE K == Matches(nm)
           first(k) == \A l \in K : k <= l
<1>1. K \subseteq Nat /\ K # {} /\ K \subseteq DOMAIN Dentries
  BY DentryAssumption DEF Found, Matches
<1>2. \E k \in K : first(k)
  BY <1>1, MinFacts
<1>3. (CHOOSE k \in K : first(k)) \in K
  BY <1>2
<1>4. Lookup(nm) = Dentries[CHOOSE k \in K : first(k)]
  BY DEF Lookup
<1> DEFINE R == [f_name : Name, f_type : Type, inode : Nat]
<1>5. \A k \in DOMAIN Dentries : Dentries[k] \in R
  <2>1. Dentries \in Seq(R)
    BY DentryAssumption
  <2> HIDE DEF R
  <2> QED
    BY <2>1
<1> HIDE DEF K, first, R
<1>6. Lookup(nm) \in R
  BY <1>1, <1>3, <1>4, <1>5
<1> QED
  BY <1>6 DEF R

LEMMA CountFacts ==
  ASSUME NEW inode \in Inode, NEW offset \in Nat, NEW size \in Nat
  PROVE  Count(inode, offset, size) \in Nat
<1> QED
  BY InodeAssumption DEF Count

(* The array of a new task.                                                *)
LEMMA InitArray ==
  /\ InitFileArr \in [Fd -> Desc] /\ Cardinality(OpenOf(InitFileArr)) = 2
  /\ InitFileArr[0].f_op = "terminal" /\ InitFileArr[1].f_op = "terminal"
  /\ \A fd \in Fd : InitFileArr[fd].f_op \in {"none", "terminal"}
<1>1. \A k \in {0, 1} : Std(k) \in Desc /\ Std(k).f_op = "terminal"
  BY DEF Std, Desc
<1>2. Closed \in Desc /\ Closed.f_op = "none"
  BY DEF Closed, Desc
<1>3. \A fd \in Fd : InitFileArr[fd] = IF fd \in {0, 1} THEN Std(fd) ELSE Closed
  BY LimitAssumption DEF InitFileArr, Fd
<1>4. InitFileArr \in [Fd -> Desc]
  <2>1. \A fd \in Fd : InitFileArr[fd] \in Desc
    BY <1>1, <1>2, <1>3
  <2> QED
    BY <2>1 DEF InitFileArr
<1>5. OpenOf(InitFileArr) = {0, 1}
  <2>1. \A fd \in Fd : InitFileArr[fd] # Closed <=> fd \in {0, 1}
    BY <1>1, <1>2, <1>3
  <2> QED
    BY <2>1, FdFacts DEF OpenOf
<1>6. Cardinality({0, 1}) = 2
  <2>1. IsFiniteSet({0}) /\ Cardinality({0}) = 1
    BY FS_Singleton
  <2>2. {0, 1} = {0} \cup {1} /\ 1 \notin {0}
    OBVIOUS
  <2> QED
    BY <2>1, <2>2, FS_AddElement
<1> QED
  BY <1>1, <1>2, <1>3, <1>4, <1>5, <1>6, FdFacts

-----------------------------------------------------------------------------
(* A step of one task                                                      *)

Clocks(t) ==
  \A i \in 0 .. NClk - 2 : fault' = "none" /\ virtual_ctr'[i] # -1 =>
    Owns(t, i)' \/ (virtual_ctr[i] # -1 /\ ~Owns(t, i))

Cards(t) ==
  dsp_status' = "on" =>
    Uses(t, Audio)' # {} \/ (dsp_status = "on" /\ Uses(t, Audio) = {})

(* It is enough to look at the task: the others own what they owned.       *)
LEMMA StepKeeps ==
  ASSUME Inductive, Up, NEW t \in Task, PcbOf(t),
         rtc_id' = [rtc_id EXCEPT ![t] = rtc_id'[t]], rtc_id'[t] \in Clock \cup {-1},
         pc' = [pc EXCEPT ![t] = pc'[t]], pc'[t] \in Where,
         arg' = [arg EXCEPT ![t] = arg'[t]], arg'[t] \in Fd,
         virtual_ctr' = [i \in Clock |-> virtual_ctr'[i]],
         fault' \in {"none", "no_clock"},
         FitsAt(t)', Clocks(t), Cards(t)
  PROVE  Inductive'
<1>1. Shape /\ (\A u \in Task : FitsAt(u)) /\ ClockOwned /\ CardOwned
  BY DEF Inductive, DevicesOwned
<1>2. Shape'
  BY <1>1 DEF Shape, PcbOf
<1>3. ASSUME NEW u \in Task \ {t}
      PROVE  /\ files'[u] = files[u] /\ n_opend_files'[u] = n_opend_files[u]
             /\ rtc_id'[u] = rtc_id[u] /\ pc'[u] = pc[u] /\ arg'[u] = arg[u]
  BY <1>1 DEF Shape, PcbOf
<1>4. ASSUME NEW u \in Task \ {t}
      PROVE  FitsAt(u)' /\ \A o : Uses(u, o)' = Uses(u, o)
  <2>1. FitsAt(u)
    BY <1>1
  <2> QED
    BY <1>3, <2>1 DEF FitsAt, Fits, Uses
<1>5. \A u \in Task : FitsAt(u)'
  BY <1>4
<1>6. ClockOwned'
  <2> SUFFICES ASSUME fault' = "none", NEW i \in 0 .. NClk - 2, virtual_ctr'[i] # -1
               PROVE  \E u \in Task : Owns(u, i)'
    BY DEF ClockOwned, Up, Owns
  <2>1. CASE Owns(t, i)'
    BY <2>1
  <2>2. CASE virtual_ctr[i] # -1 /\ ~Owns(t, i)
    <3>1. PICK u \in Task : Owns(u, i)
      BY <1>1, <2>2 DEF ClockOwned, Owns
    <3>2. u \in Task \ {t}
      BY <2>2, <3>1
    <3> QED
      BY <1>3, <1>4, <3>1, <3>2 DEF Owns
  <2> QED
    BY <2>1, <2>2 DEF Clocks
<1>7. CardOwned'
  <2> SUFFICES ASSUME dsp_status' = "on"
               PROVE  \E u \in Task : Uses(u, Audio)' # {}
    BY DEF CardOwned
  <2>1. CASE Uses(t, Audio)' # {}
    BY <2>1
  <2>2. CASE dsp_status = "on" /\ Uses(t, Audio) = {}
    <3>1. PICK u \in Task : Uses(u, Audio) # {}
      BY <1>1, <2>2 DEF CardOwned
    <3>2. u \in Task \ {t}
      BY <2>2, <3>1
    <3> QED
      BY <1>4, <3>1, <3>2
  <2> QED
    BY <2>1, <2>2 DEF Cards
<1> QED
  BY <1>2, <1>5, <1>6, <1>7 DEF Inductive, DevicesOwned

(* A step that leaves the clocks alone and closes nothing that needs one.  *)
LEMMA ClocksKept ==
  ASSUME NEW t \in Task, pc[t] # "clock" \/ pc'[t] = "clock",
         virtual_ctr' = virtual_ctr, rtc_id'[t] = rtc_id[t],
         Uses(t, "rtc") \subseteq Uses(t, "rtc")'
  PROVE  Clocks(t)
<1> QED
  BY DEF Clocks, Owns

LEMMA CardsKept ==
  ASSUME NEW t \in Task, dsp_status' = dsp_status,
         Uses(t, Audio) \subseteq Uses(t, Audio)'
  PROVE  Cards(t)
<1> QED
  BY DEF Cards

(* A step that leaves the descriptors alone.                               *)
LEMMA PcbKept ==
  ASSUME Shape, NEW t \in Task, UNCHANGED <<files, n_opend_files>>
  PROVE  /\ PcbOf(t) /\ files'[t] = files[t] /\ n_opend_files'[t] = n_opend_files[t]
         /\ \A o : Uses(t, o)' = Uses(t, o)
<1> QED
  BY DEF Shape, PcbOf, Uses

(* The rest of a PCB, as it is or with one change.                         *)
LEMMA RestKept ==
  ASSUME Shape, NEW t \in Task
  PROVE  /\ rtc_id' = rtc_id => /\ rtc_id' = [rtc_id EXCEPT ![t] = rtc_id'[t]]
                                /\ rtc_id'[t] \in Clock \cup {-1}
         /\ pc' = pc => pc' = [pc EXCEPT ![t] = pc'[t]] /\ pc'[t] \in Where
         /\ arg' = arg => arg' = [arg EXCEPT ![t] = arg'[t]] /\ arg'[t] \in Fd
         /\ virtual_ctr' = virtual_ctr => virtual_ctr' = [i \in Clock |-> virtual_ctr'[i]]
         /\ \A w \in Where : pc' = [pc EXCEPT ![t] = w] =>
              pc' = [pc EXCEPT ![t] = pc'[t]] /\ pc'[t] = w /\ pc'[t] \in Where
         /\ fault' = fault => fault' \in {"none", "no_clock"}
<1> QED
  BY DEF Shape

-----------------------------------------------------------------------------
(* open *)

LEMMA OpenFileInductive ==
  ASSUME Inductive, NEW t \in Task, NEW nm, OpenFile(t, nm) \/ OpenDir(t, nm)
  PROVE  Inductive'
<1>1. Shape /\ FitsAt(t)
  BY DEF Inductive
<1>2. /\ Up /\ pc[t] = "user" /\ n_opend_files[t] < NFile /\ Found(nm)
      /\ UNCHANGED <<rtc_id, clkVars, dsp_status, pc, arg>>
  BY DEF OpenFile, OpenDir, OpeningEntry, Opening, Calls, Room
<1>3. PICK op \in {"file", "dir"}, inode \in Nat : Populate(t, op, inode)
  BY <1>2, LookupFacts DEF OpenFile, OpenDir
<1>4. /\ PcbOf(t)
      /\ files'[t][0].f_op = "terminal" /\ files'[t][1].f_op = "terminal"
      /\ n_opend_files'[t] = Cardinality(OpenOf(files'[t]))
      /\ \A o : Uses(t, o) \subseteq Uses(t, o)' \/ o = "none"
      /\ fault' = fault
  BY <1>1, <1>2, <1>3, PopulateFacts
<1>5. rtc_id' = rtc_id /\ virtual_ctr' = virtual_ctr /\ pc' = pc /\ arg' = arg
  BY <1>2 DEF clkVars
<1>6. FitsAt(t)'
  BY <1>2, <1>4, <1>5 DEF FitsAt, Fits
<1>7. Clocks(t)
  BY <1>2, <1>4, <1>5, ClocksKept
<1>8. Cards(t)
  BY <1>2, <1>4, CardsKept DEF Audio
<1> QED
  BY <1>1, <1>2, <1>4, <1>5, <1>6, <1>7, <1>8, RestKept, StepKeeps

LEMMA RtcFindInductive ==
  ASSUME Inductive, NEW t \in Task, NEW nm, RtcFind(t, nm)
  PROVE  Inductive'
<1>1. Shape /\ FitsAt(t)
  BY DEF Inductive
<1>2. /\ Up /\ pc[t] = "user" /\ n_opend_files[t] < NFile
      /\ pc' = [pc EXCEPT ![t] = "clock"]
      /\ files' = files /\ n_opend_files' = n_opend_files /\ virtual_ctr' = virtual_ctr
      /\ dsp_status' = dsp_status /\ arg' = arg /\ fault' = fault
  BY DEF RtcFind, OpeningEntry, Opening, Calls, Room, clkVars
<1>3. PcbOf(t) /\ files'[t] = files[t] /\ n_opend_files'[t] = n_opend_files[t]
      /\ \A o : Uses(t, o)' = Uses(t, o)
  BY <1>1, <1>2, PcbKept
<1>4. Clock \subseteq Nat /\ -1 \notin Clock
  BY DEF Clock
<1>5. /\ rtc_id' = [rtc_id EXCEPT ![t] = rtc_id'[t]] /\ rtc_id'[t] \in Clock
      /\ rtc_id[t] # -1 => rtc_id'[t] = rtc_id[t]
  <2>1. CASE rtc_id[t] = -1
    <3>1. FreeClocks # {} /\ rtc_id' = [rtc_id EXCEPT ![t] = Min(FreeClocks)]
      BY <2>1 DEF RtcFind
    <3>2. Min(FreeClocks) \in FreeClocks
      BY <1>4, <3>1, MinFacts DEF FreeClocks
    <3> QED
      BY <1>1, <2>1, <3>1, <3>2 DEF Shape, FreeClocks
  <2>2. CASE rtc_id[t] # -1
    <3>1. rtc_id' = rtc_id
      BY <2>2 DEF RtcFind
    <3> QED
      BY <1>1, <2>2, <3>1 DEF Shape
  <2> QED
    BY <2>1, <2>2
<1>6. pc' = [pc EXCEPT ![t] = pc'[t]] /\ pc'[t] = "clock" /\ pc'[t] \in Where
  BY <1>1, <1>2 DEF Shape, Where
<1>7. FitsAt(t)'
  BY <1>1, <1>2, <1>3, <1>4, <1>5, <1>6 DEF FitsAt, Fits
<1>8. Clocks(t)
  BY <1>2, <1>4, <1>5, <1>6 DEF Clocks, Owns, Clock
<1>9. Cards(t)
  BY <1>2, <1>3, CardsKept
<1> QED
  BY <1>1, <1>2, <1>3, <1>5, <1>6, <1>7, <1>8, <1>9, RestKept, StepKeeps

LEMMA RtcTakeInductive ==
  ASSUME Inductive, NEW t \in Task, RtcTake(t)
  PROVE  Inductive'
<1>1. Shape /\ FitsAt(t)
  BY DEF Inductive
<1>2. /\ Up /\ pc[t] = "clock" /\ pc' = [pc EXCEPT ![t] = "user"]
      /\ virtual_ctr' = [virtual_ctr EXCEPT ![rtc_id[t]] = 1]
      /\ Populate(t, "rtc", 0)
      /\ rtc_id' = rtc_id /\ dsp_status' = dsp_status /\ arg' = arg
  BY DEF RtcTake
<1>3. n_opend_files[t] < NFile /\ rtc_id[t] # -1
  BY <1>1, <1>2 DEF FitsAt, Fits
<1>4. /\ PcbOf(t)
      /\ files'[t][0].f_op = "terminal" /\ files'[t][1].f_op = "terminal"
      /\ n_opend_files'[t] = Cardinality(OpenOf(files'[t]))
      /\ Uses(t, "rtc")' # {}
      /\ \A o : Uses(t, o) \subseteq Uses(t, o)' \/ o = "none"
      /\ fault' = fault
  BY <1>1, <1>2, <1>3, PopulateFacts
<1>5. pc' = [pc EXCEPT ![t] = pc'[t]] /\ pc'[t] = "user" /\ pc'[t] \in Where
  BY <1>1, <1>2 DEF Shape, Where
<1>6. FitsAt(t)'
  BY <1>4, <1>5 DEF FitsAt, Fits
<1>7. virtual_ctr' = [i \in Clock |-> virtual_ctr'[i]]
  BY <1>1, <1>2 DEF Shape
<1>8. Clocks(t)
  <2> SUFFICES ASSUME NEW i \in 0 .. NClk - 2, virtual_ctr'[i] # -1, ~Owns(t, i)'
               PROVE  virtual_ctr[i] # -1 /\ ~Owns(t, i)
    BY DEF Clocks
  <2>1. rtc_id[t] # i
    BY <1>2, <1>4 DEF Owns
  <2>2. i \in Clock
    BY LimitAssumption DEF Clock
  <2> QED
    BY <1>1, <1>2, <2>1, <2>2 DEF Owns, Shape
<1>9. Cards(t)
  BY <1>2, <1>4, CardsKept DEF Audio
<1> QED
  BY <1>1, <1>2, <1>4, <1>5, <1>6, <1>7, <1>8, <1>9, RestKept, StepKeeps

LEMMA AudioOpenInductive ==
  ASSUME Inductive, NEW t \in Task, AudioCheck(t) \/ AudioReset(t)
  PROVE  Inductive'
<1>1. Shape /\ FitsAt(t)
  BY DEF Inductive
<1>2. CASE AudioCheck(t)
  <2>1. /\ Up /\ pc[t] = "user" /\ n_opend_files[t] < NFile
        /\ pc' = [pc EXCEPT ![t] = "card"]
        /\ files' = files /\ n_opend_files' = n_opend_files /\ virtual_ctr' = virtual_ctr
        /\ rtc_id' = rtc_id /\ dsp_status' = dsp_status /\ arg' = arg /\ fault' = fault
    BY <1>2 DEF AudioCheck, Opening, Calls, Room, clkVars, pcbVars
  <2>2. PcbOf(t) /\ files'[t] = files[t] /\ n_opend_files'[t] = n_opend_files[t]
        /\ \A o : Uses(t, o)' = Uses(t, o)
    BY <1>1, <2>1, PcbKept
  <2>3. pc' = [pc EXCEPT ![t] = pc'[t]] /\ pc'[t] = "card" /\ pc'[t] \in Where
    BY <1>1, <2>1 DEF Shape, Where
  <2>4. FitsAt(t)'
    BY <1>1, <2>1, <2>2, <2>3 DEF FitsAt, Fits
  <2>5. Clocks(t) /\ Cards(t)
    BY <2>1, <2>2, ClocksKept, CardsKept
  <2> QED
    BY <1>1, <2>1, <2>2, <2>3, <2>4, <2>5, RestKept, StepKeeps
<1>3. CASE AudioReset(t)
  <2>1. /\ Up /\ pc[t] = "card" /\ pc' = [pc EXCEPT ![t] = "user"]
        /\ virtual_ctr' = virtual_ctr /\ rtc_id' = rtc_id /\ arg' = arg
    BY <1>3 DEF AudioReset, clkVars
  <2>2. pc' = [pc EXCEPT ![t] = pc'[t]] /\ pc'[t] = "user" /\ pc'[t] \in Where
    BY <1>1, <2>1 DEF Shape, Where
  <2>3. n_opend_files[t] < NFile
    BY <1>1, <2>1 DEF FitsAt, Fits
  <2>4. CASE dsp_status' = "on" /\ Populate(t, Audio, 0)
    <3>1. /\ PcbOf(t)
          /\ files'[t][0].f_op = "terminal" /\ files'[t][1].f_op = "terminal"
          /\ n_opend_files'[t] = Cardinality(OpenOf(files'[t]))
          /\ Uses(t, Audio)' # {}
          /\ \A o : Uses(t, o) \subseteq Uses(t, o)' \/ o = "none"
          /\ fault' = fault
      BY <1>1, <2>1, <2>3, <2>4, PopulateFacts
    <3>2. FitsAt(t)'
      BY <2>2, <3>1 DEF FitsAt, Fits
    <3>3. Clocks(t)
      BY <2>1, <3>1, ClocksKept
    <3>4. Cards(t)
      BY <3>1 DEF Cards
    <3> QED
      BY <1>1, <2>1, <2>2, <3>1, <3>2, <3>3, <3>4, RestKept, StepKeeps
  <2>5. CASE UNCHANGED dsp_status /\ Failed(t)
    <3>0. UNCHANGED <<files, n_opend_files, fault>> /\ dsp_status' = dsp_status
      BY <2>5 DEF Failed
    <3>1. PcbOf(t) /\ files'[t] = files[t] /\ n_opend_files'[t] = n_opend_files[t]
          /\ \A o : Uses(t, o)' = Uses(t, o)
      BY <1>1, <3>0, PcbKept
    <3>2. FitsAt(t)'
      BY <1>1, <2>1, <2>2, <3>1 DEF FitsAt, Fits
    <3>3. Clocks(t) /\ Cards(t)
      BY <2>1, <3>0, <3>1, ClocksKept, CardsKept
    <3> QED
      BY <1>1, <2>1, <2>2, <3>0, <3>1, <3>2, <3>3, RestKept, StepKeeps
  <2> QED
    BY <1>3, <2>4, <2>5 DEF AudioReset
<1> QED
  BY <1>2, <1>3

(* An open that failed leaves everything as it was.                        *)
LEMMA UnchangedInductive ==
  ASSUME Inductive,
         UNCHANGED <<files, n_opend_files, rtc_id, virtual_ctr>>,
         UNCHANGED <<dsp_status, pc, arg, fault>>
  PROVE  Inductive'
<1>1. Shape'
  BY DEF Inductive, Shape
<1>2. \A t \in Task : FitsAt(t)'
  BY DEF Inductive, FitsAt
<1>3. DevicesOwned'
  BY DEF Inductive, DevicesOwned, ClockOwned, CardOwned, Up, Uses
<1> QED
  BY <1>1, <1>2, <1>3 DEF Inductive

LEMMA OpenFailsInductive ==
  ASSUME Inductive, NEW t \in Task, NEW nm, OpenFails(t, nm)
  PROVE  Inductive'
<1> QED
  BY UnchangedInductive DEF OpenFails, Failed, clkVars

-----------------------------------------------------------------------------
(* close *)

LEMMA CloseInductive ==
  ASSUME Inductive, NEW t \in Task, NEW fd \in Fd, Close(t, fd)
  PROVE  Inductive'
<1>1. Shape /\ FitsAt(t)
  BY DEF Inductive
<1>2. /\ Up /\ pc[t] = "user" /\ files[t][fd].f_op \in {"file", "dir"}
      /\ Release(t, {fd})
      /\ virtual_ctr' = virtual_ctr /\ rtc_id' = rtc_id /\ dsp_status' = dsp_status
      /\ pc' = pc /\ arg' = arg /\ fault' = fault
  BY DEF Close, Calls, clkVars
<1>3. /\ PcbOf(t)
      /\ files'[t][0].f_op = "terminal" /\ files'[t][1].f_op = "terminal"
      /\ n_opend_files'[t] = Cardinality(OpenOf(files'[t]))
      /\ \A o : o # files[t][fd].f_op => Uses(t, o) \subseteq Uses(t, o)'
  BY <1>1, <1>2, ReleaseFacts
<1>4. FitsAt(t)'
  BY <1>2, <1>3 DEF FitsAt, Fits
<1>5. Clocks(t) /\ Cards(t)
  BY <1>2, <1>3, ClocksKept, CardsKept DEF Audio
<1> QED
  BY <1>1, <1>2, <1>3, <1>4, <1>5, RestKept, StepKeeps

(* What closing clocks does to the one of t.                               *)
LEMMA CloseClocksFacts ==
  ASSUME Shape, NEW t \in Task, pc[t] # "clock", NEW fds, CloseClocks(t, fds),
         fds = {} => Uses(t, "rtc") = {}
  PROVE  /\ rtc_id' = [rtc_id EXCEPT ![t] = rtc_id'[t]]
         /\ rtc_id'[t] \in Clock \cup {-1}
         /\ virtual_ctr' = [i \in Clock |-> virtual_ctr'[i]]
         /\ fault' \in {"none", "no_clock"}
         /\ Clocks(t)
<1>1. CASE fds = {}
  <2>1. virtual_ctr' = virtual_ctr /\ rtc_id' = rtc_id /\ fault' = fault
    BY <1>1 DEF CloseClocks
  <2> QED
    BY <1>1, <2>1 DEF Shape, Clocks, Owns
<1>2. CASE FreeClock(t) /\ rtc_id[t] # -1
  <2>1. /\ virtual_ctr' = [virtual_ctr EXCEPT ![rtc_id[t]] = -1]
        /\ rtc_id' = [rtc_id EXCEPT ![t] = -1] /\ fault' = fault
    BY <1>2 DEF FreeClock
  <2>2. rtc_id[t] \in Clock
    BY <1>2 DEF Shape
  <2>3. virtual_ctr'[rtc_id[t]] = -1
    BY <2>1, <2>2 DEF Shape
  <2>4. \A i \in Clock : i # rtc_id[t] => virtual_ctr'[i] = virtual_ctr[i]
    BY <2>1 DEF Shape
  <2>5. 0 .. NClk - 2 \subseteq Clock
    BY LimitAssumption DEF Clock
  <2>6. Clocks(t)
    BY <2>3, <2>4, <2>5 DEF Clocks, Owns
  <2>7. rtc_id'[t] = -1 /\ rtc_id' = [rtc_id EXCEPT ![t] = rtc_id'[t]]
    BY <2>1 DEF Shape
  <2>8. virtual_ctr' = [i \in Clock |-> virtual_ctr'[i]]
    BY <2>1 DEF Shape
  <2> QED
    BY <2>1, <2>6, <2>7, <2>8 DEF Shape
<1>3. CASE fault' = "no_clock" /\ UNCHANGED <<virtual_ctr, rtc_id>>
  BY <1>3 DEF Shape, Clocks
<1> QED
  BY <1>1, <1>2, <1>3 DEF CloseClocks

LEMMA CloseRtcInductive ==
  ASSUME Inductive, NEW t \in Task, NEW fd \in Fd, CloseRtc(t, fd)
  PROVE  Inductive'
<1>1. Shape /\ FitsAt(t)
  BY DEF Inductive
<1>2. /\ Up /\ pc[t] = "user" /\ files[t][fd].f_op = "rtc"
      /\ CloseClocks(t, {fd}) /\ Release(t, {fd})
      /\ dsp_status' = dsp_status /\ pc' = pc /\ arg' = arg
  BY DEF CloseRtc, Calls
<1>3. /\ PcbOf(t)
      /\ files'[t][0].f_op = "terminal" /\ files'[t][1].f_op = "terminal"
      /\ n_opend_files'[t] = Cardinality(OpenOf(files'[t]))
      /\ \A o : o # files[t][fd].f_op => Uses(t, o) \subseteq Uses(t, o)'
  BY <1>1, <1>2, ReleaseFacts
<1>4. /\ rtc_id' = [rtc_id EXCEPT ![t] = rtc_id'[t]]
      /\ rtc_id'[t] \in Clock \cup {-1}
      /\ virtual_ctr' = [i \in Clock |-> virtual_ctr'[i]]
      /\ fault' \in {"none", "no_clock"}
      /\ Clocks(t)
  <2>1. {fd} # {} /\ pc[t] # "clock"
    BY <1>2
  <2> QED
    BY <1>1, <1>2, <2>1, CloseClocksFacts
<1>5. FitsAt(t)'
  BY <1>2, <1>3 DEF FitsAt, Fits
<1>6. Cards(t)
  BY <1>2, <1>3, CardsKept DEF Audio
<1> QED
  BY <1>1, <1>2, <1>3, <1>4, <1>5, <1>6, RestKept, StepKeeps

LEMMA CloseAudioInductive ==
  ASSUME Inductive, NEW t \in Task, NEW fd \in Fd, CloseAudio(t, fd)
  PROVE  Inductive'
<1>1. Shape /\ FitsAt(t)
  BY DEF Inductive
<1>2. /\ Up /\ pc[t] = "user" /\ files[t][fd].f_op = Audio
      /\ virtual_ctr' = virtual_ctr /\ rtc_id' = rtc_id
      /\ dsp_status' = dsp_status /\ fault' = fault
  BY DEF CloseAudio, Calls, clkVars
<1>3. CASE dsp_status = "on"
  <2>1. /\ pc' = [pc EXCEPT ![t] = "stop"] /\ arg' = [arg EXCEPT ![t] = fd]
        /\ files' = files /\ n_opend_files' = n_opend_files
    BY <1>3 DEF CloseAudio
  <2>2. PcbOf(t) /\ files'[t] = files[t] /\ n_opend_files'[t] = n_opend_files[t]
        /\ \A o : Uses(t, o)' = Uses(t, o)
    BY <1>1, <2>1, PcbKept
  <2>3. /\ pc' = [pc EXCEPT ![t] = pc'[t]] /\ pc'[t] = "stop" /\ pc'[t] \in Where
        /\ arg' = [arg EXCEPT ![t] = arg'[t]] /\ arg'[t] = fd
    BY <1>1, <2>1 DEF Shape, Where
  <2>4. FitsAt(t)'
    BY <1>1, <1>2, <2>2, <2>3 DEF FitsAt, Fits
  <2>5. Clocks(t) /\ Cards(t)
    BY <1>2, <2>2, ClocksKept, CardsKept
  <2> QED
    BY <1>1, <1>2, <2>2, <2>3, <2>4, <2>5, RestKept, StepKeeps
<1>4. CASE dsp_status # "on"
  <2>1. Release(t, {fd}) /\ pc' = pc /\ arg' = arg
    BY <1>4 DEF CloseAudio
  <2>2. /\ PcbOf(t)
        /\ files'[t][0].f_op = "terminal" /\ files'[t][1].f_op = "terminal"
        /\ n_opend_files'[t] = Cardinality(OpenOf(files'[t]))
        /\ \A o : o # files[t][fd].f_op => Uses(t, o) \subseteq Uses(t, o)'
    BY <1>1, <1>2, <2>1, ReleaseFacts DEF Audio
  <2>3. FitsAt(t)'
    BY <1>2, <2>1, <2>2 DEF FitsAt, Fits
  <2>4. Clocks(t)
    BY <1>2, <2>2, ClocksKept DEF Audio
  <2>5. Cards(t)
    BY <1>2, <1>4 DEF Cards
  <2> QED
    BY <1>1, <1>2, <2>1, <2>2, <2>3, <2>4, <2>5, RestKept, StepKeeps
<1> QED
  BY <1>3, <1>4

LEMMA StopAudioInductive ==
  ASSUME Inductive, NEW t \in Task, StopAudio(t)
  PROVE  Inductive'
<1>1. Shape /\ FitsAt(t)
  BY DEF Inductive
<1>2. /\ Up /\ pc[t] = "stop" /\ dsp_status' = "off" /\ Release(t, {arg[t]})
      /\ pc' = [pc EXCEPT ![t] = "user"] /\ arg' = [arg EXCEPT ![t] = 0]
      /\ virtual_ctr' = virtual_ctr /\ rtc_id' = rtc_id /\ fault' = fault
  BY DEF StopAudio, clkVars
<1>3. arg[t] \in Fd /\ files[t][arg[t]].f_op = Audio
  BY <1>1, <1>2 DEF Shape, FitsAt, Fits
<1>4. /\ PcbOf(t)
      /\ files'[t][0].f_op = "terminal" /\ files'[t][1].f_op = "terminal"
      /\ n_opend_files'[t] = Cardinality(OpenOf(files'[t]))
      /\ \A o : o # files[t][arg[t]].f_op => Uses(t, o) \subseteq Uses(t, o)'
  BY <1>1, <1>2, <1>3, ReleaseFacts DEF Audio
<1>5. /\ pc' = [pc EXCEPT ![t] = pc'[t]] /\ pc'[t] = "user" /\ pc'[t] \in Where
      /\ arg' = [arg EXCEPT ![t] = arg'[t]] /\ arg'[t] \in Fd
  BY <1>1, <1>2, FdFacts DEF Shape, Where
<1>6. FitsAt(t)'
  BY <1>4, <1>5 DEF FitsAt, Fits
<1>7. Clocks(t)
  BY <1>2, <1>3, <1>4, ClocksKept DEF Audio
<1>8. Cards(t)
  BY <1>2 DEF Cards
<1> QED
  BY <1>1, <1>2, <1>4, <1>5, <1>6, <1>7, <1>8, RestKept, StepKeeps

(* system_halt closes all at once.                                         *)
LEMMA HaltInductive ==
  ASSUME Inductive, NEW t \in Task, Halt(t)
  PROVE  Inductive'
<1>1. Shape /\ FitsAt(t)
  BY DEF Inductive
<1>2. /\ Up /\ pc[t] = "user" /\ CloseClocks(t, Uses(t, "rtc"))
      /\ dsp_status' = IF Uses(t, Audio) = {} THEN dsp_status ELSE "off"
      /\ Release(t, Open(t) \ {0, 1})
      /\ pc' = [pc EXCEPT ![t] = "dead"] /\ arg' = arg
  BY DEF Halt, Calls
<1> DEFINE fds == Open(t) \ {0, 1}
<1>3. Cardinality(fds) \in Nat
  <2>1. fds \in SUBSET Fd
    BY DEF Open
  <2> HIDE DEF fds
  <2>2. IsFiniteSet(fds)
    BY <2>1, FdFacts, FS_Subset
  <2> QED
    BY <2>2, FS_CardinalityType
<1>4. /\ files' = [files EXCEPT ![t] = [fd \in Fd |-> IF fd \in fds THEN Closed ELSE @[fd]]]
      /\ n_opend_files' = [n_opend_files EXCEPT ![t] = @ - Cardinality(fds)]
  BY <1>2 DEF Release
<1>5. files'[t] = [fd \in Fd |-> IF fd \in fds THEN Closed ELSE files[t][fd]]
  BY <1>1, <1>4 DEF Shape
<1>6. files[t] \in [Fd -> Desc] /\ Closed \in Desc /\ Closed.f_op = "none"
  BY <1>1 DEF Shape, Closed, Desc
<1>7. PcbOf(t)
  <2>1. files' = [files EXCEPT ![t] = files'[t]]
    BY <1>1, <1>4, <1>5 DEF Shape
  <2>2. files'[t] \in [Fd -> Desc]
    BY <1>5, <1>6
  <2>3. n_opend_files[t] - Cardinality(fds) \in Int
    BY <1>1, <1>3 DEF Shape
  <2>4. n_opend_files' = [n_opend_files EXCEPT ![t] = n_opend_files'[t]] /\ n_opend_files'[t] \in Int
    BY <1>1, <1>4, <2>3 DEF Shape
  <2> QED
    BY <2>1, <2>2, <2>4 DEF PcbOf
<1>8. \A fd \in Fd : files'[t][fd].f_op \in {"none", "terminal"}
  BY <1>1, <1>5, <1>6 DEF FitsAt, Fits, Open
<1>9. files'[t][0].f_op = "terminal" /\ files'[t][1].f_op = "terminal"
  BY <1>1, <1>5, FdFacts DEF FitsAt, Fits
<1>10. pc' = [pc EXCEPT ![t] = pc'[t]] /\ pc'[t] = "dead" /\ pc'[t] \in Where
  BY <1>1, <1>2 DEF Shape, Where
<1>11. FitsAt(t)'
  BY <1>8, <1>9, <1>10 DEF FitsAt, Fits
<1>12. /\ rtc_id' = [rtc_id EXCEPT ![t] = rtc_id'[t]]
       /\ rtc_id'[t] \in Clock \cup {-1}
       /\ virtual_ctr' = [i \in Clock |-> virtual_ctr'[i]]
       /\ fault' \in {"none", "no_clock"}
       /\ Clocks(t)
  <2>1. pc[t] # "clock"
    BY <1>2
  <2> QED
    BY <1>1, <1>2, <2>1, CloseClocksFacts
<1>13. Cards(t)
  BY <1>2 DEF Cards
<1> QED
  BY <1>1, <1>2, <1>7, <1>10, <1>11, <1>12, <1>13, RestKept, StepKeeps

(* sys_execute gives a fresh array, in which two descriptors are open.     *)
LEMMA ExecuteInductive ==
  ASSUME Inductive, NEW t \in Task, Execute(t)
  PROVE  Inductive'
<1>1. Shape /\ FitsAt(t)
  BY DEF Inductive
<1>2. /\ Up /\ pc[t] = "dead" /\ files' = [files EXCEPT ![t] = InitFileArr]
      /\ n_opend_files' = [n_opend_files EXCEPT ![t] = 2]
      /\ rtc_id' = [rtc_id EXCEPT ![t] = -1] /\ pc' = [pc EXCEPT ![t] = "user"]
      /\ virtual_ctr' = virtual_ctr /\ dsp_status' = dsp_status
      /\ arg' = arg /\ fault' = fault
  BY DEF Execute, clkVars
<1>3. PcbOf(t) /\ files'[t] = InitFileArr /\ n_opend_files'[t] = 2
  BY <1>1, <1>2, InitArray DEF Shape, PcbOf
<1>4. pc' = [pc EXCEPT ![t] = pc'[t]] /\ pc'[t] = "user" /\ pc'[t] \in Where
  BY <1>1, <1>2 DEF Shape, Where
<1>5. rtc_id' = [rtc_id EXCEPT ![t] = rtc_id'[t]] /\ rtc_id'[t] \in Clock \cup {-1}
  BY <1>1, <1>2 DEF Shape
<1>6. FitsAt(t)'
  BY <1>3, <1>4, InitArray DEF FitsAt, Fits
<1>7. Uses(t, "rtc") = {} /\ Uses(t, Audio) = {}
  BY <1>1, <1>2 DEF FitsAt, Fits, Uses, Audio
<1>8. Clocks(t) /\ Cards(t)
  BY <1>2, <1>7 DEF Clocks, Cards, Owns
<1> QED
  BY <1>1, <1>2, <1>3, <1>4, <1>5, <1>6, <1>8, RestKept, StepKeeps

-----------------------------------------------------------------------------
(* read and write                                                          *)

LEMMA ReadInductive ==
  ASSUME Inductive, NEW t \in Task, NEW fd \in Fd,
         \E size \in Asks : ReadFile(t, fd, size) \/ ReadDir(t, fd, size)
  PROVE  Inductive'
<1>1. Shape /\ FitsAt(t)
  BY DEF Inductive
<1>2. /\ Up /\ pc[t] = "user" /\ files[t][fd].f_op # "none"
  BY DEF ReadFile, ReadDir, Calls
<1>3. files[t][fd] \in Desc /\ Asks \subseteq Nat
  BY <1>1, OpensAssumption DEF Shape
<1>a. PICK n \in Nat : \E what : Advance(t, fd, n, what)
  <2>1. CASE \E size \in Asks : ReadDir(t, fd, size)
    BY <2>1 DEF ReadDir
  <2>2. CASE \E size \in Asks : ReadFile(t, fd, size)
    <3>a. PICK size \in Asks : ReadFile(t, fd, size)
      BY <2>2
    <3> DEFINE f == files[t][fd]
    <3>1. /\ ~ReadFails(f.inode, f.f_pos, size)
          /\ Advance(t, fd, Count(f.inode, f.f_pos, size),
                     ReadBytes(f.inode, f.f_pos, size))
      BY <3>a DEF ReadFile
    <3>2. f.inode \in Inode /\ f.f_pos \in Nat
      BY <1>3, <3>1 DEF ReadFails, Desc
    <3>3. Count(f.inode, f.f_pos, size) \in Nat
      BY <1>3, <3>2, CountFacts
    <3> QED
      BY <3>1, <3>3
  <2> QED
    BY <2>1, <2>2
<1>4. PICK what : Advance(t, fd, n, what)
  BY <1>a
<1>5. /\ files' = [files EXCEPT ![t][fd].f_pos = @ + n] /\ n_opend_files' = n_opend_files
      /\ virtual_ctr' = virtual_ctr /\ rtc_id' = rtc_id /\ dsp_status' = dsp_status
      /\ pc' = pc /\ arg' = arg /\ fault' = fault
  BY <1>4 DEF Advance, clkVars
<1>6. /\ PcbOf(t)
      /\ files'[t][0].f_op = "terminal" /\ files'[t][1].f_op = "terminal"
      /\ n_opend_files'[t] = Cardinality(OpenOf(files'[t]))
      /\ \A o : Uses(t, o) \subseteq Uses(t, o)'
  BY <1>1, <1>2, <1>5, AdvanceFacts
<1>7. FitsAt(t)'
  BY <1>2, <1>5, <1>6 DEF FitsAt, Fits
<1>8. Clocks(t) /\ Cards(t)
  BY <1>2, <1>5, <1>6, ClocksKept, CardsKept
<1> QED
  BY <1>1, <1>2, <1>5, <1>6, <1>7, <1>8, RestKept, StepKeeps

LEMMA ClockReadInductive ==
  ASSUME Inductive, NEW t \in Task,
         (\E fd \in Fd : ReadRtc(t, fd)) \/ ReadRtcEnds(t)
  PROVE  Inductive'
<1>1. Shape /\ FitsAt(t)
  BY DEF Inductive
<1>2. /\ Up /\ pc[t] \in {"user", "wait"} /\ files' = files
      /\ n_opend_files' = n_opend_files /\ rtc_id' = rtc_id
      /\ virtual_ctr' = virtual_ctr /\ dsp_status' = dsp_status /\ arg' = arg
      /\ fault' \in {fault, "no_clock"}
      /\ pc' = pc \/ pc' = [pc EXCEPT ![t] = "wait"] \/ pc' = [pc EXCEPT ![t] = "user"]
  BY DEF ReadRtc, ReadRtcEnds, Calls, pcbVars, clkVars
<1>3. PcbOf(t) /\ files'[t] = files[t] /\ n_opend_files'[t] = n_opend_files[t]
      /\ \A o : Uses(t, o)' = Uses(t, o)
  BY <1>1, <1>2, PcbKept
<1>4. pc' = [pc EXCEPT ![t] = pc'[t]] /\ pc'[t] \in {"user", "wait"} /\ pc'[t] \in Where
  BY <1>1, <1>2 DEF Shape, Where
<1>5. FitsAt(t)'
  BY <1>1, <1>2, <1>3, <1>4 DEF FitsAt, Fits
<1>6. Clocks(t) /\ Cards(t)
  BY <1>2, <1>3, ClocksKept, CardsKept
<1>7. fault' \in {"none", "no_clock"}
  BY <1>1, <1>2 DEF Shape
<1> QED
  BY <1>1, <1>2, <1>3, <1>4, <1>5, <1>6, <1>7, RestKept, StepKeeps

LEMMA WriteRtcInductive ==
  ASSUME Inductive, NEW t \in Task, NEW fd \in Fd, NEW freq, WriteRtc(t, fd, freq)
  PROVE  Inductive'
<1>1. Shape /\ FitsAt(t)
  BY DEF Inductive
<1>2. /\ Up /\ pc[t] = "user" /\ files[t][fd].f_op = "rtc"
      /\ files' = files /\ n_opend_files' = n_opend_files /\ rtc_id' = rtc_id
      /\ dsp_status' = dsp_status /\ pc' = pc /\ arg' = arg
  BY DEF WriteRtc, Calls, pcbVars
<1>3. PcbOf(t) /\ files'[t] = files[t] /\ n_opend_files'[t] = n_opend_files[t]
      /\ \A o : Uses(t, o)' = Uses(t, o)
  BY <1>1, <1>2, PcbKept
<1>4. FitsAt(t)'
  BY <1>1, <1>2, <1>3 DEF FitsAt, Fits
<1>5. /\ virtual_ctr' = [i \in Clock |-> virtual_ctr'[i]]
      /\ fault' \in {"none", "no_clock"} /\ Clocks(t)
  <2>1. CASE rtc_id[t] # -1
    <3>1. /\ virtual_ctr' = [virtual_ctr EXCEPT ![rtc_id[t]] = Rewind(freq)]
          /\ fault' = fault
      BY <2>1 DEF WriteRtc
    <3>2. Uses(t, "rtc")' # {}
      BY <1>2, <1>3 DEF Uses
    <3>3. \A i \in 0 .. NClk - 2 : i # rtc_id[t] => virtual_ctr'[i] = virtual_ctr[i]
      BY <1>1, <3>1, LimitAssumption DEF Shape, Clock
    <3>4. Clocks(t)
      BY <1>2, <3>2, <3>3 DEF Clocks, Owns
    <3> QED
      BY <1>1, <3>1, <3>4 DEF Shape
  <2>2. CASE rtc_id[t] = -1
    <3>1. fault' = "no_clock" /\ virtual_ctr' = virtual_ctr
      BY <2>2 DEF WriteRtc
    <3> QED
      BY <1>1, <3>1 DEF Shape, Clocks
  <2> QED
    BY <2>1, <2>2
<1>6. Cards(t)
  BY <1>2, <1>3, CardsKept
<1> QED
  BY <1>1, <1>2, <1>3, <1>4, <1>5, <1>6, RestKept, StepKeeps

-----------------------------------------------------------------------------
LEMMA InitInductive == Init => Inductive
<1> SUFFICES ASSUME Init PROVE Inductive
  OBVIOUS
<1>1. Shape
  BY InitArray, FdFacts DEF Init, Shape, Where, Clock
<1>2. \A t \in Task : FitsAt(t)
  BY InitArray DEF Init, FitsAt, Fits
<1>3. ClockOwned
  BY LimitAssumption DEF Init, ClockOwned, Clock
<1>4. CardOwned
  BY DEF Init, CardOwned
<1> QED
  BY <1>1, <1>2, <1>3, <1>4 DEF Inductive, DevicesOwned

LEMMA NextInductive == Inductive /\ [Next]_vars => Inductive'
<1> SUFFICES ASSUME Inductive, [Next]_vars PROVE Inductive'
  OBVIOUS
<1>1. ASSUME NEW t \in Task, OpenStep(t) PROVE Inductive'
  BY <1>1, OpenFileInductive, RtcFindInductive, RtcTakeInductive, AudioOpenInductive,
     OpenFailsInductive DEF OpenStep
<1>2. ASSUME NEW t \in Task, CloseStep(t) PROVE Inductive'
  BY <1>2, CloseInductive, CloseRtcInductive, CloseAudioInductive, StopAudioInductive
     DEF CloseStep
<1>3. ASSUME NEW t \in Task, ReadStep(t) PROVE Inductive'
  <2>1. CASE \E fd \in Fd, size \in Asks : ReadFile(t, fd, size)
    BY <2>1, ReadInductive
  <2>2. CASE \E fd \in Fd, size \in Asks : ReadDir(t, fd, size)
    BY <2>2, ReadInductive
  <2>3. CASE (\E fd \in Fd : ReadRtc(t, fd)) \/ ReadRtcEnds(t)
    BY <2>3, ClockReadInductive
  <2>4. CASE \E fd \in Fd, freq \in Freqs : WriteRtc(t, fd, freq)
    BY <2>4, WriteRtcInductive
  <2> QED
    BY <1>3, <2>1, <2>2, <2>3, <2>4 DEF ReadStep
<1>4. ASSUME NEW t \in Task, Halt(t) \/ Execute(t) PROVE Inductive'
  BY <1>4, HaltInductive, ExecuteInductive
<1>5. CASE RtcInterrupt \/ UNCHANGED vars
  <2>1. /\ UNCHANGED <<files, n_opend_files, rtc_id, virtual_ctr>>
        /\ UNCHANGED <<dsp_status, pc, arg, fault>>
    BY <1>5 DEF RtcInterrupt, vars, pcbVars, clkVars
  <2> QED
    BY <2>1, UnchangedInductive
<1> QED
  BY <1>1, <1>2, <1>3, <1>4, <1>5 DEF Next, Stopped

LEMMA AlwaysInductive == Spec => []Inductive
<1> QED
  BY InitInductive, NextInductive, PTL DEF Spec

-----------------------------------------------------------------------------
(* What was read through a descriptor                                      *)

Kinds == Byte \cup (Name \X Nat)

(* The bytes s that were read through d are the first of its file, or the  *)
(* names the first of the directory, and its position is behind them.      *)
ReadBy(d, s) ==
  /\ d.f_op = "file" =>
       /\ d.f_pos = Len(s)
       /\ s # << >> =>
            /\ d.inode \in Inode /\ d.f_pos <= Length[d.inode]
            /\ \A k \in 1 .. Len(s) : s[k] = Text[d.inode][k]
  /\ d.f_op = "dir" =>
       /\ d.f_pos = Len(s) /\ d.f_pos <= Len(Dentries)
       /\ \A k \in 1 .. Len(s) : s[k][1] = Dentries[k].f_name

Reads ==
  /\ seen \in [Task -> [Fd -> Seq(Kinds)]]
  /\ \A t \in Task, fd \in Fd : ReadBy(files[t][fd], seen[t][fd])

LEMMA Entries ==
  /\ Len(Dentries) \in Nat
  /\ \A k \in 1 .. Len(Dentries) : Dentries[k].f_name \in Name
<1> DEFINE R == [f_name : Name, f_type : Type, inode : Nat]
<1>1. Dentries \in Seq(R)
  BY DentryAssumption
<1>2. \A r \in R : r.f_name \in Name
  OBVIOUS
<1> HIDE DEF R
<1> QED  BY <1>1, <1>2, LenProperties

(* read_data returns the bytes of the file from the offset on: those it    *)
(* reads lie in blocks whose numbers it has checked.                       *)
LEMMA ReadBytesFacts ==
  ASSUME NEW inode, NEW offset \in Nat, NEW size \in Nat,
         ~ ReadFails(inode, offset, size), inode \in Inode,
         offset <= Length[inode]
  PROVE  /\ offset + Count(inode, offset, size) <= Length[inode]
         /\ Count(inode, offset, size) \in Nat
         /\ ReadBytes(inode, offset, size) \in Seq(Byte)
         /\ Len(ReadBytes(inode, offset, size)) = Count(inode, offset, size)
         /\ \A k \in 1 .. Count(inode, offset, size) :
              ReadBytes(inode, offset, size)[k] = Text[inode][offset + k]
<1> DEFINE n == Count(inode, offset, size)
           bytes == ReadBytes(inode, offset, size)
<1>1. Length[inode] \in Nat /\ Block \in Nat \ {0} /\ NBlocks \in Nat
  BY InodeAssumption, BlockAssumption
<1>2. n \in Nat /\ offset + n <= Length[inode]
  BY <1>1 DEF Count
<1>3. \A b \in (offset \div Block) .. ((offset + n) \div Block) :
        ~ (BlockIdx[inode][b] >= NBlocks)
  BY DEF ReadFails, LookedUp
<1>4. Text[inode] \in Seq(Byte) /\ Len(Text[inode]) = Length[inode]
  BY TextAssumption
<1>5. bytes = [k \in 1 .. n |-> ByteAt(inode, offset + k - 1)]
  BY DEF ReadBytes
<1> HIDE DEF n, bytes
<1>6. ASSUME NEW k \in 1 .. n
      PROVE  ByteAt(inode, offset + k - 1) = Text[inode][offset + k]
             /\ Text[inode][offset + k] \in Byte
  <2> DEFINE p == offset + k - 1
             b == p \div Block
  <2>1. p \in Nat /\ p \in 0 .. Length[inode] - 1 /\ p + 1 = offset + k
        /\ offset <= p /\ p <= offset + n
    BY <1>1, <1>2
  <2>2. b \in (offset \div Block) .. ((offset + n) \div Block)
    <3>1. \A x, y \in Nat : x <= y => x \div Block <= y \div Block
      BY <1>1
    <3>2. \A x \in Nat : x \div Block \in Nat
      BY <1>1
    <3> HIDE DEF p
    <3> QED  BY <1>2, <2>1, <3>1, <3>2
  <2>3. b \in 0 .. Length[inode] \div Block
    <3>1. \A x, y \in Nat : x <= y => x \div Block <= y \div Block
      BY <1>1
    <3>2. \A x \in Nat : x \div Block \in Nat
      BY <1>1
    <3> HIDE DEF p
    <3> QED  BY <1>1, <2>1, <3>1, <3>2
  <2>4. BlockIdx[inode][b] < NBlocks
    <3>1. BlockIdx[inode][b] \in Nat
      <4> HIDE DEF b
      <4> QED  BY <2>3, InodeAssumption
    <3> HIDE DEF b
    <3> QED  BY <1>1, <1>3, <2>2, <3>1
  <2>5. Text[inode][p + 1] = Data[BlockIdx[inode][p \div Block]][p % Block]
    BY <2>1, <2>4, TextAssumption
  <2>6. offset + k \in 1 .. Len(Text[inode])
    BY <1>1, <1>2, <1>4
  <2> QED  BY <1>4, <2>1, <2>5, <2>6 DEF ByteAt
<1>7. bytes \in Seq(Byte) /\ Len(bytes) = n
  <2>1. \A k \in 1 .. n : bytes[k] \in Byte
    BY <1>5, <1>6
  <2>2. bytes \in [1 .. n -> Byte]
    BY <1>5, <2>1
  <2> QED  BY <1>2, <2>2, SeqDef, LenProperties
<1>8. \A k \in 1 .. n : bytes[k] = Text[inode][offset + k]
  BY <1>5, <1>6
<1> QED  BY <1>2, <1>7, <1>8 DEF n, bytes

(* A descriptor that is new, or is for something else.                     *)
LEMMA NothingRead ==
  ASSUME NEW d
  PROVE  /\ d.f_pos = 0 => ReadBy(d, << >>)
         /\ d.f_op \notin {"file", "dir"} => \A s : ReadBy(d, s)
<1>1. Len(<< >>) = 0
  OBVIOUS
<1> QED  BY <1>1, Entries DEF ReadBy

LEMMA PopulateReads ==
  ASSUME Shape, Reads, NEW t \in Task, NEW op, NEW inode, Populate(t, op, inode)
  PROVE  Reads'
<1>1. CASE AllocateFd(t) \in Fd
  <2> DEFINE k == AllocateFd(t)
             d == [f_op |-> op, inode |-> inode, f_pos |-> 0]
  <2>1. /\ k \in Fd /\ files' = [files EXCEPT ![t][k] = d]
        /\ seen' = [seen EXCEPT ![t][k] = << >>] /\ d.f_pos = 0
    BY <1>1 DEF Populate
  <2> HIDE DEF k, d
  <2>2. seen' \in [Task -> [Fd -> Seq(Kinds)]]
    <3>1. << >> \in Seq(Kinds)
      OBVIOUS
    <3> QED  BY <2>1, <3>1 DEF Reads
  <2>3. ASSUME NEW u \in Task, NEW fd \in Fd
        PROVE  ReadBy(files'[u][fd], seen'[u][fd])
    <3>1. CASE u = t /\ fd = k
      <4>1. files'[u][fd] = d /\ seen'[u][fd] = << >>
        BY <2>1, <3>1 DEF Shape, Reads
      <4> QED  BY <2>1, <4>1, NothingRead
    <3>2. CASE ~ (u = t /\ fd = k)
      <4>1. files'[u][fd] = files[u][fd] /\ seen'[u][fd] = seen[u][fd]
        BY <2>1, <3>2 DEF Shape, Reads
      <4> QED  BY <4>1 DEF Reads
    <3> QED  BY <3>1, <3>2
  <2> QED  BY <2>2, <2>3 DEF Reads
<1>2. CASE AllocateFd(t) \notin Fd
  BY <1>2 DEF Populate, Reads
<1> QED  BY <1>1, <1>2

LEMMA ReleaseReads ==
  ASSUME Shape, Reads, NEW t \in Task, NEW fds, Release(t, fds)
  PROVE  Reads'
<1>1. /\ files' = [files EXCEPT ![t] = [fd \in Fd |-> IF fd \in fds THEN Closed ELSE @[fd]]]
      /\ seen' = [seen EXCEPT ![t] = [fd \in Fd |-> IF fd \in fds THEN << >> ELSE @[fd]]]
  BY DEF Release
<1>2. seen' \in [Task -> [Fd -> Seq(Kinds)]]
  <2>1. << >> \in Seq(Kinds)
    OBVIOUS
  <2> QED  BY <1>1, <2>1 DEF Reads
<1>3. ASSUME NEW u \in Task, NEW fd \in Fd
      PROVE  ReadBy(files'[u][fd], seen'[u][fd])
  <2>1. CASE u = t /\ fd \in fds
    <3>1. files'[u][fd] = Closed /\ Closed.f_pos = 0 /\ seen'[u][fd] = << >>
      BY <1>1, <2>1 DEF Shape, Reads, Closed
    <3> QED  BY <3>1, NothingRead
  <2>2. CASE ~ (u = t /\ fd \in fds)
    <3>1. files'[u][fd] = files[u][fd] /\ seen'[u][fd] = seen[u][fd]
      BY <1>1, <2>2 DEF Shape, Reads
    <3> QED  BY <3>1 DEF Reads
  <2> QED  BY <2>1, <2>2
<1> QED  BY <1>2, <1>3 DEF Reads

(* Reading on from where the last read ended.                              *)
LEMMA AdvanceReads ==
  ASSUME Shape, Reads, NEW t \in Task, NEW fd \in Fd, NEW n \in Nat,
         NEW what \in Seq(Kinds), Advance(t, fd, n, what),
         \A s : s = seen[t][fd] \o what =>
                  ReadBy([files[t][fd] EXCEPT !.f_pos = @ + n], s)
  PROVE  Reads'
<1> DEFINE d == [files[t][fd] EXCEPT !.f_pos = @ + n]
           s == seen[t][fd] \o what
<1>1. files' = [files EXCEPT ![t][fd] = d] /\ seen' = [seen EXCEPT ![t][fd] = s]
  BY DEF Advance
<1>2. s \in Seq(Kinds)
  BY ConcatProperties DEF Reads
<1>3. ReadBy(d, s)
  OBVIOUS
<1> HIDE DEF d, s
<1>4. seen' \in [Task -> [Fd -> Seq(Kinds)]]
  BY <1>1, <1>2 DEF Reads
<1>5. ASSUME NEW u \in Task, NEW k \in Fd
      PROVE  ReadBy(files'[u][k], seen'[u][k])
  <2>1. CASE u = t /\ k = fd
    <3>1. files'[u][k] = d /\ seen'[u][k] = s
      BY <1>1, <2>1 DEF Shape, Reads
    <3> QED  BY <1>3, <3>1
  <2>2. CASE ~ (u = t /\ k = fd)
    <3>1. files'[u][k] = files[u][k] /\ seen'[u][k] = seen[u][k]
      BY <1>1, <2>2 DEF Shape, Reads
    <3> QED  BY <3>1 DEF Reads
  <2> QED  BY <2>1, <2>2
<1> QED  BY <1>4, <1>5 DEF Reads

LEMMA ReadFileReads ==
  ASSUME Shape, Reads, NEW t \in Task, NEW fd \in Fd, NEW size \in Asks,
         ReadFile(t, fd, size)
  PROVE  Reads'
<1> DEFINE f == files[t][fd]
           n == Count(f.inode, f.f_pos, size)
           what == ReadBytes(f.inode, f.f_pos, size)
           old == seen[t][fd]
<1>1. f \in Desc /\ size \in Nat /\ old \in Seq(Kinds) /\ ReadBy(f, old)
  BY OpensAssumption DEF Shape, Reads
<1>2. f.f_op = "file" /\ ~ ReadFails(f.inode, f.f_pos, size) /\ Advance(t, fd, n, what)
  BY DEF ReadFile
<1>3. f.inode \in Inode /\ f.f_pos \in Nat
  BY <1>1, <1>2 DEF ReadFails, Desc
<1>4. f.f_pos = Len(old) /\ (old # << >> => f.f_pos <= Length[f.inode])
      /\ \A k \in 1 .. Len(old) : old[k] = Text[f.inode][k]
  <2>1. f.f_pos = Len(old)
    BY <1>1, <1>2 DEF ReadBy
  <2>2. CASE old = << >>
    BY <2>1, <2>2
  <2>3. CASE old # << >>
    BY <1>1, <1>2, <2>1, <2>3 DEF ReadBy
  <2> QED  BY <2>2, <2>3
<1>5. f.f_pos <= Length[f.inode]
  <2>1. CASE old = << >>
    BY <1>3, <1>4, <2>1, InodeAssumption
  <2> QED  BY <1>4, <2>1
<1> HIDE DEF f
<1>6. /\ f.f_pos + n <= Length[f.inode] /\ n \in Nat
      /\ what \in Seq(Byte) /\ Len(what) = n
      /\ \A k \in 1 .. n : what[k] = Text[f.inode][f.f_pos + k]
  BY <1>1, <1>2, <1>3, <1>5, ReadBytesFacts
<1>7. what \in Seq(Kinds)
  <2> HIDE DEF what
  <2>1. \A x \in Byte : x \in Kinds
    BY DEF Kinds
  <2>2. \A k \in 1 .. Len(what) : what[k] \in Kinds
    BY <1>6, <2>1
  <2>3. what \in [1 .. n -> Kinds]
    BY <1>6, <2>2
  <2> QED  BY <1>6, <2>3, SeqDef
<1> HIDE DEF n, what, old
<1> DEFINE d == [f EXCEPT !.f_pos = @ + n]
           s == old \o what
<1>8. d.f_op = "file" /\ d.inode = f.inode /\ d.f_pos = f.f_pos + n
  BY <1>1, <1>2 DEF Desc
<1>9. /\ s \in Seq(Kinds) /\ Len(s) = Len(old) + n
      /\ \A k \in 1 .. Len(old) + n :
           s[k] = IF k <= Len(old) THEN old[k] ELSE what[k - Len(old)]
  BY <1>1, <1>6, <1>7, ConcatProperties
<1>10. Len(old) \in Nat
  BY <1>1, LenProperties
<1> HIDE DEF d, s
<1>11. ASSUME NEW k \in 1 .. Len(s)
       PROVE  s[k] = Text[f.inode][k]
  <2>1. CASE k <= Len(old)
    BY <1>4, <1>6, <1>9, <1>10, <2>1
  <2>2. CASE k > Len(old)
    <3> DEFINE j == k - Len(old)
    <3>1. j \in 1 .. n /\ Len(old) + j = k
      BY <1>6, <1>9, <1>10, <2>2
    <3>2. s[k] = what[j]
      BY <1>6, <1>9, <1>10, <2>2
    <3> HIDE DEF j
    <3> QED  BY <1>4, <1>6, <3>1, <3>2
  <2> QED  BY <1>6, <1>9, <1>10, <2>1, <2>2
<1>12. ReadBy(d, s)
  BY <1>3, <1>4, <1>6, <1>8, <1>9, <1>11 DEF ReadBy
<1> QED  BY <1>2, <1>6, <1>7, <1>12, AdvanceReads DEF d, s, f, old

LEMMA ReadDirReads ==
  ASSUME Shape, Reads, NEW t \in Task, NEW fd \in Fd, NEW size \in Asks,
         ReadDir(t, fd, size)
  PROVE  Reads'
<1> DEFINE f == files[t][fd]
           old == seen[t][fd]
           name == <<Dentries[f.f_pos + 1].f_name, Min({size, NameLimit})>>
<1>1. f \in Desc /\ old \in Seq(Kinds) /\ ReadBy(f, old)
  BY DEF Shape, Reads
<1>2. f.f_op = "dir" /\ f.f_pos < Len(Dentries) /\ Advance(t, fd, 1, << name >>)
  BY DEF ReadDir
<1>3. f.f_pos = Len(old) /\ \A k \in 1 .. Len(old) : old[k][1] = Dentries[k].f_name
  BY <1>1, <1>2 DEF ReadBy
<1>4. Len(old) \in Nat
  BY <1>1, LenProperties
<1> HIDE DEF f, old
<1>5. name \in Kinds /\ name[1] = Dentries[f.f_pos + 1].f_name
  <2>1. {size, NameLimit} \subseteq Nat /\ {size, NameLimit} # {}
    BY OpensAssumption, NameAssumption
  <2>2. Min({size, NameLimit}) \in Nat
    BY <2>1, MinFacts
  <2>3. Dentries[f.f_pos + 1].f_name \in Name
    BY <1>2, <1>3, <1>4, Entries
  <2> QED  BY <2>2, <2>3 DEF Kinds
<1> DEFINE d == [f EXCEPT !.f_pos = @ + 1]
           s == old \o << name >>
<1>6. d.f_op = "dir" /\ d.f_pos = f.f_pos + 1
  BY <1>1, <1>2 DEF Desc
<1> HIDE DEF name
<1>7. << name >> \in Seq(Kinds) /\ Len(<< name >>) = 1 /\ << name >>[1] = name
  BY <1>5
<1>8. /\ s \in Seq(Kinds) /\ Len(s) = Len(old) + 1
      /\ \A k \in 1 .. Len(old) + 1 :
           s[k] = IF k <= Len(old) THEN old[k] ELSE << name >>[k - Len(old)]
  BY <1>1, <1>7, ConcatProperties
<1> HIDE DEF d, s
<1>9. ASSUME NEW k \in 1 .. Len(s)
      PROVE  s[k][1] = Dentries[k].f_name
  <2>1. CASE k <= Len(old)
    BY <1>3, <1>4, <1>8, <2>1
  <2>2. CASE ~ (k <= Len(old))
    <3>1. k - Len(old) = 1 /\ k = f.f_pos + 1
      BY <1>3, <1>4, <1>8, <2>2
    <3>2. s[k] = << name >>[k - Len(old)]
      BY <1>8, <2>2
    <3> QED  BY <1>5, <1>7, <3>1, <3>2
  <2> QED  BY <2>1, <2>2
<1>10. ReadBy(d, s)
  <2>1. f.f_pos + 1 <= Len(Dentries)
    BY <1>2, <1>3, <1>4, Entries
  <2> QED  BY <1>3, <1>6, <1>8, <1>9, <2>1 DEF ReadBy
<1>11. Advance(t, fd, 1, << name >>)
  BY <1>2 DEF name
<1> QED  BY <1>7, <1>10, <1>11, AdvanceReads DEF d, s, f, old

LEMMA InitReads == Init => Reads
<1> SUFFICES ASSUME Init  PROVE Reads
  OBVIOUS
<1>1. \A t \in Task, fd \in Fd : files[t][fd].f_op \notin {"file", "dir"}
  BY InitArray DEF Init
<1>2. << >> \in Seq(Kinds)
  OBVIOUS
<1> QED  BY <1>1, <1>2, NothingRead DEF Init, Reads

LEMMA NextReads == Inductive /\ Reads /\ [Next]_vars => Reads'
<1> SUFFICES ASSUME Inductive, Reads, [Next]_vars  PROVE Reads'
  OBVIOUS
<1>1. Shape
  BY DEF Inductive
<1>2. ASSUME UNCHANGED <<files, seen>>  PROVE Reads'
  BY <1>2 DEF Reads
<1>3. ASSUME NEW t \in Task, OpenStep(t)  PROVE Reads'
  <2>1. \/ \E op, inode : Populate(t, op, inode)
        \/ UNCHANGED <<files, seen>>
    BY <1>3 DEF OpenStep, OpenFile, OpenDir, RtcFind, RtcTake, AudioCheck,
                AudioReset, OpenFails, Failed, pcbVars
  <2> QED  BY <1>1, <1>2, <2>1, PopulateReads
<1>4. ASSUME NEW t \in Task, CloseStep(t)  PROVE Reads'
  <2>1. \/ \E fds : Release(t, fds)
        \/ UNCHANGED <<files, seen>>
    BY <1>4 DEF CloseStep, Close, CloseRtc, CloseAudio, StopAudio
  <2> QED  BY <1>1, <1>2, <2>1, ReleaseReads
<1>5. ASSUME NEW t \in Task, ReadStep(t)  PROVE Reads'
  <2>1. \/ \E fd \in Fd, size \in Asks : ReadFile(t, fd, size)
        \/ \E fd \in Fd, size \in Asks : ReadDir(t, fd, size)
        \/ UNCHANGED <<files, seen>>
    BY <1>5 DEF ReadStep, ReadRtc, ReadRtcEnds, WriteRtc, pcbVars
  <2> QED  BY <1>1, <1>2, <2>1, ReadFileReads, ReadDirReads
<1>6. ASSUME NEW t \in Task, Halt(t)  PROVE Reads'
  BY <1>1, <1>6, ReleaseReads DEF Halt
<1>7. ASSUME NEW t \in Task, Execute(t)  PROVE Reads'
  <2>1. seen' = seen /\ files' = [files EXCEPT ![t] = InitFileArr]
    BY <1>7 DEF Execute
  <2>2. ASSUME NEW u \in Task, NEW fd \in Fd
        PROVE  ReadBy(files'[u][fd], seen'[u][fd])
    <3>1. CASE u = t
      <4>1. files'[u][fd].f_op \notin {"file", "dir"}
        BY <1>1, <2>1, <3>1, InitArray DEF Shape
      <4> QED  BY <4>1, NothingRead
    <3>2. CASE u # t
      BY <1>1, <2>1, <3>2 DEF Shape, Reads
    <3> QED  BY <3>1, <3>2
  <2> QED  BY <2>1, <2>2 DEF Reads
<1>8. CASE RtcInterrupt \/ UNCHANGED vars
  BY <1>2, <1>8 DEF RtcInterrupt, vars, pcbVars
<1> QED
  BY <1>3, <1>4, <1>5, <1>6, <1>7, <1>8 DEF Next, Stopped

LEMMA AlwaysReads == Spec => []Reads
<1> QED
  BY InitReads, NextReads, AlwaysInductive, PTL DEF Spec

-----------------------------------------------------------------------------
(* The theorems                                                            *)

(* The count that sys_open trusts is exact for any tasks and any limit, so *)
(* that allocate_fd finds a descriptor whenever it is asked.               *)
THEOREM CountAlwaysExact == Spec => []CountExact
<1>1. Inductive => CountExact
  BY DEF Inductive, FitsAt, Fits, CountExact, Open, OpenOf
<1> QED
  BY <1>1, AlwaysInductive, PTL

(* No clock is taken and no card is on without a task that will give it    *)
(* back, whichever opens, closes and halts overlap.                        *)
THEOREM DevicesAlwaysOwned == Spec => []DevicesOwned
<1>1. Inductive => DevicesOwned
  BY DEF Inductive
<1> QED
  BY <1>1, AlwaysInductive, PTL

(* What programs read through a descriptor, call by call and whatever      *)
(* sizes they ask for, is the file from its first byte or the directory    *)
(* from its first entry: read_data steps from block to block without       *)
(* leaving a byte out, and stops before a block number that is bad.        *)
THEOREM ReadsAreTheFile == Spec => []ReadsMatchFile
<1>1. Shape /\ Reads => ReadsMatchFile
  <2> SUFFICES ASSUME Shape, Reads, NEW t \in Task, NEW fd \in Fd
               PROVE  /\ files[t][fd].f_op = "file" /\ seen[t][fd] # << >> =>
                           IsPrefix(seen[t][fd], Text[files[t][fd].inode])
                      /\ files[t][fd].f_op = "dir" =>
                           /\ Len(seen[t][fd]) = files[t][fd].f_pos
                           /\ \A k \in 1 .. files[t][fd].f_pos :
                                seen[t][fd][k][1] = Dentries[k].f_name
    BY DEF ReadsMatchFile
  <2> DEFINE f == files[t][fd]
             s == seen[t][fd]
  <2>1. s \in Seq(Kinds) /\ Len(s) \in Nat /\ ReadBy(f, s)
    BY LenProperties DEF Reads
  <2> HIDE DEF f, s
  <2>2. ASSUME f.f_op = "file", s # << >>
        PROVE  IsPrefix(s, Text[f.inode])
    <3> DEFINE x == Text[f.inode]
    <3>1. /\ f.inode \in Inode /\ Len(s) <= Length[f.inode]
          /\ \A k \in 1 .. Len(s) : s[k] = x[k]
      BY <2>1, <2>2 DEF ReadBy
    <3>2. x \in Seq(Byte) /\ Len(x) = Length[f.inode] /\ Len(x) \in Nat
      BY <3>1, TextAssumption, InodeAssumption
    <3> HIDE DEF x
    <3>3. /\ SubSeq(s, 1, Len(s)) \in Seq(Kinds) /\ Len(SubSeq(s, 1, Len(s))) = Len(s)
          /\ \A k \in 1 .. Len(s) : SubSeq(s, 1, Len(s))[k] = s[k]
      BY <2>1, SubSeqProperties
    <3>4. /\ SubSeq(x, 1, Len(s)) \in Seq(Byte) /\ Len(SubSeq(x, 1, Len(s))) = Len(s)
          /\ \A k \in 1 .. Len(s) : SubSeq(x, 1, Len(s))[k] = x[k]
      BY <2>1, <3>1, <3>2, SubSeqProperties
    <3>5. SubSeq(s, 1, Len(s)) = SubSeq(x, 1, Len(s))
      BY <3>1, <3>3, <3>4, SeqEqual
    <3> QED  BY <3>1, <3>2, <3>5 DEF IsPrefix, x
  <2>3. ASSUME f.f_op = "dir"
        PROVE  /\ Len(s) = f.f_pos
               /\ \A k \in 1 .. f.f_pos : s[k][1] = Dentries[k].f_name
    BY <2>1, <2>3 DEF ReadBy
  <2> QED  BY <2>2, <2>3 DEF f, s
<1>2. Inductive => Shape
  BY DEF Inductive
<1> QED
  BY <1>1, <1>2, AlwaysInductive, AlwaysReads, PTL
=============================================================================

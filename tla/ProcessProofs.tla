--------------------------- MODULE ProcessProofs ---------------------------
(***************************************************************************)
(* Theorems about Process, for every number of PCBs and terminals, every   *)
(* quantum and every build.                                                *)
(*                                                                         *)
(* Two inductive invariants, one on top of the other. IInv is about who    *)
(* exists: it adds to TypeOK, QueueExact, WaitDiscipline and RunnerReady   *)
(* what their preservation needs. The task that init is starting is kept   *)
(* track of from its PCB to its first instruction (Starting), init itself  *)
(* never leaves the queue, and no tasks wait for one another in a circle   *)
(* (Grounded), which is what makes the loop of reschedule end.             *)
(*                                                                         *)
(* SInv is about what they own: terminals (Lineage, OwnersOK, KeysOK,      *)
(* SlotLeft, TermLeft), quanta (TimeOK), pages (PagesOK), list nodes       *)
(* (NodesOK), the scans of init that must find something (ScansOK), the    *)
(* CPU's page and stack (ContextOK), the place of init in the queue once   *)
(* it has listed a shell (InitBehind) and the count of PCBs (CountOK). Its *)
(* parts are kept by every step that IInv allows; the order of the         *)
(* sections is the order in which they need one another.                   *)
(***************************************************************************)
EXTENDS Process, FiniteSetTheorems, SequenceTheorems, WellFoundedInduction, TLAPS

-----------------------------------------------------------------------------
(* Facts that are about no variable: the least of some numbers, what       *)
(* appending to, removing from and rotating a queue without repetitions    *)
(* does to it, and the forest that tasks waiting for one another form.     *)

(* A non-empty set of naturals has a least element.                        *)
LEMMA MinFacts ==
  ASSUME NEW S, S \subseteq Nat, S # {}
  PROVE  Min(S) \in S /\ \A x \in S : Min(S) <= x
<1> DEFINE R == {xy \in Nat \X Nat : xy[1] < xy[2]}
<1>1. IsWellFoundedOn(R, Nat)
  BY NatLessThanWellFounded DEF OpToRel
<1>2. \A x, y \in Nat : x < y => <<x, y>> \in R
  OBVIOUS
<1> HIDE DEF R
<1>3. PICK m \in S : \A x \in S : ~ (<<x, m>> \in R)
  BY <1>1, WFMin
<1>4. \A x \in S : m \in Nat /\ x \in Nat /\ ~ (x < m)
  BY <1>2, <1>3
<1>5. \A x \in S : m <= x
  BY <1>4
<1> QED  BY <1>5 DEF Min
-----------------------------------------------------------------------------
(* add_task_to_list: a task that was not in the queue is its last one.     *)
LEMMA AppendFacts ==
  ASSUME NEW S, NEW q \in Seq(S), IsInjective(q), NEW c \in S, c \notin ToSet(q)
  PROVE  /\ Append(q, c) \in Seq(S)
         /\ IsInjective(Append(q, c))
         /\ ToSet(Append(q, c)) = ToSet(q) \cup {c}
  BY AppendProperties DEF IsInjective, ToSet

(* Removing the k-th element: exactly that one is gone, and those behind   *)
(* it move up.                                                             *)
LEMMA RemovedFacts ==
  ASSUME NEW S, NEW q \in Seq(S), IsInjective(q), NEW k \in 1 .. Len(q)
  PROVE  /\ RemoveAt(q, k) \in Seq(S) /\ Len(RemoveAt(q, k)) = Len(q) - 1
         /\ \A i \in 1 .. Len(q) - 1 :
              RemoveAt(q, k)[i] = IF i < k THEN q[i] ELSE q[i + 1]
         /\ IsInjective(RemoveAt(q, k))
         /\ ToSet(RemoveAt(q, k)) = ToSet(q) \ {q[k]}
<1> DEFINE p == q[k]
           s == SubSeq(q, 1, k - 1)
           t == SubSeq(q, k + 1, Len(q))
           u == RemoveAt(q, k)
<1>1. /\ DOMAIN q = 1 .. Len(q) /\ Len(q) \in Nat
      /\ \A i \in 1 .. Len(q) : q[i] \in S
  BY LenProperties
<1>2. k \in 1 .. Len(q) /\ q[k] = p
  OBVIOUS
<1>3. /\ s \in Seq(S) /\ Len(s) = k - 1
      /\ \A i \in 1 .. k - 1 : s[i] = q[i]
  <2>1. \A i \in 1 .. k - 1 : q[i] \in S
    BY <1>1, <1>2
  <2> QED  BY <1>2, <2>1, SubSeqProperties
<1>4. /\ t \in Seq(S) /\ Len(t) = Len(q) - k
      /\ \A i \in 1 .. Len(q) - k : t[i] = q[k + i]
  <2>1. \A i \in k + 1 .. Len(q) : q[i] \in S
    BY <1>1, <1>2
  <2>2. /\ t \in Seq(S)
        /\ Len(t) = IF k + 1 <= Len(q) THEN Len(q) - (k + 1) + 1 ELSE 0
        /\ \A i \in 1 .. Len(q) - (k + 1) + 1 : t[i] = q[(k + 1) + i - 1]
    BY <1>1, <1>2, <2>1, SubSeqProperties
  <2> HIDE DEF p, s, t, u
  <2>3. Len(t) = Len(q) - k
    BY <1>1, <1>2, <2>2
  <2>4. ASSUME NEW i \in 1 .. Len(q) - k  PROVE t[i] = q[k + i]
    <3>1. i \in 1 .. Len(q) - (k + 1) + 1 /\ (k + 1) + i - 1 = k + i
      BY <1>1, <1>2
    <3> QED  BY <2>2, <3>1
  <2> QED  BY <2>2, <2>3, <2>4
<1>5. /\ u \in Seq(S) /\ Len(u) = Len(q) - 1
      /\ \A i \in 1 .. Len(q) - 1 : u[i] = IF i < k THEN q[i] ELSE q[i + 1]
  <2>1. u = s \o t
    BY DEF RemoveAt
  <2> HIDE DEF p, s, t, u
  <2>2. /\ u \in Seq(S) /\ Len(u) = Len(s) + Len(t)
        /\ \A i \in 1 .. Len(s) + Len(t) :
             u[i] = IF i <= Len(s) THEN s[i] ELSE t[i - Len(s)]
    BY <1>3, <1>4, <2>1, ConcatProperties
  <2>3. ASSUME NEW i \in 1 .. Len(q) - 1
        PROVE  u[i] = IF i < k THEN q[i] ELSE q[i + 1]
    <3>1. CASE i < k
      <4>1. i \in 1 .. Len(s) + Len(t) /\ i <= Len(s) /\ i \in 1 .. k - 1
        BY <1>1, <1>2, <1>3, <1>4, <3>1
      <4> QED  BY <1>3, <2>2, <3>1, <4>1
    <3>2. CASE ~ (i < k)
      <4>1. u[i] = t[i - (k - 1)] /\ i - (k - 1) \in 1 .. Len(q) - k
        <5>1. i \in 1 .. Len(s) + Len(t) /\ ~ (i <= Len(s))
          BY <1>1, <1>2, <1>3, <1>4, <3>2
        <5>2. u[i] = t[i - Len(s)]
          BY <2>2, <5>1
        <5> QED  BY <1>1, <1>2, <1>3, <3>2, <5>2
      <4>2. t[i - (k - 1)] = q[k + (i - (k - 1))]
        BY <1>4, <4>1
      <4>3. k + (i - (k - 1)) = i + 1
        BY <1>1, <1>2
      <4> QED  BY <3>2, <4>1, <4>2, <4>3
    <3> QED  BY <3>1, <3>2
  <2> QED  BY <1>1, <1>2, <1>3, <1>4, <2>2, <2>3
<1>6. DOMAIN u = 1 .. Len(q) - 1
  BY <1>5, LenProperties
<1> HIDE DEF p, u
<1>7. IsInjective(u)
  <2> SUFFICES ASSUME NEW i \in 1 .. Len(q) - 1, NEW j \in 1 .. Len(q) - 1,
                      u[i] = u[j]
               PROVE  i = j
    BY <1>6 DEF IsInjective
  <2> DEFINE At(x) == IF x < k THEN x ELSE x + 1
  <2>1. /\ At(i) \in DOMAIN q /\ u[i] = q[At(i)]
        /\ At(j) \in DOMAIN q /\ u[j] = q[At(j)]
    BY <1>1, <1>2, <1>5
  <2>2. At(i) = At(j)
    <3> HIDE DEF At
    <3> QED  BY <2>1 DEF IsInjective
  <2> QED  BY <1>2, <2>2
<1>8. ToSet(u) = ToSet(q) \ {p}
  <2>1. ASSUME NEW x \in ToSet(u)  PROVE x \in ToSet(q) \ {p}
    <3>1. PICK i \in 1 .. Len(q) - 1 : u[i] = x
      BY <1>6 DEF ToSet
    <3>2. PICK j \in 1 .. Len(q) : x = q[j] /\ j # k
      <4>1. CASE i < k
        <5>1. i \in 1 .. Len(q) /\ i # k
          BY <1>1, <4>1
        <5>2. x = q[i]
          BY <1>5, <3>1, <4>1
        <5> QED  BY <5>1, <5>2
      <4>2. CASE ~ (i < k)
        <5>1. i + 1 \in 1 .. Len(q) /\ i + 1 # k
          BY <1>1, <1>2, <4>2
        <5>2. x = q[i + 1]
          BY <1>5, <3>1, <4>2
        <5> QED  BY <5>1, <5>2
      <4> QED  BY <4>1, <4>2
    <3> QED  BY <1>1, <1>2, <3>2 DEF ToSet, IsInjective
  <2>2. ASSUME NEW x \in ToSet(q), x # p  PROVE x \in ToSet(u)
    <3>1. PICK i \in DOMAIN q : q[i] = x
      BY DEF ToSet
    <3> i \in 1 .. Len(q)
      BY <1>1
    <3>2. CASE i < k
      <4>1. i \in 1 .. Len(q) - 1 /\ u[i] = q[i]
        BY <1>1, <1>2, <1>5, <3>2
      <4> QED  BY <1>6, <3>1, <4>1 DEF ToSet
    <3>3. CASE i > k
      <4>1. i - 1 \in 1 .. Len(q) - 1 /\ u[i - 1] = q[i]
        BY <1>1, <1>2, <1>5, <3>3
      <4> QED  BY <1>6, <3>1, <4>1 DEF ToSet
    <3> QED  BY <1>1, <1>2, <2>2, <3>1, <3>2, <3>3
  <2> QED  BY <2>1, <2>2
<1> QED  BY <1>5, <1>7, <1>8 DEF p, u

Rotation(q, k) == SubSeq(q, k, Len(q)) \o SubSeq(q, 1, k - 1)

(* Rotating the queue loses and doubles nobody, and makes the k-th task    *)
(* the first.                                                              *)
LEMMA RotationFacts ==
  ASSUME NEW S, NEW q \in Seq(S), IsInjective(q), NEW k \in 1 .. Len(q)
  PROVE  /\ Rotation(q, k) \in Seq(S) /\ Len(Rotation(q, k)) = Len(q)
         /\ \A i \in 1 .. Len(q) :
              Rotation(q, k)[i] = IF i <= Len(q) - k + 1 THEN q[k + i - 1]
                                  ELSE q[i - (Len(q) - k + 1)]
         /\ IsInjective(Rotation(q, k))
         /\ ToSet(Rotation(q, k)) = ToSet(q)
         /\ Head(Rotation(q, k)) = q[k]
<1> DEFINE n == Len(q)
           s == SubSeq(q, k, n)
           t == SubSeq(q, 1, k - 1)
           u == Rotation(q, k)
<1>1. /\ DOMAIN q = 1 .. n /\ n \in Nat /\ k \in 1 .. n
      /\ \A i \in 1 .. n : q[i] \in S
  BY LenProperties
<1>2. /\ s \in Seq(S) /\ Len(s) = n - k + 1
      /\ \A i \in 1 .. n - k + 1 : s[i] = q[k + i - 1]
  <2>1. \A i \in k .. n : q[i] \in S
    BY <1>1
  <2> QED  BY <1>1, <2>1, SubSeqProperties
<1>3. /\ t \in Seq(S) /\ Len(t) = k - 1
      /\ \A i \in 1 .. k - 1 : t[i] = q[i]
  <2>1. \A i \in 1 .. k - 1 : q[i] \in S
    BY <1>1
  <2> QED  BY <1>1, <2>1, SubSeqProperties
<1>4. /\ u \in Seq(S) /\ Len(u) = n
      /\ \A i \in 1 .. n : u[i] = IF i <= n - k + 1 THEN q[k + i - 1]
                                  ELSE q[i - (n - k + 1)]
  <2>1. u = s \o t
    BY DEF Rotation
  <2> HIDE DEF n, s, t, u
  <2>2. /\ u \in Seq(S) /\ Len(u) = Len(s) + Len(t)
        /\ \A i \in 1 .. Len(s) + Len(t) :
             u[i] = IF i <= Len(s) THEN s[i] ELSE t[i - Len(s)]
    BY <1>2, <1>3, <2>1, ConcatProperties
  <2>3. ASSUME NEW i \in 1 .. n
        PROVE  u[i] = IF i <= n - k + 1 THEN q[k + i - 1]
                      ELSE q[i - (n - k + 1)]
    <3>1. i \in 1 .. Len(s) + Len(t)
      BY <1>1, <1>2, <1>3
    <3>2. CASE i <= n - k + 1
      <4>1. u[i] = s[i]
        BY <1>2, <2>2, <3>1, <3>2
      <4> QED  BY <1>1, <1>2, <3>2, <4>1
    <3>3. CASE ~ (i <= n - k + 1)
      <4>1. u[i] = t[i - (n - k + 1)]
        BY <1>2, <2>2, <3>1, <3>3
      <4>2. i - (n - k + 1) \in 1 .. k - 1
        BY <1>1, <3>3
      <4> QED  BY <1>3, <3>3, <4>1, <4>2
    <3> QED  BY <3>2, <3>3
  <2> QED  BY <1>1, <1>2, <1>3, <2>2, <2>3
<1> DEFINE At(i) == IF i <= n - k + 1 THEN k + i - 1 ELSE i - (n - k + 1)
<1>5. DOMAIN u = 1 .. n
  BY <1>4, LenProperties
<1>6. \A i \in 1 .. n : At(i) \in 1 .. n /\ u[i] = q[At(i)]
  <2> HIDE DEF n, u
  <2> QED  BY <1>1, <1>4
<1>7. \A i, j \in 1 .. n : At(i) = At(j) => i = j
  <2> HIDE DEF n
  <2> QED  BY <1>1
<1>8. \A j \in 1 .. n : \E i \in 1 .. n : At(i) = j
  <2> HIDE DEF n
  <2> SUFFICES ASSUME NEW j \in 1 .. n  PROVE \E i \in 1 .. n : At(i) = j
    OBVIOUS
  <2>1. CASE j >= k
    <3>1. j - k + 1 \in 1 .. n /\ At(j - k + 1) = j
      BY <1>1, <2>1
    <3> QED  BY <3>1
  <2>2. CASE j < k
    <3>1. j + (n - k + 1) \in 1 .. n /\ At(j + (n - k + 1)) = j
      BY <1>1, <2>2
    <3> QED  BY <3>1
  <2> QED  BY <1>1, <2>1, <2>2
<1>9. At(1) = k /\ 1 \in 1 .. n
  <2> HIDE DEF n
  <2> QED  BY <1>1
<1> HIDE DEF n, u, At
<1>10. IsInjective(u)
  BY <1>1, <1>5, <1>6, <1>7 DEF IsInjective
<1>11. ToSet(u) = ToSet(q)
  <2>1. ASSUME NEW x \in ToSet(u)  PROVE x \in ToSet(q)
    BY <1>1, <1>5, <1>6, <2>1 DEF ToSet
  <2>2. ASSUME NEW x \in ToSet(q)  PROVE x \in ToSet(u)
    <3>1. PICK j \in 1 .. n : q[j] = x
      BY <1>1 DEF ToSet
    <3>2. PICK i \in 1 .. n : At(i) = j
      BY <1>8
    <3> QED  BY <1>5, <1>6, <3>1, <3>2 DEF ToSet
  <2> QED  BY <2>1, <2>2
<1>12. Head(u) = q[k]
  <2>1. u # << >>
    BY <1>4, <1>9, EmptySeq
  <2>2. Head(u) = u[1]
    BY <1>4, <2>1
  <2> QED  BY <1>6, <1>9, <2>2
<1> QED  BY <1>4, <1>10, <1>11, <1>12 DEF n, u

-----------------------------------------------------------------------------
(* The forest of tasks: L the listed tasks, par their parents, w the marks *)
(* of those that wait for a child.                                         *)

Family(L, par, w, none) ==
  \A p \in L :
    /\ w[p] <=> \E c \in L : par[c] = p
    /\ \A c, d \in L : par[c] = p /\ par[d] = p => c = d
    /\ par[p] \in L \cup {none}

(* No set of tasks wait for one another in a circle.                       *)
Grounded(L, par) ==
  \A S \in SUBSET L : S # {} => \E p \in S : \A c \in S : par[c] # p

(* A grounded family has a task that waits for nobody, so the loop in      *)
(* reschedule finds one.                                                   *)
LEMMA FamilyLeaf ==
  ASSUME NEW L, NEW none, none \notin L, L # {}, NEW par, NEW w,
         Family(L, par, w, none), Grounded(L, par)
  PROVE  \E p \in L : ~ w[p]
<1>1. PICK p \in L : \A c \in L : par[c] # p
  BY DEF Grounded
<1> QED  BY <1>1 DEF Family

(* Only the parents and marks of the listed tasks matter.                  *)
LEMMA FamilyAgrees ==
  ASSUME NEW L, NEW none, none \notin L, NEW par, NEW w,
         NEW par2, NEW w2,
         Family(L, par, w, none), Grounded(L, par),
         \A p \in L : par2[p] = par[p] /\ w2[p] = w[p]
  PROVE  Family(L, par2, w2, none) /\ Grounded(L, par2)
<1>1. Family(L, par2, w2, none)
  BY DEF Family
<1>2. Grounded(L, par2)
  <2> SUFFICES ASSUME NEW S \in SUBSET L, S # {}
               PROVE  \E p \in S : \A c \in S : par2[c] # p
    BY DEF Grounded
  <2>1. PICK p \in S : \A c \in S : par[c] # p
    BY DEF Grounded
  <2> QED  BY <2>1
<1> QED  BY <1>1, <1>2

(* A task nobody waits for is added.                                       *)
LEMMA FamilyAdmits ==
  ASSUME NEW L, NEW none, none \notin L, NEW par, NEW w,
         Family(L, par, w, none), Grounded(L, par),
         NEW c, c \notin L, c # none, par[c] = none, ~ w[c]
  PROVE  Family(L \cup {c}, par, w, none) /\ Grounded(L \cup {c}, par)
<1>1. \A d \in L \cup {c} : par[d] # c
  BY DEF Family
<1>2. Family(L \cup {c}, par, w, none)
  <2> SUFFICES ASSUME NEW p \in L \cup {c}
               PROVE  /\ w[p] <=> \E d \in L \cup {c} : par[d] = p
                      /\ \A d, e \in L \cup {c} :
                           par[d] = p /\ par[e] = p => d = e
                      /\ par[p] \in L \cup {c} \cup {none}
    BY DEF Family
  <2>1. CASE p = c
    BY <1>1, <2>1
  <2>2. CASE p \in L
    <3>1. par[c] # p
      BY <2>2
    <3> QED  BY <2>2, <3>1 DEF Family
  <2> QED  BY <2>1, <2>2
<1>3. Grounded(L \cup {c}, par)
  <2> SUFFICES ASSUME NEW S \in SUBSET (L \cup {c}), S # {}
               PROVE  \E p \in S : \A d \in S : par[d] # p
    BY DEF Grounded
  <2>1. CASE c \in S
    BY <1>1, <2>1
  <2>2. CASE c \notin S
    <3>1. S \in SUBSET L
      BY <2>2
    <3> QED  BY <3>1 DEF Grounded
  <2> QED  BY <2>1, <2>2
<1> QED  BY <1>2, <1>3

(* execute: the leaf r gets a child c and waits for it.                    *)
LEMMA FamilyCalls ==
  ASSUME NEW L, NEW none, none \notin L, NEW par, NEW w,
         NEW par2, NEW w2,
         Family(L, par, w, none), Grounded(L, par),
         NEW c, c \notin L, c # none, NEW r \in L, ~ w[r],
         par2[c] = r, ~ w2[c], w2[r],
         \A p \in L : par2[p] = par[p],
         \A p \in L \ {r} : w2[p] = w[p]
  PROVE  Family(L \cup {c}, par2, w2, none) /\ Grounded(L \cup {c}, par2)
<1>1. \A d \in L \cup {c} : par2[d] # c
  BY DEF Family
<1>2. \A d \in L : par2[d] # r
  BY DEF Family
<1>3. Family(L \cup {c}, par2, w2, none)
  <2> SUFFICES ASSUME NEW p \in L \cup {c}
               PROVE  /\ w2[p] <=> \E d \in L \cup {c} : par2[d] = p
                      /\ \A d, e \in L \cup {c} :
                           par2[d] = p /\ par2[e] = p => d = e
                      /\ par2[p] \in L \cup {c} \cup {none}
    BY DEF Family
  <2>1. CASE p = c
    BY <1>1, <2>1
  <2>2. CASE p = r
    BY <1>2, <2>2 DEF Family
  <2>3. CASE p \in L \ {r}
    BY <2>3 DEF Family
  <2> QED  BY <2>1, <2>2, <2>3
<1>4. Grounded(L \cup {c}, par2)
  <2> SUFFICES ASSUME NEW S \in SUBSET (L \cup {c}), S # {}
               PROVE  \E p \in S : \A d \in S : par2[d] # p
    BY DEF Grounded
  <2>1. CASE c \in S
    BY <1>1, <2>1
  <2>2. CASE c \notin S
    <3>1. S \in SUBSET L
      BY <2>2
    <3>2. PICK p \in S : \A d \in S : par[d] # p
      BY <3>1 DEF Grounded
    <3> QED  BY <3>1, <3>2
  <2> QED  BY <2>1, <2>2
<1> QED  BY <1>3, <1>4

(* halt of a leaf r that somebody waits for.                               *)
LEMMA FamilyReturns ==
  ASSUME NEW L, NEW none, none \notin L, NEW par, NEW w, NEW w2,
         Family(L, par, w, none), Grounded(L, par),
         NEW r \in L, ~ w[r], par[r] # none,
         ~ w2[par[r]], \A p \in L \ {par[r]} : w2[p] = w[p]
  PROVE  /\ par[r] \in L \ {r} /\ w[par[r]]
         /\ Family(L \ {r}, par, w2, none) /\ Grounded(L \ {r}, par)
<1>1. par[r] \in L \ {r} /\ w[par[r]]
  BY DEF Family
<1>2. \A d \in L : par[d] # r
  BY DEF Family
<1>3. Family(L \ {r}, par, w2, none)
  <2> SUFFICES ASSUME NEW p \in L \ {r}
               PROVE  /\ w2[p] <=> \E d \in L \ {r} : par[d] = p
                      /\ \A d, e \in L \ {r} :
                           par[d] = p /\ par[e] = p => d = e
                      /\ par[p] \in (L \ {r}) \cup {none}
    BY DEF Family
  <2>1. CASE p = par[r]
    BY <1>1, <1>2, <2>1 DEF Family
  <2>2. CASE p # par[r]
    BY <1>2, <2>2 DEF Family
  <2> QED  BY <2>1, <2>2
<1>4. Grounded(L \ {r}, par)
  BY DEF Grounded
<1> QED  BY <1>1, <1>3, <1>4

(* halt of a leaf r that nobody waits for.                                 *)
LEMMA FamilyExits ==
  ASSUME NEW L, NEW none, none \notin L, NEW par, NEW w,
         Family(L, par, w, none), Grounded(L, par),
         NEW r \in L, ~ w[r], par[r] = none
  PROVE  Family(L \ {r}, par, w, none) /\ Grounded(L \ {r}, par)
<1>1. \A d \in L : par[d] # r
  BY DEF Family
<1>2. Family(L \ {r}, par, w, none)
  <2> SUFFICES ASSUME NEW p \in L \ {r}
               PROVE  /\ w[p] <=> \E d \in L \ {r} : par[d] = p
                      /\ \A d, e \in L \ {r} :
                           par[d] = p /\ par[e] = p => d = e
                      /\ par[p] \in (L \ {r}) \cup {none}
    BY DEF Family
  <2>1. par[r] # p
    OBVIOUS
  <2> QED  BY <1>1, <2>1 DEF Family
<1>3. Grounded(L \ {r}, par)
  BY DEF Grounded
<1> QED  BY <1>2, <1>3
-----------------------------------------------------------------------------
(* The steps of init from the PCB's fields to the list, the later ones     *)
(* before the shell runs, and those between which it holds a page          *)
MakingPc == BuildPc \ {"setup"}
AfterSetup == MakingPc \cup GoPc
ChosenPc == {"map", "load_p", "store_p", "status", "pid"}

(* The locals of sys_execute that later statements rely on                 *)
Locals ==
  /\ pc \in ChosenPc => reg \in Page
  /\ pc = "take" => reg \in Node
  /\ pc \in SpawnPc => slot < NTerm

(* The new task of init: alone in the world until it is listed, listed and *)
(* off the CPU until init enters it.                                       *)
Starting ==
  /\ pc \in MakingPc =>
       ~having_child_running[new] /\ parent[new] = Nobody
  /\ pc \in GoPc =>
       /\ new \in Listed /\ new # cpu
       /\ ~having_child_running[new] /\ parent[new] = Nobody

QueueOK == /\ IsInjective(queue)
           /\ Listed \cup Unlisted = {p \in Pcb : present[p]}
           /\ Listed \cap Unlisted = {}
           /\ InitTask \in Listed

FamilyOK == /\ Family(Listed, parent, having_child_running, Nobody)
            /\ Grounded(Listed, parent)

RunnerOK == cpu \in Listed /\ ~having_child_running[cpu]

Core == QueueOK /\ FamilyOK /\ RunnerOK /\ Starting

IInv == TypeOK /\ Locals /\ RescheduleTerminates /\ (Up => Core)
-----------------------------------------------------------------------------
LEMMA ConstantFacts ==
  /\ InitTask \in Pcb /\ Nobody \notin Pcb /\ Pcb \subseteq Nat
  /\ Page \subseteq Nat /\ Term \subseteq Nat /\ NTerm \in Nat \ {0}
  /\ Node \subseteq Nat /\ NoNode \notin Node /\ 1 \in Node /\ NNode \in Nat
  /\ Word \in Nat \ {0} /\ TimeDecrease \in Nat
  /\ TimeInit \in 0 .. Word - 1 /\ TimeInitShell \in 0 .. Word - 1
<1>1. TimeInit \in Nat /\ TimeInitShell \in Nat
  <2>1. \A k \in 1 .. 255 : TimeDecrease * k \in Nat
    BY TimeAssumption
  <2> QED  BY <2>1, TimeAssumption
<1>2. Word \in Nat \ {0} /\ TimeDecrease \in Nat
      /\ TimeInit \in 0 .. Word - 1 /\ TimeInitShell \in 0 .. Word - 1
  BY <1>1, TimeAssumption
<1>3. /\ InitTask \in Pcb /\ Nobody \notin Pcb /\ Pcb \subseteq Nat
      /\ Page \subseteq Nat /\ Term \subseteq Nat /\ NTerm \in Nat \ {0}
  BY PcbAssumption, TermAssumption
     DEF Pcb, Page, Term, InitTask, Nobody
<1>4. Node \subseteq Nat /\ NoNode \notin Node /\ 1 \in Node /\ NNode \in Nat
  BY PcbAssumption, NodeAssumption DEF Node, NoNode
<1> QED  BY <1>2, <1>3, <1>4

LEMMA TimeFacts ==
  ASSUME TypeOK, NEW p \in Pcb
  PROVE  Quantum(p) \in 0 .. Word - 1 /\ Remaining(p) \in 0 .. Word - 1
<1>1. Quantum(p) \in 0 .. Word - 1
  BY ConstantFacts DEF Quantum, QuantumOf
<1>2. time[p] \in Nat
  BY ConstantFacts DEF TypeOK
<1>3. \A a \in Int : a % Word \in 0 .. Word - 1
  BY ConstantFacts
<1>4. Remaining(p) \in 0 .. Word - 1
  BY <1>2, <1>3, ConstantFacts DEF Remaining
<1> QED  BY <1>1, <1>4

(* delete_task_from_list: exactly the one task is gone.                    *)
LEMMA UnlinkedFacts ==
  ASSUME NEW q \in Seq(Pcb), IsInjective(q), NEW p \in ToSet(q)
  PROVE  /\ Unlinked(q, p) \in Seq(Pcb)
         /\ IsInjective(Unlinked(q, p))
         /\ ToSet(Unlinked(q, p)) = ToSet(q) \ {p}
<1>1. IndexOf(q, p) \in 1 .. Len(q) /\ q[IndexOf(q, p)] = p
  BY LenProperties DEF IndexOf, ToSet
<1> QED  BY <1>1, RemovedFacts DEF Unlinked

(* Rotating the queue loses and doubles nobody, and makes the k-th task    *)
(* the first.                                                              *)
LEMMA RotatedFacts ==
  ASSUME NEW q \in Seq(Pcb), IsInjective(q), NEW k \in 1 .. Len(q)
  PROVE  /\ RotatedTo(q, k) \in Seq(Pcb)
         /\ IsInjective(RotatedTo(q, k))
         /\ ToSet(RotatedTo(q, k)) = ToSet(q)
         /\ Head(RotatedTo(q, k)) = q[k]
<1>1. RotatedTo(q, k) = Rotation(q, k)
  BY DEF RotatedTo, Rotation
<1> QED  BY <1>1, RotationFacts

(* The first free PCB and page are what Min says they are.                 *)
LEMMA FirstFree ==
  /\ FreePcbs # {} => Min(FreePcbs) \in FreePcbs /\ Min(FreePcbs) \in Pcb
  /\ FreePages # {} => Min(FreePages) \in FreePages /\ Min(FreePages) \in Page
  /\ FreeNodes # {} => Min(FreeNodes) \in FreeNodes /\ Min(FreeNodes) \in Node
<1>1. FreePcbs \subseteq Pcb /\ FreePages \subseteq Page /\ FreeNodes \subseteq Node
  BY DEF FreePcbs, FreePages, FreeNodes
<1> QED  BY <1>1, ConstantFacts, MinFacts

(* Where init is tells whether it has a new task, and how far that is.     *)
LEMMA PcFacts ==
  /\ SpawnPc = CountPc \cup BuildPc \cup GoPc
  /\ BuildPc = {"setup"} \cup MakingPc /\ "setup" \notin AfterSetup
  /\ AfterSetup = MakingPc \cup GoPc
  /\ ChosenPc \subseteq MakingPc /\ "take" \in MakingPc
  /\ LoopPc \cap SpawnPc = {} /\ CountPc \cap BuildPc = {}
  /\ CountPc \cap GoPc = {} /\ BuildPc \cap GoPc = {}
BY DEF SpawnPc, BuildPc, CountPc, GoPc, LoopPc, MakingPc, AfterSetup, ChosenPc,
       PagePc, ShowPc, ListPc

LEMMA LoopPcFacts ==
  "boot" \in LoopPc /\ "play" \in LoopPc /\ "played" \in LoopPc /\ "scan" \in LoopPc
BY DEF LoopPc

LEMMA InitIInv == Init => IInv
<1> SUFFICES ASSUME Init  PROVE IInv
  OBVIOUS
<1> USE ConstantFacts
<1>1. /\ queue \in Seq(Pcb) /\ DOMAIN queue = {1} /\ queue[1] = InitTask
      /\ IsInjective(queue) /\ Listed = {InitTask}
  BY DEF Init, Listed, ToSet, IsInjective
<1>2. TypeOK
  <2>1. /\ n_present_pcb \in Int /\ n_page_in_use \in Int
        /\ present \in [Pcb -> BOOLEAN]
        /\ having_child_running \in [Pcb -> BOOLEAN]
        /\ own_terminal \in [Pcb -> BOOLEAN]
        /\ page_status \in [Page -> BOOLEAN]
        /\ valid \in [Term -> BOOLEAN]
    BY DEF Init
  <2>2. /\ parent \in [Pcb -> Pcb \cup {Nobody}]
        /\ terminal \in [Pcb -> Term \cup {NullTerm}]
        /\ pid \in [Pcb -> Page \cup {NoPage}]
        /\ time \in [Pcb -> 0 .. Word - 1]
        /\ name \in [Pcb -> {"shell", "program", Unbooted}]
        /\ foreground_task \in [Term -> Pcb \cup {Nobody}]
        /\ node \in [Pcb -> Node \cup {NoNode}]
    BY DEF Init
  <2>3. /\ mapped \in Page \cup {NoPage} /\ cur_task \in Pcb \cup {Nobody}
        /\ running_term \in Term \cup {NullTerm}
        /\ cpu \in Pcb /\ esp0 \in Pcb /\ new \in Pcb
        /\ need_play \in BOOLEAN /\ all_terminal_is_on \in BOOLEAN
    BY DEF Init
  <2>4. pc \in LoopPc \cup SpawnPc /\ fault \in Faults
    BY DEF Init, LoopPc, Faults
  <2>5. slot \in 0 .. NTerm /\ reg \in Int /\ acc \in Int
    BY DEF Init
  <2> QED  BY <1>1, <2>1, <2>2, <2>3, <2>4, <2>5 DEF TypeOK
<1>3. Locals /\ RescheduleTerminates
  BY PcFacts, LoopPcFacts DEF Init, Locals, RescheduleTerminates
<1>4. QueueOK
  BY <1>1, PcFacts, LoopPcFacts DEF Init, QueueOK, Unlisted, Building
<1>5. FamilyOK
  <2>1. parent[InitTask] = Nobody /\ ~having_child_running[InitTask]
    BY DEF Init
  <2>2. Family(Listed, parent, having_child_running, Nobody)
    BY <1>1, <2>1 DEF Family
  <2>3. Grounded(Listed, parent)
    <3> SUFFICES ASSUME NEW S \in SUBSET Listed, S # {}
                 PROVE  \E p \in S : \A c \in S : parent[c] # p
      BY DEF Grounded
    <3>1. InitTask \in S /\ \A c \in S : c = InitTask
      BY <1>1
    <3> QED  BY <2>1, <3>1
  <2> QED  BY <2>2, <2>3 DEF FamilyOK
<1>6. RunnerOK /\ Starting
  BY <1>1, PcFacts, LoopPcFacts DEF Init, RunnerOK, Starting
<1> QED  BY <1>2, <1>3, <1>4, <1>5, <1>6 DEF IInv, Core
-----------------------------------------------------------------------------
(* reschedule: the queue keeps its tasks, and the CPU, with its page and   *)
(* its kernel stack, goes to one of them that is ready and, if the step    *)
(* does not fault, has been started.                                       *)
LEMMA RescheduleFacts ==
  ASSUME TypeOK, NEW q \in Seq(Pcb), IsInjective(q),
         NEW w \in [Pcb -> BOOLEAN], Reschedule(q, w, cpu)
  PROVE  /\ queue' \in Seq(Pcb) /\ IsInjective(queue') /\ Listed' = ToSet(q)
         /\ running_term' \in Term \cup {NullTerm}
         /\ mapped' \in Page \cup {NoPage}
         /\ cpu' \in Pcb /\ esp0' \in Pcb /\ fault' \in Faults
         /\ fault # "reschedule_loop" /\ (\E p \in ToSet(q) : ~w[p]) =>
              fault' # "reschedule_loop"
         /\ fault' # "reschedule_loop" =>
              /\ cpu' \in ToSet(q) /\ ~w[cpu']
              /\ cpu' = cpu => UNCHANGED <<mapped, esp0>>
              /\ cpu' # cpu => mapped' = pid[cpu'] /\ esp0' = cpu'
         /\ Up' => /\ cpu' \in ToSet(q) /\ ~w[cpu']
                   /\ cpu' = cpu \/ ~NeverStarted(cpu')
<1> DEFINE R == ReadyIndices(q, w)
           k == Min(R)
           list == RotatedTo(q, k)
           next == Head(list)
<1>1. DOMAIN q = 1 .. Len(q) /\ Len(q) \in Nat /\ R \subseteq 1 .. Len(q)
  BY LenProperties DEF ReadyIndices
<1>2. CASE R = {}
  <2>1. fault' = "reschedule_loop" /\ queue' = q
        /\ UNCHANGED <<running_term, mapped, cpuVars>>
    BY <1>2 DEF Reschedule
  <2>2. ~ \E p \in ToSet(q) : ~w[p]
    BY <1>2 DEF ToSet, ReadyIndices
  <2>3. ~ Up'
    BY <2>1 DEF Up
  <2> QED  BY <2>1, <2>2, <2>3 DEF TypeOK, Listed, Faults, cpuVars
<1>3. CASE R # {}
  <2>1. k \in R
    BY <1>1, <1>3, MinFacts
  <2>2. k \in 1 .. Len(q) /\ q[k] \in Pcb /\ ~w[q[k]] /\ q[k] \in ToSet(q)
    BY <1>1, <2>1, LenProperties DEF ReadyIndices, ToSet
  <2>3. /\ list \in Seq(Pcb) /\ IsInjective(list) /\ ToSet(list) = ToSet(q)
        /\ next = q[k]
    BY <2>2, RotatedFacts
  <2> HIDE DEF k
  <2>4. queue' = list
        /\ IF next = cpu
           THEN UNCHANGED <<running_term, mapped, cpuVars, fault>>
           ELSE /\ SwitchTo(next)
                /\ fault' = IF NeverStarted(next) THEN "no_frame" ELSE fault
    BY <1>3 DEF Reschedule, k
  <2> HIDE DEF list, next, R
  <2>5. CASE next = cpu
    BY <2>2, <2>3, <2>4, <2>5 DEF TypeOK, Listed, cpuVars
  <2>6. CASE next # cpu
    <3>1. /\ running_term' = terminal[next] /\ mapped' = pid[next]
          /\ esp0' = next /\ cpu' = next
          /\ fault' = IF NeverStarted(next) THEN "no_frame" ELSE fault
      BY <2>4, <2>6 DEF SwitchTo
    <3>2. fault' \in Faults /\ (Up' => ~NeverStarted(next))
          /\ (fault # "reschedule_loop" => fault' # "reschedule_loop")
      BY <3>1 DEF TypeOK, Faults, Up
    <3>3. cpu' \in ToSet(q) /\ ~w[cpu'] /\ cpu' # cpu
          /\ mapped' = pid[cpu'] /\ esp0' = cpu'
      BY <2>2, <2>3, <2>6, <3>1
    <3> QED  BY <2>2, <2>3, <2>4, <3>1, <3>2, <3>3 DEF TypeOK, Listed
  <2> QED  BY <2>5, <2>6
<1> QED  BY <1>2, <1>3

(* A step that touches neither the queue, the family, the CPU nor init.    *)
LEMMA QuietCore ==
  ASSUME Core, UNCHANGED <<queue, parent, having_child_running, present, cpu,
                           pc, new>>
  PROVE  Core'
BY DEF Core, QueueOK, FamilyOK, Family, Grounded, RunnerOK, Starting, Listed,
       Unlisted, Building

(* A step of init that only moves on, without or with its new task         *)
LEMMA MovingCore ==
  ASSUME Core, UNCHANGED <<queue, parent, having_child_running, present, cpu>>,
         \/ pc \notin BuildPc \cup GoPc /\ pc' \notin BuildPc \cup GoPc
         \/ pc \in MakingPc /\ pc' \in MakingPc /\ new' = new
         \/ pc \in GoPc /\ pc' \in GoPc /\ new' = new
  PROVE  Core'
<1>1. UNCHANGED <<Listed, Unlisted>>
  BY PcFacts DEF Listed, Unlisted, Building
<1>2. Starting'
  BY <1>1, PcFacts DEF Core, Starting
<1> QED  BY <1>1, <1>2 DEF Core, QueueOK, FamilyOK, Family, Grounded, RunnerOK

LEMMA KeysAndMouse ==
  ASSUME IInv, Up, NEW t \in Term,
         KeyType \/ KeyFocus(t) \/ MouseFocus(t) \/ MousePlay
  PROVE  IInv'
<1> USE DEF pcbVars, pageVars, termVars, cpuVars, initVars, loopVars
<1>1. TypeOK'
  <2>1. CASE KeyType
    BY <2>1 DEF KeyType, IInv, TypeOK, Faults
  <2>2. CASE KeyFocus(t)
    BY <2>2 DEF KeyFocus, IInv, TypeOK
  <2>3. CASE MouseFocus(t)
    BY <2>3 DEF MouseFocus, IInv, TypeOK
  <2>4. CASE MousePlay
    BY <2>4 DEF MousePlay, IInv, TypeOK
  <2> QED  BY <2>1, <2>2, <2>3, <2>4
<1>2. UNCHANGED <<queue, parent, having_child_running, present, cpu, pc, new,
                  slot, reg>>
  BY DEF KeyType, KeyFocus, MouseFocus, MousePlay
<1>3. Locals' /\ RescheduleTerminates'
  BY <1>2 DEF IInv, Locals, RescheduleTerminates, Up, KeyType, KeyFocus,
              MouseFocus, MousePlay
<1>4. Core'
  BY <1>2, QuietCore DEF IInv
<1> QED  BY <1>1, <1>3, <1>4 DEF IInv

LEMMA TickChargeStep ==
  ASSUME IInv, TickCharge
  PROVE  IInv'
<1> USE DEF pageVars, termVars, cpuVars, initVars, loopVars
<1>1. Remaining(cpu) \in 0 .. Word - 1
  BY TimeFacts DEF IInv, TypeOK
<1>2. TypeOK'
  BY <1>1 DEF TickCharge, IInv, TypeOK
<1>3. UNCHANGED <<queue, parent, having_child_running, present, cpu, pc, new,
                  slot, reg, fault>>
  BY DEF TickCharge
<1>4. Locals' /\ RescheduleTerminates'
  BY <1>3 DEF IInv, Locals, RescheduleTerminates
<1>5. Core'
  BY <1>3, QuietCore DEF IInv, TickCharge
<1> QED  BY <1>2, <1>4, <1>5 DEF IInv

LEMMA TickTearsStep ==
  ASSUME IInv, TickTears
  PROVE  IInv'
<1> USE DEF pcbVars, pageVars, termVars, cpuVars, initVars, loopVars
<1>1. fault' = "torn_list" /\ ~Up' /\ IInv
  BY DEF TickTears, Up
<1>2. TypeOK'
  BY <1>1 DEF TickTears, IInv, TypeOK, Faults
<1>3. Locals' /\ RescheduleTerminates'
  BY <1>1 DEF TickTears, IInv, Locals, RescheduleTerminates
<1> QED  BY <1>1, <1>2, <1>3 DEF IInv

(* A preemption: the task on the CPU goes to the end of the queue.         *)
LEMMA TickPreemptStep ==
  ASSUME IInv, TickPreempt
  PROVE  IInv'
<1> USE DEF pcbVars, pageVars, termVars, cpuVars, initVars, loopVars
<1> DEFINE q == ToEnd(queue, cpu)
           w == having_child_running
<1>1. Up /\ TypeOK /\ Core /\ Locals /\ RescheduleTerminates
  BY DEF IInv, TickPreempt
<1>2. cpu \in ToSet(queue) /\ cpu \in Pcb /\ ~w[cpu]
  BY <1>1 DEF Core, RunnerOK, Listed, TypeOK
<1>3. q \in Seq(Pcb) /\ IsInjective(q) /\ ToSet(q) = Listed
  <2>1. /\ Unlinked(queue, cpu) \in Seq(Pcb)
        /\ IsInjective(Unlinked(queue, cpu))
        /\ ToSet(Unlinked(queue, cpu)) = ToSet(queue) \ {cpu}
    BY <1>1, <1>2, UnlinkedFacts DEF Core, QueueOK, TypeOK
  <2> HIDE DEF q
  <2>2. cpu \in Pcb /\ cpu \notin ToSet(Unlinked(queue, cpu))
    BY <1>2, <2>1
  <2>3. /\ Append(Unlinked(queue, cpu), cpu) \in Seq(Pcb)
        /\ IsInjective(Append(Unlinked(queue, cpu), cpu))
        /\ ToSet(Append(Unlinked(queue, cpu), cpu)) =
             ToSet(Unlinked(queue, cpu)) \cup {cpu}
    BY <2>1, <2>2, AppendFacts
  <2> QED  BY <1>2, <2>1, <2>3 DEF q, ToEnd, Listed
<1>4. /\ Reschedule(q, w, cpu)
      /\ time' = IF cpu \in IdlePcb THEN time
                 ELSE [time EXCEPT ![cpu] = Quantum(cpu)]
      /\ UNCHANGED <<n_present_pcb, present, parent, having_child_running,
                     own_terminal, terminal, pid, name, node, page_status,
                     n_page_in_use, valid, foreground_task, cur_task, pc,
                     slot, new, reg, acc, need_play, all_terminal_is_on>>
  BY DEF TickPreempt
<1>5. w \in [Pcb -> BOOLEAN]
  BY <1>1 DEF TypeOK
<1> HIDE DEF q
<1>6. /\ queue' \in Seq(Pcb) /\ IsInjective(queue') /\ Listed' = Listed
      /\ running_term' \in Term \cup {NullTerm}
      /\ mapped' \in Page \cup {NoPage}
      /\ cpu' \in Pcb /\ esp0' \in Pcb /\ fault' \in Faults
      /\ fault' # "reschedule_loop"
      /\ Up' => /\ cpu' \in Listed /\ ~w[cpu']
                /\ cpu' = cpu \/ ~NeverStarted(cpu')
  <2>1. \E p \in ToSet(q) : ~w[p]
    BY <1>2, <1>3 DEF Listed
  <2> QED  BY <1>1, <1>3, <1>4, <1>5, <2>1, RescheduleFacts
              DEF RescheduleTerminates
<1>7. TypeOK'
  <2>1. time' \in [Pcb -> 0 .. Word - 1]
    BY <1>1, <1>2, <1>4, TimeFacts DEF TypeOK
  <2> QED  BY <1>1, <1>4, <1>6, <2>1 DEF TypeOK
<1>8. Locals' /\ RescheduleTerminates'
  BY <1>1, <1>4, <1>6 DEF Locals, RescheduleTerminates
<1>9. ASSUME Up'  PROVE Core'
  <2>1. QueueOK'
    BY <1>1, <1>4, <1>6 DEF Core, QueueOK, Unlisted, Building
  <2>2. FamilyOK'
    BY <1>1, <1>4, <1>6 DEF Core, FamilyOK, Family, Grounded
  <2>3. RunnerOK'
    BY <1>4, <1>6, <1>9 DEF RunnerOK
  <2>4. Starting'
    BY <1>1, <1>4, <1>6, <1>9 DEF Core, Starting, NeverStarted
  <2> QED  BY <2>1, <2>2, <2>3, <2>4 DEF Core
<1> QED  BY <1>7, <1>8, <1>9 DEF IInv
-----------------------------------------------------------------------------
(* sys_execute with interrupts off, whoever calls it: init while it waits  *)
(* for nothing, or a user program while init is anywhere.                  *)
LEMMA SysExecuteStep ==
  ASSUME IInv, Up, NEW nm \in {"shell", "program"}, NEW ok \in BOOLEAN,
         SysExecute(nm, ok),
         pc' = pc \/ (pc = "play" /\ pc' = "played"),
         UNCHANGED <<slot, new, reg, acc, need_play, all_terminal_is_on>>
  PROVE  IInv'
<1> USE DEF pcbVars, pageVars, termVars, cpuVars
<1> DEFINE c == Min(FreePcbs)
           g == Min(FreePages)
           w == having_child_running
<1>1. TypeOK /\ Core /\ Locals /\ RescheduleTerminates
  BY DEF IInv
<1>2. Locals' /\ RescheduleTerminates' /\ fault' \in {fault, "no_node"}
  <2>1. Locals'
    BY <1>1, PcFacts, LoopPcFacts DEF Locals
  <2>2. fault' \in {fault, "no_node"}
    BY DEF SysExecute, NoPcbFound, ExecuteAs, ExecuteStarts, ExecuteFails,
           ExecuteFindsNoNode
  <2> QED  BY <1>1, <2>1, <2>2 DEF RescheduleTerminates
<1>3. pc' \in LoopPc \cup SpawnPc /\ Unlisted' = Unlisted /\ fault' \in Faults
  BY <1>1, <1>2, PcFacts, LoopPcFacts DEF TypeOK, Unlisted, Building, Faults
<1>4. CASE NoPcbLeft \/ FreePcbs = {}
  <2>1. NoPcbFound
    BY <1>4 DEF SysExecute
  <2>2. TypeOK'
    BY <1>1, <1>3, <2>1 DEF NoPcbFound, TypeOK
  <2>3. Starting'
    BY <1>1, <2>1, PcFacts, LoopPcFacts DEF NoPcbFound, Core, Starting, Listed
  <2>4. Core'
    BY <1>1, <1>3, <2>1, <2>3 DEF NoPcbFound, Core, QueueOK, FamilyOK, Family,
       Grounded, RunnerOK, Listed
  <2> QED  BY <1>2, <2>2, <2>4 DEF IInv
<1>5. CASE ~ (NoPcbLeft \/ FreePcbs = {})
  <2>1. c \in Pcb /\ ~ present[c]
    BY <1>5, FirstFree DEF FreePcbs
  <2> HIDE DEF c
  <2>2. ExecuteAs(c, nm, ok)
    BY <1>5 DEF SysExecute, c
  <2>3. c \notin Listed /\ c # cpu /\ c \notin Unlisted /\ cpu \in Listed
    BY <1>1, <2>1 DEF Core, QueueOK, RunnerOK, Unlisted, Building
  <2>4. /\ own_terminal' = [own_terminal EXCEPT ![c] = FALSE]
        /\ parent' = [parent EXCEPT ![c] = cpu]
        /\ name' = [name EXCEPT ![c] = nm]
        /\ terminal' = [terminal EXCEPT ![c] = terminal[cpu]]
    BY <2>2 DEF ExecuteAs, FillPcb
  <2>5. pc' \in AfterSetup => pc' = pc /\ new # c /\ new # cpu
    BY <1>1, <2>3, PcFacts, LoopPcFacts DEF Core, QueueOK, Starting, Unlisted, Building
  <2>6. Listed \in SUBSET Pcb /\ Nobody \notin Pcb
    BY <1>1, ConstantFacts DEF Core, QueueOK
  <2>7. CASE CanLoad(ok) /\ FreeNodes # {}
    <3>1. g \in Page /\ Min(FreeNodes) \in Node
      BY <2>7, FirstFree DEF CanLoad
    <3> HIDE DEF g
    <3>2. ExecuteStarts(c, g, nm)
      BY <2>2, <2>7 DEF ExecuteAs, g
    <3>3. /\ queue' \in Seq(Pcb) /\ IsInjective(queue')
          /\ Listed' = Listed \cup {c}
      BY <1>1, <2>1, <2>3, <3>2, AppendFacts
         DEF ExecuteStarts, TypeOK, Core, QueueOK, Listed
    <3>4. TypeOK'
      <4>1. /\ present' \in [Pcb -> BOOLEAN]
            /\ page_status' \in [Page -> BOOLEAN] /\ valid' \in [Term -> BOOLEAN]
        BY <1>1, <3>2 DEF ExecuteStarts, TypeOK
      <4>6. n_present_pcb' \in Int /\ n_page_in_use' \in Int
        BY <1>1, <3>2 DEF ExecuteStarts, TypeOK
      <4>5. own_terminal' \in [Pcb -> BOOLEAN]
        BY <1>1, <2>4 DEF TypeOK
      <4>4. w' \in [Pcb -> BOOLEAN]
        BY <1>1, <3>2 DEF ExecuteStarts, ChildWaitedFor, TypeOK
      <4>2. /\ parent' \in [Pcb -> Pcb \cup {Nobody}]
            /\ terminal' \in [Pcb -> Term \cup {NullTerm}]
            /\ pid' \in [Pcb -> Page \cup {NoPage}]
            /\ time' \in [Pcb -> 0 .. Word - 1]
            /\ name' \in [Pcb -> {"shell", "program", Unbooted}]
            /\ node' \in [Pcb -> Node \cup {NoNode}]
        BY <1>1, <2>4, <3>1, <3>2, ConstantFacts
           DEF ExecuteStarts, TypeOK, QuantumOf
      <4>3. /\ mapped' \in Page \cup {NoPage}
            /\ foreground_task' \in [Term -> Pcb \cup {Nobody}]
            /\ cur_task' \in Pcb \cup {Nobody}
            /\ running_term' \in Term \cup {NullTerm}
            /\ cpu' \in Pcb /\ esp0' \in Pcb
        BY <1>1, <2>1, <3>1, <3>2 DEF ExecuteStarts, TypeOK
      <4> QED  BY <1>1, <1>3, <3>3, <4>1, <4>2, <4>3, <4>4, <4>5, <4>6 DEF TypeOK
    <3>5. /\ w' = [w EXCEPT ![c] = FALSE, ![cpu] = TRUE] /\ cpu' = c
          /\ present' = [present EXCEPT ![c] = TRUE]
      BY <3>2 DEF ExecuteStarts, ChildWaitedFor
    <3>6. QueueOK'
      BY <1>1, <1>3, <2>1, <2>3, <3>3, <3>5 DEF Core, QueueOK, TypeOK
    <3>7. FamilyOK'
      <4>1. /\ parent'[c] = cpu /\ ~ w'[c] /\ w'[cpu]
            /\ \A p \in Listed : parent'[p] = parent[p]
            /\ \A p \in Listed \ {cpu} : w'[p] = w[p]
        BY <1>1, <2>1, <2>3, <2>4, <2>6, <3>5 DEF TypeOK
      <4>2. /\ Nobody \notin Listed /\ c \notin Listed /\ c # Nobody
            /\ cpu \in Listed /\ ~ w[cpu]
            /\ Family(Listed, parent, w, Nobody) /\ Grounded(Listed, parent)
        BY <1>1, <2>1, <2>3, <2>6 DEF Core, FamilyOK, RunnerOK
      <4>3. /\ Family(Listed \cup {c}, parent', w', Nobody)
            /\ Grounded(Listed \cup {c}, parent')
        BY <4>1, <4>2, FamilyCalls
      <4> QED  BY <3>3, <4>3 DEF FamilyOK
    <3>8. RunnerOK'
      BY <1>1, <2>1, <2>3, <3>3, <3>5 DEF RunnerOK, TypeOK
    <3>9. Starting'
      <4>1. new # c /\ new # cpu => parent'[new] = parent[new] /\ w'[new] = w[new]
        BY <1>1, <2>4, <3>5 DEF TypeOK
      <4>2. new' = new /\ Starting
        BY <1>1 DEF Core
      <4>3. CASE new # c /\ new # cpu
        <5>1. parent'[new'] = parent[new] /\ w'[new'] = w[new]
          BY <4>1, <4>2, <4>3
        <5> QED  BY <2>5, <3>3, <3>5, <4>2, <4>3, <5>1, PcFacts DEF Starting
      <4>4. CASE ~ (new # c /\ new # cpu)
        BY <2>5, <4>4, PcFacts DEF Starting
      <4> QED  BY <4>3, <4>4
    <3> QED  BY <1>2, <3>4, <3>6, <3>7, <3>8, <3>9 DEF IInv, Core
  <2>8. CASE ~ CanLoad(ok)
    <3>1. /\ w' = [w EXCEPT ![c] = FALSE]
          /\ UNCHANGED <<n_present_pcb, present, pid, time, queue, node, pageVars,
                         termVars, cpuVars>>
      BY <2>2, <2>8 DEF ExecuteAs, ExecuteFails
    <3>2. TypeOK'
      BY <1>1, <1>3, <2>4, <3>1 DEF TypeOK
    <3>3. QueueOK' /\ Listed' = Listed
      BY <1>1, <1>3, <3>1 DEF Core, QueueOK, Listed
    <3>4. \A p \in Listed : parent'[p] = parent[p] /\ w'[p] = w[p]
      BY <1>1, <2>3, <2>4, <2>6, <3>1 DEF TypeOK
    <3>5. FamilyOK'
      BY <1>1, <2>6, <3>3, <3>4, FamilyAgrees DEF Core, FamilyOK
    <3>6. RunnerOK'
      BY <1>1, <3>1, <3>3, <3>4 DEF Core, RunnerOK
    <3>7. Starting'
      <4>1. new # c => parent'[new] = parent[new] /\ w'[new] = w[new]
        BY <1>1, <2>4, <3>1 DEF TypeOK
      <4>2. new # c /\ ~having_child_running[new] /\ parent[new] = Nobody =>
              ~having_child_running'[new'] /\ parent'[new'] = Nobody
        BY <4>1
      <4>3. cpu' = cpu /\ Listed' = Listed /\ Starting
        BY <1>1, <3>1, <3>3 DEF Core
      <4> QED  BY <2>5, <4>2, <4>3, PcFacts DEF Starting
    <3> QED  BY <1>2, <3>2, <3>3, <3>5, <3>6, <3>7 DEF IInv, Core
  <2>9. CASE CanLoad(ok) /\ FreeNodes = {}
    <3>1. ExecuteFindsNoNode
      BY <2>2, <2>9 DEF ExecuteAs
    <3>2. TypeOK'
      BY <1>1, <1>3, <2>4, <3>1 DEF TypeOK, ExecuteFindsNoNode
    <3>3. ~ Up'
      BY <3>1 DEF Up, ExecuteFindsNoNode
    <3> QED  BY <1>2, <3>2, <3>3 DEF IInv
  <2> QED  BY <2>7, <2>8, <2>9
<1> QED  BY <1>4, <1>5

LEMMA ExecuteStep ==
  ASSUME IInv, NEW nm \in Command, NEW ok \in BOOLEAN, Execute(nm, ok)
  PROVE  IInv'
<1>1. nm \in {"shell", "program"}
  BY CommandAssumption
<1>2. Up /\ SysExecute(nm, ok) /\ pc' = pc
      /\ UNCHANGED <<slot, new, reg, acc, need_play, all_terminal_is_on>>
  BY DEF Execute, initVars, loopVars
<1> QED  BY <1>1, <1>2, SysExecuteStep

(* A leaf of the family that is on the CPU and is not init halts: what is  *)
(* left of the queue, and of init's new task.                              *)
LEMMA LeavingFacts ==
  ASSUME TypeOK, Core, cpu # InitTask
  PROVE  /\ Unlinked(queue, cpu) \in Seq(Pcb)
         /\ IsInjective(Unlinked(queue, cpu))
         /\ ToSet(Unlinked(queue, cpu)) = Listed \ {cpu}
         /\ cpu \in Pcb /\ cpu \in Listed /\ ~having_child_running[cpu]
         /\ InitTask \in Listed \ {cpu} /\ cpu \notin Unlisted
         /\ Listed \in SUBSET Pcb
         /\ pc \in AfterSetup => new # cpu
<1>1. cpu \in ToSet(queue) /\ cpu \in Listed /\ ~having_child_running[cpu]
  BY DEF Core, RunnerOK, Listed
<1>2. /\ Unlinked(queue, cpu) \in Seq(Pcb)
      /\ IsInjective(Unlinked(queue, cpu))
      /\ ToSet(Unlinked(queue, cpu)) = Listed \ {cpu}
  BY <1>1, UnlinkedFacts DEF Core, QueueOK, TypeOK, Listed
<1>3. cpu \notin Unlisted /\ InitTask \in Listed \ {cpu} /\ Listed \in SUBSET Pcb
  BY <1>1 DEF Core, QueueOK
<1>4. pc \in AfterSetup => new # cpu
  BY <1>3, PcFacts DEF Core, Starting, Unlisted, Building
<1> QED  BY <1>1, <1>2, <1>3, <1>4 DEF TypeOK

LEMMA FreedFacts ==
  ASSUME TypeOK, PcbAndPageFreed
  PROVE  /\ present' \in [Pcb -> BOOLEAN]
         /\ present' = [present EXCEPT ![cpu] = FALSE]
         /\ page_status' \in [Page -> BOOLEAN]
         /\ node' \in [Pcb -> Node \cup {NoNode}]
         /\ n_present_pcb' \in Int /\ n_page_in_use' \in Int
<1>1. present' \in [Pcb -> BOOLEAN] /\ page_status' \in [Page -> BOOLEAN]
      /\ node' \in [Pcb -> Node \cup {NoNode}]
  BY DEF TypeOK, PcbAndPageFreed
<1>2. n_present_pcb' \in Int /\ n_page_in_use' \in Int
  BY DEF TypeOK, PcbAndPageFreed
<1>3. present' = [present EXCEPT ![cpu] = FALSE]
  BY DEF PcbAndPageFreed
<1> QED  BY <1>1, <1>2, <1>3

LEMMA HaltRootStep ==
  ASSUME IInv, HaltRoot
  PROVE  IInv'
<1> USE DEF pcbVars, pageVars, termVars, cpuVars, initVars, loopVars
<1> DEFINE q == Unlinked(queue, cpu)
           w == having_child_running
           t == terminal[cpu]
           fg == [foreground_task EXCEPT ![t] = Nobody]
           other == AnotherTerminal(t, fg)
<1>1. Up /\ TypeOK /\ Core /\ Locals /\ RescheduleTerminates
      /\ cpu # InitTask /\ parent[cpu] = Nobody
      /\ UNCHANGED <<pc, slot, new, reg, acc, need_play, all_terminal_is_on>>
  BY DEF IInv, HaltRoot
<1>2. CASE cur_task = Nobody
  <2>1. /\ fault' = "null_showing_task"
        /\ UNCHANGED <<pcbVars, queue, node, pageVars, termVars, cpuVars>>
    BY <1>2 DEF HaltRoot
  <2>2. TypeOK'
    BY <1>1, <2>1 DEF TypeOK, Faults
  <2>3. Locals' /\ RescheduleTerminates' /\ ~ Up'
    BY <1>1, <2>1 DEF Locals, RescheduleTerminates, Up
  <2> QED  BY <2>2, <2>3 DEF IInv
<1>3. CASE cur_task # Nobody
  <2>1. /\ foreground_task' = fg
        /\ cur_task' = IF terminal[cur_task] = t /\ other # -1
                       THEN fg[other] ELSE cur_task
        /\ valid' = [valid EXCEPT ![t] = FALSE]
        /\ PcbAndPageFreed
        /\ Reschedule(q, w, cpu)
        /\ UNCHANGED <<parent, having_child_running, own_terminal, terminal,
                       pid, time, name>>
    BY <1>3 DEF HaltRoot, TerminalDeallocated
  <2>2. /\ q \in Seq(Pcb) /\ IsInjective(q) /\ ToSet(q) = Listed \ {cpu}
        /\ cpu \in Pcb /\ cpu \in Listed /\ ~w[cpu]
        /\ InitTask \in Listed \ {cpu} /\ cpu \notin Unlisted
        /\ Listed \in SUBSET Pcb
        /\ pc \in AfterSetup => new # cpu
    BY <1>1, LeavingFacts
  <2>3. w \in [Pcb -> BOOLEAN]
    BY <1>1 DEF TypeOK
  <2>4. /\ Family(Listed \ {cpu}, parent, w, Nobody)
        /\ Grounded(Listed \ {cpu}, parent)
    BY <1>1, <2>2, FamilyExits, ConstantFacts DEF Core, FamilyOK
  <2>5. \E p \in Listed \ {cpu} : ~w[p]
    BY <2>2, <2>4, FamilyLeaf, ConstantFacts
  <2> HIDE DEF q
  <2>6. /\ queue' \in Seq(Pcb) /\ IsInjective(queue')
        /\ Listed' = Listed \ {cpu}
        /\ running_term' \in Term \cup {NullTerm}
        /\ mapped' \in Page \cup {NoPage}
        /\ cpu' \in Pcb /\ esp0' \in Pcb /\ fault' \in Faults
        /\ fault' # "reschedule_loop"
        /\ Up' => /\ cpu' \in Listed \ {cpu} /\ ~w[cpu']
                  /\ cpu' = cpu \/ ~NeverStarted(cpu')
    BY <1>1, <2>1, <2>2, <2>3, <2>5, RescheduleFacts DEF RescheduleTerminates
  <2>7. /\ present' \in [Pcb -> BOOLEAN]
        /\ present' = [present EXCEPT ![cpu] = FALSE]
        /\ page_status' \in [Page -> BOOLEAN]
        /\ node' \in [Pcb -> Node \cup {NoNode}]
        /\ n_present_pcb' \in Int /\ n_page_in_use' \in Int
    BY <1>1, <2>1, FreedFacts
  <2>8. TypeOK'
    <3>1. valid' \in [Term -> BOOLEAN]
      BY <1>1, <2>1 DEF TypeOK
    <3>2. foreground_task' \in [Term -> Pcb \cup {Nobody}]
      BY <1>1, <2>1 DEF TypeOK
    <3>3. cur_task' \in Pcb \cup {Nobody}
      <4>1. t \in Term \cup {NullTerm}
        BY <1>1, <2>2 DEF TypeOK
      <4>2. other # -1 => other \in Term
        BY <4>1 DEF AnotherTerminal, NullTerm
      <4> HIDE DEF other, fg
      <4> QED  BY <1>1, <2>1, <3>2, <4>2 DEF TypeOK
    <3> QED  BY <1>1, <2>1, <2>6, <2>7, <3>1, <3>2, <3>3 DEF TypeOK
  <2>9. Locals' /\ RescheduleTerminates'
    BY <1>1, <2>6 DEF Locals, RescheduleTerminates
  <2>10. ASSUME Up'  PROVE Core'
    <3>1. Unlisted' = Unlisted
      BY <1>1 DEF Unlisted, Building
    <3>2. QueueOK'
      BY <1>1, <2>2, <2>6, <2>7, <3>1 DEF Core, QueueOK, TypeOK
    <3>3. FamilyOK'
      BY <2>1, <2>4, <2>6 DEF FamilyOK, Family, Grounded
    <3>4. RunnerOK'
      BY <2>1, <2>6, <2>10 DEF RunnerOK
    <3>5. Starting'
      BY <1>1, <2>1, <2>2, <2>6, <2>10, PcFacts DEF Core, Starting, NeverStarted
    <3> QED  BY <3>2, <3>3, <3>4, <3>5 DEF Core
  <2> QED  BY <2>8, <2>9, <2>10 DEF IInv
<1> QED  BY <1>2, <1>3

LEMMA HaltChildStep ==
  ASSUME IInv, HaltChild
  PROVE  IInv'
<1> USE DEF pcbVars, pageVars, termVars, cpuVars, initVars, loopVars
<1> DEFINE q == Unlinked(queue, cpu)
           w == having_child_running
           par == parent[cpu]
           t == terminal[par]
           shown == IF t = NullTerm /\ OobIsShowing THEN par ELSE cur_task
<1>1. Up /\ TypeOK /\ Core /\ Locals /\ RescheduleTerminates
      /\ cpu # InitTask /\ par # Nobody
      /\ UNCHANGED <<pc, slot, new, reg, acc, need_play, all_terminal_is_on>>
  BY DEF IInv, HaltChild
<1>2. CASE shown = Nobody
  <2>1. /\ fault' = "null_showing_task"
        /\ UNCHANGED <<pcbVars, queue, node, pageVars, termVars, cpuVars>>
    BY <1>2 DEF HaltChild
  <2>2. TypeOK'
    BY <1>1, <2>1 DEF TypeOK, Faults
  <2>3. Locals' /\ RescheduleTerminates' /\ ~ Up'
    BY <1>1, <2>1 DEF Locals, RescheduleTerminates, Up
  <2> QED  BY <2>2, <2>3 DEF IInv
<1>3. CASE shown # Nobody
  <2>1. /\ w' = [w EXCEPT ![par] = FALSE]
        /\ time' = [time EXCEPT ![par] = Quantum(par)]
        /\ foreground_task' = TakenOver(t, par)
        /\ cur_task' = IF terminal[shown] = t THEN par ELSE shown
        /\ PcbAndPageFreed
        /\ mapped' = IF page_status[pid[cpu]] THEN pid[par] ELSE mapped
        /\ queue' = q /\ running_term' = t /\ esp0' = par /\ cpu' = par
        /\ UNCHANGED <<parent, own_terminal, terminal, pid, name, valid, fault>>
    BY <1>3 DEF HaltChild, WaitOver
  <2>2. /\ q \in Seq(Pcb) /\ IsInjective(q) /\ ToSet(q) = Listed \ {cpu}
        /\ cpu \in Pcb /\ cpu \in Listed /\ ~w[cpu]
        /\ InitTask \in Listed \ {cpu} /\ cpu \notin Unlisted
        /\ Listed \in SUBSET Pcb
        /\ pc \in AfterSetup => new # cpu
    BY <1>1, LeavingFacts
  <2>3. par \in Pcb /\ t \in Term \cup {NullTerm}
        /\ shown \in Pcb
    BY <1>1, <1>3, <2>2 DEF TypeOK
  <2> HIDE DEF q
  <2>4. \A p \in Pcb \ {par} : w'[p] = w[p]
    BY <1>1, <2>1 DEF TypeOK
  <2>5. ~ w'[par]
    BY <1>1, <2>1, <2>3 DEF TypeOK
  <2>6. /\ par \in Listed \ {cpu} /\ w[par]
        /\ Family(Listed \ {cpu}, parent, w', Nobody)
        /\ Grounded(Listed \ {cpu}, parent)
    <3>1. \A p \in Listed \ {par} : w'[p] = w[p]
      BY <2>2, <2>4
    <3>2. Family(Listed, parent, w, Nobody) /\ Grounded(Listed, parent)
      BY <1>1 DEF Core, FamilyOK
    <3>3. Nobody \notin Listed /\ cpu \in Listed /\ ~ w[cpu] /\ par # Nobody
      BY <1>1, <2>2, ConstantFacts
    <3> QED  BY <2>5, <3>1, <3>2, <3>3, FamilyReturns
  <2>7. /\ present' \in [Pcb -> BOOLEAN]
        /\ present' = [present EXCEPT ![cpu] = FALSE]
        /\ page_status' \in [Page -> BOOLEAN]
        /\ node' \in [Pcb -> Node \cup {NoNode}]
        /\ n_present_pcb' \in Int /\ n_page_in_use' \in Int
    BY <1>1, <2>1, FreedFacts
  <2>8. Listed' = Listed \ {cpu}
    BY <2>1, <2>2 DEF Listed
  <2> HIDE DEF par, t, shown
  <2>9. TypeOK'
    <3>1. w' \in [Pcb -> BOOLEAN]
      BY <1>1, <2>1 DEF TypeOK
    <3>2. time' \in [Pcb -> 0 .. Word - 1]
      BY <1>1, <2>1, <2>3, TimeFacts DEF TypeOK
    <3>3. foreground_task' \in [Term -> Pcb \cup {Nobody}]
      BY <1>1, <2>1, <2>3 DEF TypeOK, TakenOver
    <3>4. /\ cur_task' \in Pcb \cup {Nobody}
          /\ mapped' \in Page \cup {NoPage}
      BY <1>1, <2>1, <2>3 DEF TypeOK
    <3> QED  BY <1>1, <2>1, <2>2, <2>3, <2>7, <3>1, <3>2, <3>3, <3>4 DEF TypeOK
  <2>10. Locals' /\ RescheduleTerminates'
    BY <1>1, <2>1 DEF Locals, RescheduleTerminates
  <2>11. QueueOK'
    <3>1. Unlisted' = Unlisted
      BY <1>1 DEF Unlisted, Building
    <3> QED  BY <1>1, <2>1, <2>2, <2>7, <2>8, <3>1 DEF Core, QueueOK, TypeOK
  <2>12. FamilyOK'
    BY <2>1, <2>6, <2>8 DEF FamilyOK, Family, Grounded
  <2>13. RunnerOK'
    BY <2>1, <2>5, <2>6, <2>8 DEF RunnerOK
  <2>14. Starting'
    <3>1. new \in Pcb /\ new' = new /\ pc' = pc /\ Starting
      BY <1>1 DEF TypeOK, Core
    <3>2. ~ w[new] => new # par /\ ~ w'[new']
      BY <2>4, <2>6, <3>1
    <3> QED  BY <2>1, <2>2, <2>8, <3>1, <3>2, PcFacts DEF Starting
  <2> QED  BY <2>9, <2>10, <2>11, <2>12, <2>13, <2>14 DEF IInv, Core
<1> QED  BY <1>2, <1>3
-----------------------------------------------------------------------------
(* The steps of init. Most of them only move its program counter or touch  *)
(* what the queue and the family do not depend on.                         *)
LEMMA LoopSteps ==
  ASSUME IInv, InitBoot \/ InitPlayed \/ InitScan
  PROVE  IInv'
<1> USE DEF pcbVars, pageVars, termVars, cpuVars
<1>1. Up /\ TypeOK /\ Core /\ Locals /\ RescheduleTerminates
  BY DEF IInv, InitBoot, InitPlayed, InitScan
<1>2. UNCHANGED <<queue, node, parent, having_child_running, present, cpu, new,
                  reg, acc, fault>>
  BY DEF InitBoot, InitPlayed, InitScan
<1>3. pc \in LoopPc /\ pc' \in {"limit", "play", "scan"}
  BY <1>1 DEF InitBoot, InitPlayed, InitScan, TypeOK, LoopPc
<1>4. slot' \in 0 .. NTerm /\ (pc' = "limit" => slot' < NTerm)
  <2>1. slot \in 0 .. NTerm /\ NTerm \in Nat \ {0}
        /\ \A a \in Int : a % NTerm \in 0 .. NTerm - 1
    BY <1>1, ConstantFacts DEF TypeOK
  <2>2. CASE InitBoot
    BY <2>1, <2>2 DEF InitBoot
  <2>3. CASE InitPlayed
    BY <2>1, <2>3 DEF InitPlayed
  <2>4. CASE InitScan
    BY <2>1, <2>4 DEF InitScan
  <2> QED  BY <2>2, <2>3, <2>4
<1>5. pc' = "limit" \/ pc' \in LoopPc
  BY <1>3 DEF LoopPc
<1>6. TypeOK'
  <2>1. need_play' \in BOOLEAN /\ all_terminal_is_on' \in BOOLEAN
    BY <1>1 DEF InitBoot, InitPlayed, InitScan, TypeOK
  <2>2. UNCHANGED <<pcbVars, queue, pageVars, termVars, cpuVars>>
    BY DEF InitBoot, InitPlayed, InitScan
  <2>3. pc' \in LoopPc \cup SpawnPc
    BY <1>5 DEF SpawnPc, CountPc
  <2> QED  BY <1>1, <1>2, <1>4, <2>1, <2>2, <2>3 DEF TypeOK
<1>7. /\ pc \notin BuildPc \cup GoPc /\ pc' \notin BuildPc \cup GoPc
      /\ pc' \in SpawnPc => pc' = "limit"
  BY <1>3, <1>5, PcFacts DEF CountPc
<1>8. Locals' /\ RescheduleTerminates'
  BY <1>1, <1>2, <1>4, <1>7, PcFacts DEF Locals, RescheduleTerminates
<1>9. Core'
  BY <1>1, <1>2, <1>7, MovingCore
<1> QED  BY <1>6, <1>8, <1>9 DEF IInv

LEMMA InitPlayStep ==
  ASSUME IInv, NEW ok \in BOOLEAN, InitPlay(ok)
  PROVE  IInv'
<1> USE DEF pcbVars, pageVars, termVars, cpuVars
<1>1. Up /\ pc = "play"
      /\ UNCHANGED <<slot, new, reg, acc, need_play, all_terminal_is_on>>
  BY DEF InitPlay
<1>2. CASE need_play
  <2>1. SysExecute("program", ok) /\ pc' = "played"
    BY <1>2 DEF InitPlay
  <2> QED  BY <1>1, <2>1, SysExecuteStep
<1>3. CASE ~ need_play
  <2>1. /\ pc' = "scan"
        /\ UNCHANGED <<pcbVars, queue, node, pageVars, termVars, cpuVars, fault>>
    BY <1>3 DEF InitPlay
  <2>2. pc \in LoopPc /\ pc' \in LoopPc
    BY <1>1, <2>1 DEF LoopPc
  <2>3. TypeOK'
    BY <1>1, <2>1, <2>2 DEF IInv, TypeOK
  <2>4. Locals' /\ RescheduleTerminates'
    BY <1>1, <2>1, <2>2, PcFacts DEF IInv, Locals, RescheduleTerminates
  <2>5. Core'
    BY <1>1, <2>1, <2>2, PcFacts, MovingCore DEF IInv
  <2> QED  BY <2>3, <2>4, <2>5 DEF IInv
<1> QED  BY <1>2, <1>3

(* Back in the loop: the locals of sys_execute are dead.                   *)
LEMMA ReturnFacts ==
  ASSUME TypeOK, Locals, pc \in SpawnPc, SpawnReturns
  PROVE  /\ pc' \in {"scan", "boot"} /\ slot' \in 0 .. NTerm
         /\ new' \in Pcb /\ reg' \in Int /\ acc' \in Int
         /\ pc' \in LoopPc /\ pc' \notin SpawnPc
<1>1. slot \in 0 .. NTerm /\ slot < NTerm /\ NTerm \in Nat
  BY ConstantFacts DEF TypeOK, Locals
<1>2. pc' \in {"scan", "boot"} /\ pc' \in LoopPc /\ pc' \notin SpawnPc
  BY PcFacts, LoopPcFacts DEF SpawnReturns
<1> QED  BY <1>1, <1>2, ConstantFacts DEF SpawnReturns, TypeOK

(* create_process up to the PCB it finds                                   *)
LEMMA CreateSteps ==
  ASSUME IInv, SpawnLimit \/ SpawnLoadCount \/ SpawnStoreCount \/ SpawnFindPcb
  PROVE  IInv'
<1> USE DEF pageVars, termVars, cpuVars, loopVars, SpawnAt, SpawnGoes,
            SpawnTakes, SpawnLoads
<1>1. Up /\ TypeOK /\ Core /\ Locals /\ RescheduleTerminates
  BY DEF IInv, SpawnLimit, SpawnLoadCount, SpawnStoreCount, SpawnFindPcb
<1>2. pc \in CountPc /\ pc \in SpawnPc
  <2>1. pc \in CountPc
    BY DEF SpawnLimit, SpawnLoadCount, SpawnStoreCount, SpawnFindPcb, CountPc
  <2> QED  BY <2>1, PcFacts
<1>3. /\ pc' \in LoopPc \cup CountPc
      /\ slot' \in 0 .. NTerm /\ new' \in Pcb /\ reg' \in Int /\ acc' \in Int
      /\ (pc' \in SpawnPc => slot' = slot)
  <2>1. CASE SpawnReturns
    BY <1>1, <1>2, <2>1, ReturnFacts
  <2>2. CASE ~ SpawnReturns
    <3>1. pc' \in {"load_n", "store_n", "find", "mark"} /\ slot' = slot
      BY <2>2 DEF SpawnLimit, SpawnLoadCount, SpawnStoreCount, SpawnFindPcb
    <3>2. new' \in Pcb /\ reg' \in Int /\ acc' \in Int
      <4>1. CASE SpawnLimit \/ SpawnLoadCount \/ SpawnStoreCount
        BY <1>1, <2>2, <4>1 DEF TypeOK, SpawnLimit, SpawnLoadCount,
           SpawnStoreCount
      <4>2. CASE SpawnFindPcb
        BY <1>1, <2>2, <4>2 DEF TypeOK, SpawnFindPcb
      <4> QED  BY <4>1, <4>2
    <3>3. pc' \in CountPc
      BY <3>1 DEF CountPc
    <3> QED  BY <1>1, <3>1, <3>2, <3>3 DEF TypeOK
  <2> QED  BY <2>1, <2>2
<1>4. /\ UNCHANGED <<present, parent, having_child_running, own_terminal,
                     terminal, pid, time, name, queue, node, pageVars, termVars,
                     cpuVars, loopVars>>
      /\ n_present_pcb' \in Int
      /\ fault' \in {fault, "lost_count"}
  BY <1>1 DEF SpawnLimit, SpawnLoadCount, SpawnStoreCount, SpawnFindPcb,
     TypeOK, pcbVars
<1>5. TypeOK'
  <2>1. pc' \in LoopPc \cup SpawnPc
    BY <1>3, PcFacts
  <2>2. fault' \in Faults
    BY <1>1, <1>4 DEF Faults, TypeOK
  <2> QED  BY <1>1, <1>3, <1>4, <2>1, <2>2 DEF TypeOK
<1>6. Locals' /\ RescheduleTerminates'
  BY <1>1, <1>2, <1>3, <1>4, PcFacts DEF Locals, RescheduleTerminates
<1>7. Core'
  BY <1>1, <1>2, <1>3, <1>4, PcFacts, MovingCore
<1> QED  BY <1>5, <1>6, <1>7 DEF IInv

(* The PCB is marked: from here on it is present and not listed.           *)
LEMMA SpawnMarkPcbStep ==
  ASSUME IInv, SpawnMarkPcb
  PROVE  IInv'
<1> USE DEF pageVars, termVars, cpuVars, loopVars, SpawnAt, SpawnGoes
<1>1. Up /\ TypeOK /\ Core /\ Locals /\ RescheduleTerminates /\ pc = "mark"
  BY DEF IInv, SpawnMarkPcb
<1>2. /\ pc' = "setup" /\ present' = [present EXCEPT ![new] = TRUE]
      /\ fault' = IF present[new] THEN "shared_pcb" ELSE fault
      /\ UNCHANGED <<slot, new, reg, acc, n_present_pcb, parent,
                     having_child_running, own_terminal, terminal, pid, time,
                     name, queue, node, pageVars, termVars, cpuVars, loopVars>>
  BY DEF SpawnMarkPcb
<1> "mark" \in CountPc /\ "setup" \in BuildPc /\ "setup" \notin MakingPc
  BY DEF CountPc, BuildPc, MakingPc
<1>3. TypeOK'
  <2>1. present' \in [Pcb -> BOOLEAN]
    BY <1>1, <1>2 DEF TypeOK
  <2>2. pc' \in LoopPc \cup SpawnPc /\ fault' \in Faults
    BY <1>1, <1>2, PcFacts DEF Faults, TypeOK
  <2> QED  BY <1>1, <1>2, <2>1, <2>2 DEF TypeOK
<1>4. Locals' /\ RescheduleTerminates'
  BY <1>1, <1>2, PcFacts DEF Locals, RescheduleTerminates
<1>5. ASSUME Up'  PROVE Core'
  <2>1. ~ present[new] /\ new \in Pcb
    BY <1>1, <1>2, <1>5 DEF Up, TypeOK
  <2>2. Listed' = Listed /\ Unlisted = {} /\ Unlisted' = {new}
    BY <1>1, <1>2, PcFacts DEF Listed, Unlisted, Building
  <2>3. QueueOK'
    BY <1>1, <1>2, <2>1, <2>2 DEF Core, QueueOK, TypeOK
  <2>4. FamilyOK' /\ RunnerOK' /\ Starting'
    BY <1>1, <1>2, <2>2, PcFacts DEF Core, FamilyOK, Family, Grounded, RunnerOK, Starting
  <2> QED  BY <2>3, <2>4 DEF Core
<1> QED  BY <1>3, <1>4, <1>5 DEF IInv

(* Its fields are set: nobody waits for the new task.                      *)
LEMMA SpawnSetupStep ==
  ASSUME IInv, SpawnSetup
  PROVE  IInv'
<1> USE DEF pageVars, termVars, cpuVars, loopVars, SpawnAt, SpawnGoes
<1> DEFINE w == having_child_running
<1>1. Up /\ TypeOK /\ Core /\ Locals /\ RescheduleTerminates /\ pc = "setup"
  BY DEF IInv, SpawnSetup
<1>2. /\ pc' = "term" /\ w' = [w EXCEPT ![new] = FALSE]
      /\ own_terminal' = [own_terminal EXCEPT ![new] = FALSE]
      /\ parent' = [parent EXCEPT ![new] = Nobody]
      /\ name' = [name EXCEPT ![new] = "shell"]
      /\ UNCHANGED <<slot, new, reg, acc, n_present_pcb, present, terminal, pid,
                     time, queue, node, pageVars, termVars, cpuVars, loopVars,
                     fault>>
  BY DEF SpawnSetup
<1>3. /\ pc \in BuildPc /\ pc' \in BuildPc /\ pc' \in MakingPc
      /\ pc' \notin ChosenPc /\ pc' # "take"
  BY <1>1, <1>2 DEF BuildPc, MakingPc, ChosenPc
<1>4. TypeOK'
  <2>1. w' \in [Pcb -> BOOLEAN] /\ own_terminal' \in [Pcb -> BOOLEAN]
    BY <1>1, <1>2 DEF TypeOK
  <2>2. /\ parent' \in [Pcb -> Pcb \cup {Nobody}]
        /\ name' \in [Pcb -> {"shell", "program", Unbooted}]
    BY <1>1, <1>2 DEF TypeOK
  <2>3. pc' \in LoopPc \cup SpawnPc
    BY <1>3, PcFacts
  <2> QED  BY <1>1, <1>2, <2>1, <2>2, <2>3 DEF TypeOK
<1>5. Locals' /\ RescheduleTerminates'
  BY <1>1, <1>2, <1>3, PcFacts DEF Locals, RescheduleTerminates
<1>6. Listed' = Listed /\ Unlisted = {new} /\ Unlisted' = {new}
  BY <1>1, <1>2, <1>3 DEF Listed, Unlisted, Building
<1>7. new \in Pcb /\ new \notin Listed /\ Listed \in SUBSET Pcb
  BY <1>1, <1>6 DEF Core, QueueOK, TypeOK
<1>8. \A p \in Listed : parent'[p] = parent[p] /\ w'[p] = w[p]
  BY <1>1, <1>2, <1>7 DEF TypeOK
<1>9. QueueOK'
  BY <1>1, <1>2, <1>6 DEF Core, QueueOK
<1>10. FamilyOK'
  <2>1. /\ Family(Listed, parent, w, Nobody) /\ Grounded(Listed, parent)
        /\ Nobody \notin Listed
    BY <1>1, <1>7, ConstantFacts DEF Core, FamilyOK
  <2>2. Family(Listed, parent', w', Nobody) /\ Grounded(Listed, parent')
    BY <1>8, <2>1, FamilyAgrees
  <2> QED  BY <1>6, <2>2 DEF FamilyOK
<1>11. RunnerOK'
  BY <1>1, <1>2, <1>6, <1>8 DEF Core, RunnerOK
<1>12. Starting'
  <2>1. ~ w'[new] /\ parent'[new] = Nobody
    BY <1>1, <1>2, <1>7 DEF TypeOK
  <2> QED  BY <1>2, <1>3, <2>1, PcFacts DEF Starting
<1> QED  BY <1>4, <1>5, <1>9, <1>10, <1>11, <1>12 DEF IInv, Core

(* A page that can be had, or none, and the PCB is given back              *)
LEMMA SpawnChoosePageStep ==
  ASSUME IInv, SpawnChoosePage
  PROVE  IInv'
<1> USE DEF termVars, cpuVars, loopVars, pageVars, SpawnAt, SpawnTakes, SpawnGoes
<1>1. Up /\ TypeOK /\ Core /\ Locals /\ RescheduleTerminates /\ pc = "choose"
  BY DEF IInv, SpawnChoosePage
<1>2. UNCHANGED <<parent, having_child_running, own_terminal, terminal, pid,
                  time, name, queue, node, pageVars, termVars, cpuVars,
                  loopVars, fault>>
  BY <1>1 DEF SpawnChoosePage
<1>3. pc \in MakingPc /\ pc \in BuildPc /\ pc \in SpawnPc
  BY <1>1 DEF MakingPc, BuildPc, SpawnPc, PagePc
<1>4. Listed' = Listed /\ Unlisted = {new} /\ new \notin Listed /\ new \in Pcb
  BY <1>1, <1>2, <1>3 DEF Listed, Unlisted, Building, Core, QueueOK, TypeOK
<1>5. CASE reg # NPcb
  <2>1. /\ \/ pc' = "choose" /\ reg' = reg + 1
           \/ pc' = "map" /\ reg' = reg /\ reg \in Page
        /\ UNCHANGED <<slot, new, acc, present, n_present_pcb>>
    BY <1>5 DEF SpawnChoosePage
  <2>2. /\ pc' \in MakingPc /\ pc' \in BuildPc /\ pc' # "take"
        /\ pc' \in ChosenPc => pc' = "map"
    BY <2>1 DEF MakingPc, BuildPc, PagePc, ChosenPc
  <2>3. TypeOK'
    BY <1>1, <1>2, <2>1, <2>2, PcFacts DEF TypeOK
  <2>4. Locals' /\ RescheduleTerminates'
    BY <1>1, <1>2, <1>3, <2>1, <2>2 DEF Locals, RescheduleTerminates
  <2>5. Core'
    BY <1>1, <1>2, <1>3, <2>1, <2>2, MovingCore
  <2> QED  BY <2>3, <2>4, <2>5 DEF IInv
<1>6. CASE reg = NPcb
  <2> reg \notin Page
    BY <1>6, PcbAssumption DEF Page
  <2>1. /\ SpawnReturns /\ present' = [present EXCEPT ![new] = FALSE]
        /\ n_present_pcb' = n_present_pcb - 1
    BY <1>6 DEF SpawnChoosePage
  <2>2. /\ pc' \in LoopPc /\ pc' \notin SpawnPc /\ slot' \in 0 .. NTerm
        /\ new' \in Pcb /\ reg' \in Int /\ acc' \in Int
    BY <1>1, <1>3, <2>1, ReturnFacts
  <2>3. TypeOK'
    <3>1. present' \in [Pcb -> BOOLEAN]
      BY <1>1, <2>1 DEF TypeOK
    <3>2. n_present_pcb' \in Int
      BY <1>1, <2>1 DEF TypeOK
    <3> QED  BY <1>1, <1>2, <2>2, <3>1, <3>2 DEF TypeOK
  <2>4. Locals' /\ RescheduleTerminates'
    BY <1>1, <1>2, <2>2, PcFacts DEF Locals, RescheduleTerminates
  <2>5. Unlisted' = {}
    BY <2>2, PcFacts DEF Unlisted, Building
  <2>6. QueueOK'
    BY <1>1, <1>2, <1>4, <2>1, <2>5 DEF Core, QueueOK, TypeOK
  <2>7. FamilyOK' /\ RunnerOK' /\ Starting'
    BY <1>1, <1>2, <1>4, <2>2, PcFacts DEF Core, FamilyOK, Family, Grounded,
       RunnerOK, Starting
  <2> QED  BY <2>3, <2>4, <2>6, <2>7 DEF IInv, Core
<1> QED  BY <1>5, <1>6

(* The rest of what init does to its task before it joins the list moves   *)
(* nothing but terminals, pages and nodes.                                 *)
MakeTerm == SpawnAllocate
MakePage == SpawnResetPages \/ SpawnMapPage \/ SpawnLoadPages
            \/ SpawnStorePages \/ SpawnMarkPage \/ SpawnSetPid
MakeShow == SpawnFocus \/ SpawnShow \/ SpawnAttach
MakeNode == SpawnFindNode \/ SpawnTakeNode \/ SpawnLoadLast \/ SpawnLinkLast
MakeStep == MakeTerm \/ MakePage \/ MakeShow \/ MakeNode

LEMMA MakeFrame ==
  ASSUME MakeStep
  PROVE  /\ Up /\ cpu = InitTask /\ pc \in MakingPc /\ pc' \in MakingPc
         /\ UNCHANGED <<slot, new, n_present_pcb, present, parent,
                        having_child_running, time, name, queue, cpuVars, loopVars>>
<1> USE DEF pcbVars, SpawnAt, SpawnGoes, SpawnTakes, SpawnLoads
<1>1. CASE MakeTerm
  <2>1. /\ Up /\ cpu = InitTask /\ pc = "term" /\ pc' \in {"term", "page"}
        /\ UNCHANGED <<slot, new, n_present_pcb, present, parent,
                       having_child_running, time, name, queue, cpuVars, loopVars>>
    BY <1>1 DEF MakeTerm, SpawnAllocate
  <2> QED  BY <2>1 DEF MakingPc, BuildPc, PagePc
<1>2. CASE MakePage
  <2>1. /\ Up /\ cpu = InitTask /\ pc \in PagePc /\ pc' \in PagePc \cup {"focus"}
        /\ UNCHANGED <<slot, new, n_present_pcb, present, parent,
                       having_child_running, time, name, queue, cpuVars, loopVars>>
    BY <1>2 DEF MakePage, SpawnResetPages, SpawnMapPage, SpawnLoadPages,
       SpawnStorePages, SpawnMarkPage, SpawnSetPid, PagePc
  <2> QED  BY <2>1 DEF MakingPc, BuildPc, PagePc, ShowPc
<1>3. CASE MakeShow
  <2>1. /\ Up /\ cpu = InitTask /\ pc \in ShowPc /\ pc' \in ShowPc \cup {"node"}
        /\ UNCHANGED <<slot, new, n_present_pcb, present, parent,
                       having_child_running, time, name, queue, cpuVars, loopVars>>
    BY <1>3 DEF MakeShow, SpawnFocus, SpawnShow, SpawnAttach, ShowPc
  <2> QED  BY <2>1 DEF MakingPc, BuildPc, ShowPc, ListPc
<1>4. CASE MakeNode
  <2>1. /\ Up /\ cpu = InitTask /\ pc \in ListPc /\ pc' \in ListPc
        /\ UNCHANGED <<slot, new, n_present_pcb, present, parent,
                       having_child_running, time, name, queue, cpuVars, loopVars>>
    BY <1>4 DEF MakeNode, SpawnFindNode, SpawnTakeNode, SpawnLoadLast,
       SpawnLinkLast, ListPc
  <2> QED  BY <2>1 DEF MakingPc, BuildPc, ListPc
<1> QED  BY <1>1, <1>2, <1>3, <1>4 DEF MakeStep

LEMMA MakeSteps ==
  ASSUME IInv, MakeStep
  PROVE  IInv'
<1> USE DEF pcbVars, pageVars, termVars, cpuVars, loopVars, SpawnAt,
            SpawnGoes, SpawnTakes, SpawnLoads
<1>1. Up /\ TypeOK /\ Core /\ Locals /\ RescheduleTerminates
  BY MakeFrame DEF IInv
<1>2. /\ pc \in MakingPc /\ pc' \in MakingPc
      /\ UNCHANGED <<slot, new, n_present_pcb, present, parent,
                     having_child_running, time, name, queue, cpuVars, loopVars>>
  BY MakeFrame
<1>3. /\ own_terminal' \in [Pcb -> BOOLEAN]
      /\ terminal' \in [Pcb -> Term \cup {NullTerm}]
      /\ pid' \in [Pcb -> Page \cup {NoPage}]
      /\ node' \in [Pcb -> Node \cup {NoNode}]
      /\ page_status' \in [Page -> BOOLEAN] /\ n_page_in_use' \in Int
      /\ mapped' \in Page \cup {NoPage}
      /\ valid' \in [Term -> BOOLEAN]
      /\ foreground_task' \in [Term -> Pcb \cup {Nobody}]
      /\ cur_task' \in Pcb \cup {Nobody}
      /\ running_term' \in Term \cup {NullTerm}
      /\ reg' \in Int /\ acc' \in Int
      /\ fault' \in Faults /\ fault' # "reschedule_loop"
      /\ pc' \in ChosenPc => reg' \in Page
      /\ pc' = "take" => reg' \in Node
  <2>1. CASE MakeTerm
    <3>1. pc' \notin ChosenPc /\ pc' # "take"
      BY <2>1 DEF MakeTerm, SpawnAllocate, ChosenPc
    <3>2. /\ own_terminal' \in [Pcb -> BOOLEAN] /\ valid' \in [Term -> BOOLEAN]
          /\ terminal' \in [Pcb -> Term \cup {NullTerm}]
      <4>1. CASE UNCHANGED <<own_terminal, valid, terminal>>
        BY <1>1, <4>1 DEF TypeOK
      <4>2. CASE /\ reg \in Term
                 /\ valid' = [valid EXCEPT ![reg] = TRUE]
                 /\ own_terminal' = [own_terminal EXCEPT ![new] = TRUE]
                 /\ terminal' = [terminal EXCEPT ![new] = reg]
        <5>1. own_terminal' \in [Pcb -> BOOLEAN] /\ valid' \in [Term -> BOOLEAN]
          BY <1>1, <4>2 DEF TypeOK
        <5>2. terminal' \in [Pcb -> Term \cup {NullTerm}]
          BY <1>1, <4>2 DEF TypeOK
        <5> QED  BY <5>1, <5>2
      <4> QED  BY <2>1, <4>1, <4>2 DEF MakeTerm, SpawnAllocate
    <3>3. /\ fault' \in {fault, "no_terminal"} /\ reg' \in Int /\ acc' = acc
          /\ UNCHANGED <<pid, node, page_status, n_page_in_use, mapped,
                         foreground_task, cur_task, running_term>>
      BY <1>1, <2>1 DEF MakeTerm, SpawnAllocate, TypeOK
    <3> QED  BY <1>1, <3>1, <3>2, <3>3 DEF TypeOK, Faults, RescheduleTerminates
  <2>2. CASE MakePage
    <3>1. /\ pc \in ChosenPc => reg \in Page
          /\ pc' # "take" /\ (pc' \in ChosenPc => pc \in ChosenPc /\ reg' = reg)
          /\ fault' \in {fault, "lost_pages", "shared_page"}
          /\ reg' \in {reg, 0} /\ acc' \in {acc, n_page_in_use, 0}
          /\ UNCHANGED <<own_terminal, terminal, node, valid, foreground_task,
                         cur_task, running_term>>
      BY <1>1, <2>2 DEF MakePage, SpawnResetPages, SpawnMapPage, SpawnLoadPages,
         SpawnStorePages, SpawnMarkPage, SpawnSetPid, Locals, ChosenPc
    <3>2. /\ mapped' \in Page \cup {NoPage} /\ pid' \in [Pcb -> Page \cup {NoPage}]
          /\ page_status' \in [Page -> BOOLEAN] /\ n_page_in_use' \in Int
      <4>1. CASE SpawnMapPage
        BY <1>1, <3>1, <4>1 DEF SpawnMapPage, TypeOK, ChosenPc
      <4>2. CASE SpawnSetPid
        BY <1>1, <3>1, <4>2 DEF SpawnSetPid, TypeOK, ChosenPc
      <4>3. CASE SpawnResetPages
        BY <1>1, <4>3 DEF SpawnResetPages, TypeOK
      <4>4. CASE SpawnLoadPages \/ SpawnStorePages
        BY <1>1, <4>4 DEF SpawnLoadPages, SpawnStorePages, TypeOK
      <4>5. CASE SpawnMarkPage
        BY <1>1, <4>5 DEF SpawnMarkPage, TypeOK
      <4> QED  BY <2>2, <4>1, <4>2, <4>3, <4>4, <4>5 DEF MakePage
    <3> QED  BY <1>1, <3>1, <3>2 DEF TypeOK, Faults, RescheduleTerminates
  <2>3. CASE MakeShow
    <3>1. /\ pc' \notin ChosenPc /\ pc' # "take" /\ fault' = fault
          /\ reg' \in {reg, 1} /\ acc' = acc
          /\ UNCHANGED <<own_terminal, terminal, pid, node, valid, page_status,
                         n_page_in_use, mapped>>
      BY <2>3 DEF MakeShow, SpawnFocus, SpawnShow, SpawnAttach, ChosenPc
    <3>2. /\ foreground_task' \in [Term -> Pcb \cup {Nobody}]
          /\ cur_task' \in Pcb \cup {Nobody}
          /\ running_term' \in Term \cup {NullTerm}
      BY <1>1, <2>3 DEF MakeShow, SpawnFocus, SpawnShow, SpawnAttach, TypeOK
    <3> QED  BY <1>1, <3>1, <3>2 DEF TypeOK, RescheduleTerminates
  <2>4. CASE MakeNode
    <3>1. /\ pc' \notin ChosenPc /\ fault' \in {fault, "no_node", "shared_node", "torn_list"}
          /\ acc' = acc
          /\ UNCHANGED <<own_terminal, terminal, pid, valid, page_status,
                         n_page_in_use, mapped, foreground_task, cur_task,
                         running_term>>
      BY <2>4 DEF MakeNode, SpawnFindNode, SpawnTakeNode, SpawnLoadLast,
         SpawnLinkLast, ChosenPc
    <3>2. /\ node' \in [Pcb -> Node \cup {NoNode}]
          /\ pc' = "take" => reg' \in Node
      BY <1>1, <2>4 DEF MakeNode, SpawnFindNode, SpawnTakeNode, SpawnLoadLast,
         SpawnLinkLast, TypeOK, Locals, FreeNodes
    <3>3. reg' \in Int
      <4>1. CASE SpawnLoadLast
        <5>1. queue # <<>> /\ Last(queue) \in Pcb
          <6>1. InitTask \in ToSet(queue) /\ queue \in Seq(Pcb)
            BY <1>1 DEF Core, QueueOK, Listed, TypeOK
          <6>2. Len(queue) \in Nat /\ DOMAIN queue = 1 .. Len(queue)
            BY <6>1, LenProperties
          <6>3. Len(queue) \in 1 .. Len(queue)
            BY <6>1, <6>2 DEF ToSet
          <6> QED  BY <6>1, <6>2, <6>3, ElementOfSeq DEF Last
        <5> QED  BY <1>1, <4>1, <5>1, ConstantFacts
                 DEF SpawnLoadLast, TypeOK, NoNode
      <4>2. CASE ~SpawnLoadLast
        BY <1>1, <2>4, <4>2 DEF MakeNode, SpawnFindNode, SpawnTakeNode,
           SpawnLinkLast, TypeOK
      <4> QED  BY <4>1, <4>2
    <3> QED  BY <1>1, <3>1, <3>2, <3>3 DEF TypeOK, Faults, RescheduleTerminates
  <2> QED  BY <2>1, <2>2, <2>3, <2>4 DEF MakeStep
<1>4. TypeOK'
  BY <1>1, <1>2, <1>3, PcFacts DEF TypeOK
<1>5. Locals' /\ RescheduleTerminates'
  BY <1>1, <1>2, <1>3, PcFacts DEF Locals, RescheduleTerminates
<1>6. Core'
  BY <1>1, <1>2, MovingCore
<1> QED  BY <1>4, <1>5, <1>6 DEF IInv

(* add_task_to_list: the new task joins the queue and the family.          *)
LEMMA SpawnJoinStep ==
  ASSUME IInv, SpawnJoin
  PROVE  IInv'
<1> USE DEF pcbVars, pageVars, termVars, cpuVars, loopVars, SpawnAt, SpawnGoes
<1>1. Up /\ TypeOK /\ Core /\ Locals /\ RescheduleTerminates /\ pc = "join"
  BY DEF IInv, SpawnJoin
<1>2. /\ pc' = "arm" /\ queue' = Append(queue, new)
      /\ UNCHANGED <<slot, new, reg, acc, pcbVars, node, pageVars, termVars,
                     cpuVars, loopVars, fault>>
  BY DEF SpawnJoin
<1> /\ "join" \in MakingPc /\ "join" \in BuildPc /\ "join" \in SpawnPc
    /\ "arm" \in GoPc /\ "arm" \in SpawnPc /\ "arm" \notin MakingPc
    /\ "arm" \notin ChosenPc
  BY DEF MakingPc, BuildPc, ListPc, SpawnPc, GoPc, ChosenPc, PagePc, ShowPc
<1>3. Unlisted = {new} /\ Unlisted' = {}
  BY <1>1, <1>2, PcFacts DEF Unlisted, Building
<1>4. /\ new \in Pcb \ Listed /\ Listed \in SUBSET Pcb /\ cpu \in Listed
      /\ ~having_child_running[new] /\ parent[new] = Nobody
  BY <1>1, <1>3 DEF Core, QueueOK, TypeOK, Starting, RunnerOK
<1>5. /\ queue' \in Seq(Pcb) /\ IsInjective(queue')
      /\ Listed' = Listed \cup {new}
  BY <1>1, <1>2, <1>4, AppendFacts DEF Core, QueueOK, TypeOK, Listed
<1>6. TypeOK'
  BY <1>1, <1>2, <1>5 DEF TypeOK
<1>7. Locals' /\ RescheduleTerminates'
  BY <1>1, <1>2 DEF Locals, RescheduleTerminates
<1>8. QueueOK'
  BY <1>1, <1>2, <1>3, <1>4, <1>5 DEF Core, QueueOK
<1>9. FamilyOK'
  <2>1. /\ Family(Listed \cup {new}, parent, having_child_running, Nobody)
        /\ Grounded(Listed \cup {new}, parent)
    <3>1. Nobody \notin Listed /\ new \notin Listed /\ new # Nobody
      BY <1>4, ConstantFacts
    <3>2. /\ Family(Listed, parent, having_child_running, Nobody)
          /\ Grounded(Listed, parent)
      BY <1>1 DEF Core, FamilyOK
    <3> QED  BY <1>4, <3>1, <3>2, FamilyAdmits
  <2> QED  BY <1>2, <1>5, <2>1 DEF FamilyOK, Family, Grounded
<1>10. RunnerOK' /\ Starting'
  BY <1>1, <1>2, <1>4, <1>5 DEF Core, RunnerOK, Starting
<1> QED  BY <1>6, <1>7, <1>8, <1>9, <1>10 DEF IInv, Core

(* Its quantum, and the stack of its system calls                          *)
LEMMA GoSteps ==
  ASSUME IInv, SpawnArm \/ SpawnSetTss
  PROVE  IInv'
<1> USE DEF pageVars, termVars, cpuVars, loopVars, pcbVars, SpawnAt, SpawnGoes
<1>1. Up /\ TypeOK /\ Core /\ Locals /\ RescheduleTerminates
  BY DEF IInv, SpawnArm, SpawnSetTss
<1>2. /\ pc \in {"arm", "tss"} /\ pc' \in {"tss", "enter"}
      /\ UNCHANGED <<slot, new, reg, acc, n_present_pcb, present, parent,
                     having_child_running, own_terminal, terminal, pid, name,
                     queue, node, pageVars, termVars, cpu, loopVars, fault>>
  BY DEF SpawnArm, SpawnSetTss
<1>3. pc \in GoPc /\ pc' \in GoPc
  BY <1>2 DEF GoPc
<1>4. TypeOK'
  <2>1. time' \in [Pcb -> 0 .. Word - 1] /\ esp0' \in Pcb
    <3>1. CASE SpawnArm
      BY <1>1, <3>1, ConstantFacts DEF TypeOK, SpawnArm
    <3>2. CASE SpawnSetTss
      BY <1>1, <3>2 DEF TypeOK, SpawnSetTss
    <3> QED  BY <3>1, <3>2
  <2> QED  BY <1>1, <1>2, <1>3, <2>1, PcFacts DEF TypeOK
<1>5. Locals' /\ RescheduleTerminates'
  BY <1>1, <1>2, <1>3, PcFacts DEF Locals, RescheduleTerminates
<1>6. Core'
  BY <1>1, <1>2, <1>3, MovingCore
<1> QED  BY <1>4, <1>5, <1>6 DEF IInv

(* The shell gets the CPU.                                                 *)
LEMMA SpawnEnterStep ==
  ASSUME IInv, SpawnEnter
  PROVE  IInv'
<1> USE DEF pcbVars, pageVars, termVars, loopVars, SpawnAt
<1>1. Up /\ TypeOK /\ Core /\ Locals /\ RescheduleTerminates /\ pc = "enter"
  BY DEF IInv, SpawnEnter
<1>2. /\ SpawnReturns /\ cpu' = new
      /\ UNCHANGED <<pcbVars, queue, node, pageVars, termVars, esp0, loopVars,
                     fault>>
  BY DEF SpawnEnter
<1> "enter" \in GoPc
  BY DEF GoPc
<1>3. /\ pc' \in LoopPc /\ pc' \notin SpawnPc /\ slot' \in 0 .. NTerm
      /\ new' \in Pcb /\ reg' \in Int /\ acc' \in Int
  BY <1>1, <1>2, ReturnFacts, PcFacts
<1>4. TypeOK'
  <2>1. cpu' \in Pcb
    BY <1>1, <1>2 DEF TypeOK
  <2> QED  BY <1>1, <1>2, <1>3, <2>1 DEF TypeOK
<1>5. Locals' /\ RescheduleTerminates'
  BY <1>1, <1>2, <1>3, PcFacts DEF Locals, RescheduleTerminates
<1>6. Unlisted = {} /\ Unlisted' = {} /\ Listed' = Listed
  BY <1>1, <1>2, <1>3, PcFacts DEF Unlisted, Building, Listed
<1>7. QueueOK' /\ FamilyOK' /\ RunnerOK' /\ Starting'
  BY <1>1, <1>2, <1>3, <1>6, PcFacts DEF Core, QueueOK, FamilyOK, Family, Grounded,
     RunnerOK, Starting
<1> QED  BY <1>4, <1>5, <1>7 DEF IInv, Core
-----------------------------------------------------------------------------
LEMMA NextIInv == IInv /\ [Next]_vars => IInv'
<1> SUFFICES ASSUME IInv, [Next]_vars  PROVE IInv'
  OBVIOUS
<1>1. CASE UNCHANGED vars
  <2>1. /\ UNCHANGED <<queue, parent, having_child_running, present, cpu, pc,
                       new, slot, reg, fault>>
        /\ UNCHANGED vars
    BY <1>1 DEF vars, pcbVars, cpuVars, initVars
  <2>2. TypeOK'
    BY <2>1 DEF vars, pcbVars, pageVars, termVars, cpuVars, initVars, loopVars,
       IInv, TypeOK
  <2>3. Locals' /\ RescheduleTerminates'
    BY <2>1 DEF IInv, Locals, RescheduleTerminates
  <2>4. Up' => Core'
    BY <2>1, QuietCore DEF IInv, Up
  <2> QED  BY <2>2, <2>3, <2>4 DEF IInv
<1>2. CASE Interrupt
  <2>1. CASE Tick
    BY <2>1, TickChargeStep, TickPreemptStep, TickTearsStep DEF Tick
  <2>2. CASE ~ Tick
    <3>1. 0 \in Term
      BY TermAssumption DEF Term
    <3>2. PICK t \in Term : KeyType \/ KeyFocus(t) \/ MouseFocus(t) \/ MousePlay
      BY <1>2, <2>2, <3>1 DEF Interrupt
    <3>3. Up
      BY <3>2 DEF KeyType, KeyFocus, MouseFocus, MousePlay
    <3> QED  BY <3>2, <3>3, KeysAndMouse
  <2> QED  BY <2>1, <2>2
<1>3. CASE UserCall
  BY <1>3, ExecuteStep, HaltRootStep, HaltChildStep DEF UserCall
<1>4. CASE InitStep
  <2>1. CASE InitBoot \/ InitPlayed \/ InitScan
    BY <2>1, LoopSteps
  <2>2. CASE \E ok \in BOOLEAN : InitPlay(ok)
    BY <2>2, InitPlayStep
  <2>3. CASE SpawnLimit \/ SpawnLoadCount \/ SpawnStoreCount \/ SpawnFindPcb
    BY <2>3, CreateSteps
  <2>4. CASE SpawnMarkPcb \/ SpawnSetup \/ SpawnChoosePage
    BY <2>4, SpawnMarkPcbStep, SpawnSetupStep, SpawnChoosePageStep
  <2>5. CASE MakeStep
    BY <2>5, MakeSteps
  <2>6. CASE SpawnJoin \/ SpawnArm \/ SpawnSetTss \/ SpawnEnter
    BY <2>6, SpawnJoinStep, GoSteps, SpawnEnterStep
  <2> QED  BY <1>4, <2>1, <2>2, <2>3, <2>4, <2>5, <2>6
           DEF InitStep, MakeStep, MakeTerm, MakePage, MakeShow, MakeNode
<1> QED  BY <1>1, <1>2, <1>3, <1>4 DEF Next, Stopped

(* IInv holds in every reachable state.                                    *)
LEMMA Inductive == Spec => []IInv
BY InitIInv, NextIInv, PTL DEF Spec

(* Whatever the interleaving of interrupts, system calls and init, every   *)
(* variable keeps its type: no pointer to a PCB that is not there, no pid  *)
(* that is not a page.                                                     *)
THEOREM TypeCorrect == Spec => []TypeOK
<1>1. IInv => TypeOK
  BY DEF IInv
<1> QED  BY <1>1, Inductive, PTL

(* The loop in reschedule that moves waiting tasks to the end always meets *)
(* a task that is ready, so it never spins with interrupts off.            *)
THEOREM RescheduleAlwaysEnds == Spec => []RescheduleTerminates
<1>1. IInv => RescheduleTerminates
  BY DEF IInv
<1> QED  BY <1>1, Inductive, PTL

(* Waiting marks and live children always agree: no parent waits for a     *)
(* child that is gone, and none runs beside its child.                     *)
THEOREM WaitAlwaysMatched == Spec => []WaitDiscipline
<1>1. IInv => WaitDiscipline
  BY DEF IInv, Core, FamilyOK, Family, WaitDiscipline, Children
<1> QED  BY <1>1, Inductive, PTL

(* The task that owns the CPU is always listed and waits for no child.     *)
THEOREM RunnerAlwaysReady == Spec => []RunnerReady
<1>1. IInv => RunnerReady
  BY DEF IInv, Core, RunnerOK, RunnerReady
<1> QED  BY <1>1, Inductive, PTL
-----------------------------------------------------------------------------
(* The ways sys_execute ends: no PCB, a PCB that is given back, a child    *)
(* that runs, or no node. The PCB it takes belongs to nobody.              *)
Fresh(c) == /\ c \in Pcb \ Listed /\ ~present[c]
            /\ c # cpu /\ c # InitTask /\ c \notin Unlisted
            /\ pc \in {"setup"} \cup AfterSetup => c # new

LEMMA ExecuteCases ==
  ASSUME IInv, Up, NEW nm, NEW ok, SysExecute(nm, ok)
  PROVE  \/ NoPcbFound
         \/ \E c \in Pcb : Fresh(c) /\ FillPcb(c, nm) /\ ExecuteFails(c)
         \/ \E c \in Pcb : \E g \in FreePages :
              /\ Fresh(c) /\ FillPcb(c, nm) /\ ExecuteStarts(c, g, nm)
              /\ Listed' = Listed \cup {c}
              /\ g = Min(FreePages)
              /\ FreeNodes # {} /\ node' = [node EXCEPT ![c] = Min(FreeNodes)]
         \/ \E c \in Pcb :
              Fresh(c) /\ FillPcb(c, nm) /\ FreeNodes = {} /\ ExecuteFindsNoNode
<1>1. TypeOK /\ Core
  BY DEF IInv
<1>2. CASE ~ (NoPcbLeft \/ FreePcbs = {})
  <2> DEFINE c == Min(FreePcbs)
             g == Min(FreePages)
  <2>1. c \in Pcb /\ ~ present[c]
    BY <1>2, FirstFree DEF FreePcbs
  <2> HIDE DEF c
  <2>2. ExecuteAs(c, nm, ok)
    BY <1>2 DEF SysExecute, c
  <2>3. Fresh(c)
    <3>1. c \notin Listed /\ c # cpu /\ c # InitTask /\ c \notin Unlisted
      BY <1>1, <2>1 DEF Core, QueueOK, RunnerOK, Unlisted, Building
    <3>2. pc \in {"setup"} \cup AfterSetup => c # new
      BY <1>1, <3>1, PcFacts DEF Core, Starting, Unlisted, Building
    <3> QED  BY <2>1, <3>1, <3>2 DEF Fresh
  <2>4. CASE ~ CanLoad(ok)
    BY <2>1, <2>2, <2>3, <2>4 DEF ExecuteAs
  <2>5. CASE CanLoad(ok) /\ FreeNodes = {}
    BY <2>1, <2>2, <2>3, <2>5 DEF ExecuteAs
  <2>6. CASE CanLoad(ok) /\ FreeNodes # {}
    <3>1. g \in FreePages
      BY <2>6, FirstFree DEF CanLoad
    <3>5. g = Min(FreePages)
      OBVIOUS
    <3> HIDE DEF g
    <3>2. FillPcb(c, nm) /\ ExecuteStarts(c, g, nm)
      BY <2>2, <2>6 DEF ExecuteAs, g
    <3>3. Listed' = Listed \cup {c}
      BY <1>1, <2>1, <2>3, <3>2, AppendFacts
         DEF ExecuteStarts, TypeOK, Core, QueueOK, Listed, Fresh
    <3>4. node' = [node EXCEPT ![c] = Min(FreeNodes)]
      BY <3>2 DEF ExecuteStarts
    <3> QED  BY <2>1, <2>3, <2>6, <3>1, <3>2, <3>3, <3>4, <3>5
  <2> QED  BY <2>4, <2>5, <2>6
<1> QED  BY <1>2 DEF SysExecute

(* What a halt does if the kernel does not stop on it.                     *)
LEMMA HaltRootFacts ==
  ASSUME IInv, HaltRoot
  PROVE  /\ Up /\ cpu \in Listed \ {InitTask} /\ cpu \in Pcb
         /\ ~having_child_running[cpu] /\ cpu \notin Unlisted
         /\ pc \in AfterSetup => new # cpu
         /\ own_terminal[cpu] /\ parent[cpu] = Nobody
         /\ UNCHANGED initVars
         /\ \/ ~Up' /\ UNCHANGED <<pcbVars, queue, node, pageVars, termVars,
                                      cpuVars>>
            \/ /\ PcbAndPageFreed
               /\ Listed' = Listed \ {cpu}
               /\ cpu' \in Listed \ {cpu} /\ ~having_child_running[cpu']
               /\ mapped' = pid[cpu'] /\ esp0' = cpu'
               /\ Reschedule(Unlinked(queue, cpu), having_child_running, cpu)
               /\ valid' = [valid EXCEPT ![terminal[cpu]] = FALSE]
               /\ foreground_task' = [foreground_task EXCEPT
                                        ![terminal[cpu]] = Nobody]
               /\ UNCHANGED <<parent, having_child_running, own_terminal,
                              terminal, pid, time, name>>
<1> DEFINE q == Unlinked(queue, cpu)
           w == having_child_running
<1>1. Up /\ TypeOK /\ Core /\ RescheduleTerminates /\ cpu # InitTask
      /\ own_terminal[cpu] /\ parent[cpu] = Nobody /\ UNCHANGED initVars
  BY DEF IInv, HaltRoot
<1>2. /\ q \in Seq(Pcb) /\ IsInjective(q) /\ ToSet(q) = Listed \ {cpu}
      /\ cpu \in Pcb /\ cpu \in Listed /\ ~w[cpu] /\ cpu \notin Unlisted
      /\ Listed \in SUBSET Pcb
      /\ pc \in AfterSetup => new # cpu
  BY <1>1, LeavingFacts
<1>3. CASE cur_task = Nobody
  BY <1>1, <1>2, <1>3 DEF HaltRoot, Up
<1>4. CASE cur_task # Nobody
  <2>1. /\ valid' = [valid EXCEPT ![terminal[cpu]] = FALSE]
        /\ foreground_task' = [foreground_task EXCEPT ![terminal[cpu]] = Nobody]
        /\ PcbAndPageFreed
        /\ Reschedule(q, w, cpu)
        /\ UNCHANGED <<parent, having_child_running, own_terminal, terminal,
                       pid, time, name>>
    BY <1>4 DEF HaltRoot, TerminalDeallocated
  <2>2. \E p \in ToSet(q) : ~w[p]
    <3>1. /\ Nobody \notin Listed
          /\ Family(Listed, parent, w, Nobody) /\ Grounded(Listed, parent)
      BY <1>1, <1>2, ConstantFacts DEF Core, FamilyOK
    <3>2. /\ Family(Listed \ {cpu}, parent, w, Nobody)
          /\ Grounded(Listed \ {cpu}, parent)
      BY <1>1, <1>2, <3>1, FamilyExits
    <3>3. Listed \ {cpu} # {} /\ Nobody \notin Listed \ {cpu}
      BY <1>1, <3>1 DEF Core, QueueOK
    <3> QED  BY <1>2, <3>2, <3>3, FamilyLeaf
  <2> HIDE DEF q
  <2>3. w \in [Pcb -> BOOLEAN] /\ fault # "reschedule_loop"
    BY <1>1 DEF TypeOK, RescheduleTerminates
  <2>4. /\ Listed' = Listed \ {cpu} /\ cpu' \in Listed \ {cpu} /\ ~w[cpu']
        /\ mapped' = pid[cpu'] /\ esp0' = cpu'
    BY <1>1, <1>2, <2>1, <2>2, <2>3, RescheduleFacts
  <2> QED  BY <1>1, <1>2, <2>1, <2>4 DEF q
<1> QED  BY <1>3, <1>4

LEMMA HaltChildFacts ==
  ASSUME IInv, HaltChild
  PROVE  /\ Up /\ cpu \in Listed \ {InitTask} /\ cpu \in Pcb
         /\ ~having_child_running[cpu] /\ cpu \notin Unlisted
         /\ pc \in AfterSetup => new # cpu
         /\ ~own_terminal[cpu] /\ parent[cpu] # Nobody
         /\ parent[cpu] \in Listed \ {cpu} /\ parent[cpu] \in Pcb
         /\ UNCHANGED initVars
         /\ \/ ~Up' /\ UNCHANGED <<pcbVars, queue, node, pageVars, termVars,
                                      cpuVars>>
            \/ /\ PcbAndPageFreed
               /\ queue' = Unlinked(queue, cpu) /\ Listed' = Listed \ {cpu}
               /\ cpu' = parent[cpu] /\ esp0' = cpu'
               /\ having_child_running' = WaitOver
               /\ time' = [time EXCEPT ![cpu'] = Quantum(cpu')]
               /\ foreground_task' = TakenOver(terminal[cpu'], cpu')
               /\ mapped' = IF page_status[pid[cpu]] THEN pid[cpu'] ELSE mapped
               /\ UNCHANGED <<parent, own_terminal, terminal, pid, name, valid>>
<1> DEFINE par == parent[cpu]
           shown == IF terminal[par] = NullTerm /\ OobIsShowing
                    THEN par ELSE cur_task
<1>1. Up /\ TypeOK /\ Core /\ cpu # InitTask
      /\ ~own_terminal[cpu] /\ par # Nobody /\ UNCHANGED initVars
  BY DEF IInv, HaltChild
<1>2. /\ ToSet(Unlinked(queue, cpu)) = Listed \ {cpu}
      /\ cpu \in Pcb /\ cpu \in Listed /\ ~having_child_running[cpu]
      /\ cpu \notin Unlisted /\ Listed \in SUBSET Pcb
      /\ pc \in AfterSetup => new # cpu
  BY <1>1, LeavingFacts
<1>3. par \in Listed \ {cpu} /\ par \in Pcb
  <2>1. par \in Listed /\ having_child_running[par]
    BY <1>1, <1>2 DEF Core, FamilyOK, Family
  <2> QED  BY <1>2, <2>1
<1>4. CASE shown = Nobody
  BY <1>1, <1>2, <1>3, <1>4 DEF HaltChild, Up
<1>5. CASE shown # Nobody
  <2>1. /\ PcbAndPageFreed /\ having_child_running' = WaitOver
        /\ time' = [time EXCEPT ![par] = Quantum(par)]
        /\ foreground_task' = TakenOver(terminal[par], par)
        /\ mapped' = IF page_status[pid[cpu]] THEN pid[par] ELSE mapped
        /\ queue' = Unlinked(queue, cpu) /\ esp0' = par /\ cpu' = par
        /\ UNCHANGED <<parent, own_terminal, terminal, pid, name, valid>>
    BY <1>5 DEF HaltChild
  <2>2. Listed' = Listed \ {cpu}
    BY <1>2, <2>1 DEF Listed
  <2> QED  BY <1>1, <1>2, <1>3, <2>1, <2>2
<1> QED  BY <1>4, <1>5

(* A preemption does not change who is listed, and hands the CPU over with *)
(* the page and the kernel stack.                                          *)
LEMMA PreemptFacts ==
  ASSUME IInv, TickPreempt
  PROVE  /\ Up /\ cpu \in Listed /\ cpu \in Pcb /\ Listed' = Listed
         /\ ToEnd(queue, cpu) \in Seq(Pcb) /\ IsInjective(ToEnd(queue, cpu))
         /\ Reschedule(ToEnd(queue, cpu), having_child_running, cpu)
         /\ cpu' \in Listed /\ ~having_child_running[cpu']
         /\ cpu' = cpu => UNCHANGED <<mapped, esp0>>
         /\ cpu' # cpu => mapped' = pid[cpu'] /\ esp0' = cpu'
         /\ time' = IF cpu \in IdlePcb THEN time
                    ELSE [time EXCEPT ![cpu] = Quantum(cpu)]
         /\ UNCHANGED <<n_present_pcb, present, parent, having_child_running,
                        own_terminal, terminal, pid, name, node, page_status,
                        n_page_in_use, valid, foreground_task, initVars>>
<1> DEFINE q == ToEnd(queue, cpu)
           w == having_child_running
<1>1. Up /\ TypeOK /\ Core /\ RescheduleTerminates
  BY DEF IInv, TickPreempt
<1>2. cpu \in ToSet(queue) /\ cpu \in Listed /\ cpu \in Pcb /\ ~w[cpu]
      /\ w \in [Pcb -> BOOLEAN] /\ fault # "reschedule_loop"
  BY <1>1 DEF Core, RunnerOK, Listed, TypeOK, RescheduleTerminates
<1>3. q \in Seq(Pcb) /\ IsInjective(q) /\ ToSet(q) = Listed
  <2>1. /\ Unlinked(queue, cpu) \in Seq(Pcb)
        /\ IsInjective(Unlinked(queue, cpu))
        /\ ToSet(Unlinked(queue, cpu)) = ToSet(queue) \ {cpu}
    BY <1>1, <1>2, UnlinkedFacts DEF Core, QueueOK, TypeOK
  <2> HIDE DEF q
  <2>2. cpu \notin ToSet(Unlinked(queue, cpu))
    BY <2>1
  <2>3. /\ Append(Unlinked(queue, cpu), cpu) \in Seq(Pcb)
        /\ IsInjective(Append(Unlinked(queue, cpu), cpu))
        /\ ToSet(Append(Unlinked(queue, cpu), cpu)) =
             ToSet(Unlinked(queue, cpu)) \cup {cpu}
    BY <1>2, <2>1, <2>2, AppendFacts
  <2> QED  BY <1>2, <2>1, <2>3 DEF q, ToEnd, Listed
<1> HIDE DEF q
<1>4. Reschedule(q, w, cpu)
  BY DEF TickPreempt, q
<1>5. \E p \in ToSet(q) : ~w[p]
  BY <1>2, <1>3
<1>6. /\ Listed' = Listed /\ cpu' \in Listed /\ ~w[cpu']
      /\ cpu' = cpu => UNCHANGED <<mapped, esp0>>
      /\ cpu' # cpu => mapped' = pid[cpu'] /\ esp0' = cpu'
  <2>1. fault' # "reschedule_loop"
    BY <1>1, <1>2, <1>3, <1>4, <1>5, RescheduleFacts
  <2> QED  BY <1>1, <1>2, <1>3, <1>4, <2>1, RescheduleFacts
<1> QED  BY <1>1, <1>2, <1>3, <1>4, <1>6 DEF TickPreempt, q
-----------------------------------------------------------------------------
(* Process implements ProcessTree. The parent that Tree sees is that of    *)
(* the listed tasks; a task that is not listed has none.                   *)
TreeParent == [p \in Pcb |-> IF p \in Listed THEN parent[p] ELSE Nobody]

(* Most steps do not touch the tree.                                       *)
LEMMA TreeStutters ==
  ASSUME Listed' = Listed, cpu' = cpu, \A p \in Listed : parent'[p] = parent[p]
  PROVE  UNCHANGED Tree!vars
<1>1. TreeParent' = TreeParent
  BY DEF TreeParent
<1> QED  BY <1>1 DEF Tree!vars, TreeParent

LEMMA TreeLeaf ==
  ASSUME IInv, Up, NEW p \in Listed, ~having_child_running[p]
  PROVE  Tree!Leaf(p)
<1>1. \A c \in Listed : parent[c] # p
  BY DEF IInv, Core, FamilyOK, Family
<1>2. Listed \subseteq Pcb
  BY DEF IInv, Core, QueueOK
<1> QED  BY <1>1, <1>2 DEF Tree!Leaf, Tree!Children

(* execute starts a child: Call.                                           *)
LEMMA TreeExecute ==
  ASSUME IInv, Up, NEW nm, NEW ok, SysExecute(nm, ok)
  PROVE  [Tree!Next]_(Tree!vars)
<1>1. TypeOK /\ cpu \in Listed /\ Listed \subseteq Pcb
  BY DEF IInv, Core, RunnerOK, QueueOK
<1>2. CASE NoPcbFound
  BY <1>2, TreeStutters DEF NoPcbFound, cpuVars, Listed
<1>3. ASSUME NEW c \in Pcb, Fresh(c), FillPcb(c, nm), ExecuteFails(c)
      PROVE  [Tree!Next]_(Tree!vars)
  <2>1. Listed' = Listed /\ cpu' = cpu
    BY <1>3 DEF ExecuteFails, cpuVars, Listed
  <2>2. \A p \in Listed : parent'[p] = parent[p]
    BY <1>1, <1>3 DEF FillPcb, Fresh, TypeOK
  <2> QED  BY <2>1, <2>2, TreeStutters
<1>4. ASSUME NEW c \in Pcb, Fresh(c), FillPcb(c, nm), Listed' = Listed \cup {c},
             NEW g, ExecuteStarts(c, g, nm)
      PROVE  [Tree!Next]_(Tree!vars)
  <2>1. c \in Pcb \ Listed /\ cpu' = c /\ parent' = [parent EXCEPT ![c] = cpu]
    BY <1>4 DEF Fresh, ExecuteStarts, FillPcb
  <2>2. TreeParent' = [TreeParent EXCEPT ![c] = cpu]
    BY <1>1, <1>4, <2>1 DEF TreeParent, TypeOK
  <2>3. Tree!Call(c)
    BY <1>4, <2>1, <2>2 DEF Tree!Call, TreeParent
  <2> QED  BY <2>3 DEF Tree!Next
<1>5. ASSUME NEW c \in Pcb, Fresh(c), FillPcb(c, nm), ExecuteFindsNoNode
      PROVE  [Tree!Next]_(Tree!vars)
  <2>1. Listed' = Listed /\ cpu' = cpu
    BY <1>5 DEF ExecuteFindsNoNode, cpuVars, Listed
  <2>2. \A p \in Listed : parent'[p] = parent[p]
    BY <1>1, <1>5 DEF FillPcb, Fresh, TypeOK
  <2> QED  BY <2>1, <2>2, TreeStutters
<1> QED  BY <1>2, <1>3, <1>4, <1>5, ExecuteCases

(* halt: Exit of a task nobody waits for, Return of any other.             *)
LEMMA TreeHalt ==
  ASSUME IInv, HaltRoot \/ HaltChild
  PROVE  [Tree!Next]_(Tree!vars)
<1>1. TypeOK
  BY DEF IInv
<1>2. CASE UNCHANGED <<pcbVars, queue, node, pageVars, termVars, cpuVars>>
  BY <1>2, TreeStutters DEF pcbVars, cpuVars, Listed
<1>3. CASE HaltRoot /\ ~UNCHANGED <<pcbVars, queue, node, pageVars, termVars,
                                     cpuVars>>
  <2>1. /\ Up /\ cpu \in Listed /\ cpu \in Pcb /\ parent[cpu] = Nobody
        /\ Listed' = Listed \ {cpu}
        /\ cpu' \in Listed \ {cpu} /\ ~having_child_running[cpu']
        /\ parent' = parent
    BY <1>3, HaltRootFacts
  <2>2. TreeParent' = TreeParent /\ TreeParent[cpu] = Nobody
    BY <1>1, <2>1 DEF TreeParent, TypeOK
  <2>3. Tree!Leaf(cpu')
    BY <2>1, TreeLeaf
  <2>4. Tree!Exit(cpu')
    BY <2>1, <2>2, <2>3 DEF Tree!Exit, TreeParent
  <2>5. cpu' \in Pcb
    BY <2>1 DEF IInv, Core, QueueOK
  <2> QED  BY <2>4, <2>5 DEF Tree!Next
<1>4. CASE HaltChild /\ ~UNCHANGED <<pcbVars, queue, node, pageVars, termVars,
                                      cpuVars>>
  <2>1. /\ Up /\ cpu \in Listed /\ cpu \in Pcb /\ parent[cpu] # Nobody
        /\ Listed' = Listed \ {cpu} /\ cpu' = parent[cpu] /\ parent' = parent
    BY <1>4, HaltChildFacts
  <2>2. TreeParent' = [TreeParent EXCEPT ![cpu] = Nobody]
        /\ TreeParent[cpu] = parent[cpu]
    BY <1>1, <2>1 DEF TreeParent, TypeOK
  <2>3. Tree!Return
    BY <2>1, <2>2 DEF Tree!Return, TreeParent
  <2> QED  BY <2>3 DEF Tree!Next
<1> QED  BY <1>2, <1>3, <1>4

(* The scheduler and the first switch to a new shell: Switch. A new shell  *)
(* in the run queue: Admit.                                                *)
LEMMA TreeSwitch ==
  ASSUME IInv, TickPreempt \/ SpawnEnter
  PROVE  [Tree!Next]_(Tree!vars)
<1>1. /\ Up /\ cpu' \in Listed /\ ~having_child_running[cpu']
      /\ Listed' = Listed /\ parent' = parent
  <2>1. CASE TickPreempt
    BY <2>1, PreemptFacts
  <2>2. CASE SpawnEnter
    BY <2>2 DEF SpawnEnter, SpawnAt, IInv, Core, Starting, pcbVars, Listed, GoPc
  <2> QED  BY <2>1, <2>2
<1>2. Tree!Leaf(cpu') /\ cpu' \in Pcb
  BY <1>1, TreeLeaf DEF IInv, Core, QueueOK
<1>3. Tree!Switch(cpu')
  BY <1>1, <1>2 DEF Tree!Switch
<1> QED  BY <1>2, <1>3 DEF Tree!Next

LEMMA TreeAdmit ==
  ASSUME IInv, SpawnJoin
  PROVE  [Tree!Next]_(Tree!vars)
<1>1. /\ TypeOK /\ Core /\ pc = "join" /\ queue' = Append(queue, new)
      /\ UNCHANGED <<pcbVars, cpuVars>>
  BY DEF SpawnJoin, SpawnAt, IInv
<1>2. /\ new \in Pcb \ Listed /\ Listed \in SUBSET Pcb /\ parent[new] = Nobody
  <2>1. pc \in BuildPc /\ pc \in MakingPc
    BY <1>1 DEF BuildPc, MakingPc, ListPc
  <2> QED  BY <1>1, <2>1 DEF Core, QueueOK, Unlisted, Building, Starting, TypeOK
<1>3. Listed' = Listed \cup {new}
  BY <1>1, <1>2, AppendFacts DEF Core, QueueOK, TypeOK, Listed
<1>4. cpu' = cpu /\ parent' = parent
  BY <1>1 DEF cpuVars, pcbVars
<1>5. TreeParent' = TreeParent
  BY <1>2, <1>3, <1>4 DEF TreeParent
<1>6. Tree!Admit(new)
  BY <1>2, <1>3, <1>4, <1>5 DEF Tree!Admit, TreeParent
<1> QED  BY <1>2, <1>6 DEF Tree!Next

LEMMA TreeInit == Init => Tree!Init
<1> SUFFICES ASSUME Init  PROVE Tree!Init
  OBVIOUS
<1>1. Listed = {InitTask}
  BY DEF Init, Listed, ToSet
<1>2. cpu = InitTask /\ TreeParent = [p \in Pcb |-> Nobody]
  BY DEF Init, TreeParent
<1> QED  BY <1>1, <1>2 DEF Tree!Init, TreeParent

LEMMA TreeStep == IInv /\ [Next]_vars => [Tree!Next]_(Tree!vars)
<1> SUFFICES ASSUME IInv, [Next]_vars  PROVE [Tree!Next]_(Tree!vars)
  OBVIOUS
<1> USE DEF pcbVars, cpuVars
<1>1. CASE UNCHANGED vars
  BY <1>1, TreeStutters DEF vars, Listed
<1>2. CASE Interrupt
  <2>1. CASE TickPreempt
    BY <2>1, TreeSwitch
  <2>2. CASE TickCharge \/ TickTears \/ KeyType \/ MousePlay
             \/ \E t \in Term : KeyFocus(t) \/ MouseFocus(t)
    <3>1. UNCHANGED <<queue, parent, cpu>>
      BY <2>2 DEF TickCharge, TickTears, KeyType, MousePlay, KeyFocus,
         MouseFocus
    <3> QED  BY <3>1, TreeStutters DEF Listed
  <2> QED  BY <1>2, <2>1, <2>2 DEF Interrupt, Tick
<1>3. CASE UserCall
  <2>1. CASE HaltRoot \/ HaltChild
    BY <2>1, TreeHalt
  <2>2. CASE \E nm \in Command, ok \in BOOLEAN : Execute(nm, ok)
    BY <2>2, TreeExecute DEF Execute
  <2> QED  BY <1>3, <2>1, <2>2 DEF UserCall
<1>4. CASE InitStep
  <2>1. ASSUME NEW ok \in BOOLEAN, InitPlay(ok)
        PROVE  [Tree!Next]_(Tree!vars)
    <3>1. CASE need_play
      BY <2>1, <3>1, TreeExecute DEF InitPlay
    <3>2. CASE ~need_play
      BY <2>1, <3>2, TreeStutters DEF InitPlay, Listed
    <3> QED  BY <3>1, <3>2
  <2>2. CASE SpawnJoin
    BY <2>2, TreeAdmit
  <2>3. CASE SpawnEnter
    BY <2>3, TreeSwitch
  <2>4. CASE InitBoot \/ InitPlayed \/ InitScan \/ SpawnLimit
             \/ SpawnLoadCount \/ SpawnStoreCount \/ SpawnFindPcb
             \/ SpawnMarkPcb \/ SpawnChoosePage \/ MakeStep
             \/ SpawnArm \/ SpawnSetTss
    <3>1. UNCHANGED <<queue, parent, cpu>>
      BY <2>4, MakeFrame DEF InitBoot, InitPlayed, InitScan, SpawnLimit,
         SpawnLoadCount, SpawnStoreCount, SpawnFindPcb, SpawnMarkPcb,
         SpawnChoosePage, SpawnArm, SpawnSetTss
    <3> QED  BY <3>1, TreeStutters DEF Listed
  <2>5. CASE SpawnSetup
    <3>1. TypeOK /\ Core /\ pc = "setup" /\ UNCHANGED <<queue, cpu>>
          /\ parent' = [parent EXCEPT ![new] = Nobody]
      BY <2>5 DEF SpawnSetup, SpawnAt, IInv
    <3>2. new \notin Listed /\ Listed \subseteq Pcb
      BY <3>1, PcFacts DEF Core, QueueOK, Unlisted, Building
    <3>3. \A p \in Listed : parent'[p] = parent[p]
      BY <3>1, <3>2 DEF TypeOK
    <3> QED  BY <3>1, <3>3, TreeStutters DEF Listed
  <2> QED  BY <1>4, <2>1, <2>2, <2>3, <2>4, <2>5
           DEF InitStep, MakeStep, MakeTerm, MakePage, MakeShow, MakeNode
<1> QED  BY <1>1, <1>2, <1>3, <1>4 DEF Next, Stopped

(* Every step of the kernel, an interrupt between two instructions of init *)
(* included, is a step of the forest of ProcessTree or leaves it alone:    *)
(* execute pushes a child on the task that calls it, halt pops exactly     *)
(* that child and resumes the caller, and only leaves get the CPU.         *)
THEOREM TreeImplemented == Spec => ImplementsTree
BY Inductive, TreeInit, TreeStep, PTL DEF Spec, ImplementsTree, Tree!Spec
-----------------------------------------------------------------------------
(* The steps of init outside the making of a task: from its loop to the    *)
(* PCB it finds. They touch neither tasks nor pages.                       *)
Outside == LoopPc \cup CountPc

LoopStep ==
  \/ InitBoot \/ InitPlayed \/ InitScan
  \/ \E ok \in BOOLEAN : InitPlay(ok) /\ ~need_play
  \/ SpawnLimit \/ SpawnLoadCount \/ SpawnStoreCount \/ SpawnFindPcb

OutsideStep ==
  /\ pc \in Outside /\ pc' \in Outside
  /\ UNCHANGED <<present, parent, having_child_running, own_terminal, terminal,
                 pid, time, name, queue, node, pageVars, valid,
                 foreground_task, cpuVars>>

LEMMA LoopFacts ==
  ASSUME IInv, LoopStep
  PROVE  OutsideStep
<1> USE DEF pcbVars, termVars, SpawnAt, SpawnGoes, SpawnTakes, SpawnLoads, CountPc
<1>1. CASE InitBoot \/ InitPlayed \/ InitScan
  BY <1>1 DEF InitBoot, InitPlayed, InitScan, OutsideStep, Outside, LoopPc,
              IInv, TypeOK
<1>2. CASE \E ok \in BOOLEAN : InitPlay(ok) /\ ~need_play
  BY <1>2 DEF InitPlay, OutsideStep, Outside, LoopPc
<1>3. CASE SpawnLimit \/ SpawnLoadCount
  BY <1>3 DEF SpawnLimit, SpawnLoadCount, SpawnReturns, OutsideStep, Outside,
              LoopPc
<1>4. CASE SpawnStoreCount \/ SpawnFindPcb
  BY <1>4 DEF SpawnStoreCount, SpawnFindPcb, SpawnReturns, OutsideStep,
              Outside, LoopPc
<1> QED  BY <1>1, <1>2, <1>3, <1>4 DEF LoopStep

(* A step that touches nothing the following invariants speak of           *)
Idle == UNCHANGED <<pcbVars, queue, node, pageVars, valid, foreground_task,
                    cpuVars, pc, slot, new, reg, acc, all_terminal_is_on>>

(* sys_execute, of a user program or of init for the music                 *)
Calls == /\ \/ pc' = pc /\ cpu # InitTask
            \/ pc = "play" /\ pc' = "played"
         /\ UNCHANGED <<slot, new, reg, acc, all_terminal_is_on>>

(* The kinds of steps after which the kernel still runs                    *)
LEMMA StepCases ==
  ASSUME IInv, [Next]_vars, Up'
  PROVE  /\ Up
         /\ \/ Idle \/ TickCharge \/ TickPreempt \/ HaltRoot \/ HaltChild
            \/ \E nm \in {"shell", "program"}, ok \in BOOLEAN :
                 SysExecute(nm, ok) /\ Calls
            \/ LoopStep
            \/ SpawnMarkPcb \/ SpawnSetup \/ SpawnChoosePage \/ MakeStep
            \/ SpawnJoin \/ SpawnArm \/ SpawnSetTss \/ SpawnEnter
<1>1. CASE UNCHANGED vars
  BY <1>1 DEF vars, Idle, pcbVars, pageVars, termVars, cpuVars, initVars,
              loopVars, Up
<1>2. CASE Interrupt
  <2>1. CASE TickCharge \/ TickPreempt
    BY <2>1 DEF TickCharge, TickPreempt
  <2>3. CASE TickTears
    BY <2>3 DEF TickTears, Up
  <2>2. CASE KeyType \/ MousePlay
             \/ \E t \in Term : KeyFocus(t) \/ MouseFocus(t)
    BY <2>2 DEF KeyType, MousePlay, KeyFocus, MouseFocus, Idle, pageVars,
                termVars, initVars, loopVars
  <2> QED  BY <1>2, <2>1, <2>2, <2>3 DEF Interrupt, Tick
<1>3. CASE UserCall
  <2>1. CASE HaltRoot \/ HaltChild
    BY <2>1 DEF HaltRoot, HaltChild
  <2>2. CASE \E nm \in Command, ok \in BOOLEAN : Execute(nm, ok)
    BY <2>2, CommandAssumption DEF Execute, initVars, loopVars, Calls
  <2> QED  BY <1>3, <2>1, <2>2 DEF UserCall
<1>4. CASE InitStep
  <2>1. CASE \E ok \in BOOLEAN : InitPlay(ok)
    BY <2>1 DEF InitPlay, Calls, LoopStep
  <2>2. CASE ~ \E ok \in BOOLEAN : InitPlay(ok)
    <3>1. Up
      BY <1>4, <2>2, MakeFrame DEF InitStep, InitBoot, InitPlayed, InitScan,
         SpawnLimit, SpawnLoadCount, SpawnStoreCount, SpawnFindPcb,
         SpawnMarkPcb, SpawnSetup, SpawnChoosePage, SpawnJoin, SpawnArm,
         SpawnSetTss, SpawnEnter, SpawnAt, MakeStep, MakeTerm, MakePage,
         MakeShow, MakeNode
    <3> QED  BY <1>4, <2>2, <3>1 DEF InitStep, LoopStep, MakeStep, MakeTerm,
                MakePage, MakeShow, MakeNode
  <2> QED  BY <2>1, <2>2
<1>5. CASE Stopped
  BY <1>5 DEF Stopped, Up, vars
<1> QED  BY <1>1, <1>2, <1>3, <1>4, <1>5 DEF Next

(* Who is listed, and whom init is making, before and after a step of the  *)
(* task it is making.                                                      *)
LEMMA MakingFacts ==
  ASSUME IInv, Up
  PROVE  /\ pc \in Outside => Unlisted = {}
         /\ pc \in BuildPc =>
              Unlisted = {new} /\ new \in Pcb \ Listed /\ new # InitTask
              /\ present[new]
         /\ pc \in GoPc =>
              Unlisted = {} /\ new \in Listed /\ new \in Pcb /\ new # cpu
         /\ Listed \in SUBSET Pcb /\ InitTask \in Listed /\ cpu \in Listed
         /\ \A p \in Listed : present[p]
         /\ \A p \in Listed : parent[p] \in Listed \cup {Nobody}
<1>1. TypeOK /\ Core
  BY DEF IInv
<1>2. /\ Listed \in SUBSET Pcb /\ InitTask \in Listed /\ cpu \in Listed
      /\ \A p \in Listed : present[p]
      /\ \A p \in Listed : parent[p] \in Listed \cup {Nobody}
  BY <1>1 DEF Core, QueueOK, RunnerOK, FamilyOK, Family
<1>3. pc \in Outside \cup GoPc => Unlisted = {}
  BY PcFacts DEF Outside, Unlisted, Building
<1>4. pc \in BuildPc => Unlisted = {new}
  BY DEF Unlisted, Building
<1>5. Unlisted = {new} => new \in Pcb \ Listed /\ new # InitTask /\ present[new]
  BY <1>1, <1>2 DEF Core, QueueOK
<1>6. pc \in GoPc => new \in Listed /\ new \in Pcb /\ new # cpu
  BY <1>1 DEF Core, Starting, TypeOK
<1> QED  BY <1>2, <1>3, <1>4, <1>5, <1>6

(* add_task_to_list                                                        *)
LEMMA JoinFacts ==
  ASSUME IInv, SpawnJoin
  PROVE  /\ Up /\ pc = "join" /\ pc' = "arm" /\ new' = new /\ slot' = slot
         /\ new \in Pcb \ Listed /\ new # InitTask
         /\ parent[new] = Nobody /\ ~having_child_running[new]
         /\ Unlisted = {new} /\ Unlisted' = {}
         /\ queue' = Append(queue, new) /\ Listed' = Listed \cup {new}
         /\ UNCHANGED <<pcbVars, node, pageVars, termVars, cpuVars, loopVars>>
<1>1. /\ Up /\ pc = "join" /\ pc' = "arm" /\ new' = new /\ slot' = slot
      /\ queue' = Append(queue, new)
      /\ UNCHANGED <<pcbVars, node, pageVars, termVars, cpuVars, loopVars>>
  BY DEF SpawnJoin, SpawnAt, SpawnGoes
<1>2. TypeOK /\ Core
  BY <1>1 DEF IInv
<1> "join" \in BuildPc /\ "join" \in MakingPc /\ "arm" \in GoPc
  BY DEF BuildPc, MakingPc, GoPc, ListPc
<1>3. new \in Pcb \ Listed /\ Unlisted = {new} /\ new # InitTask
  BY <1>1, MakingFacts
<1>4. parent[new] = Nobody /\ ~having_child_running[new]
  BY <1>1, <1>2 DEF Core, Starting
<1>5. Unlisted' = {}
  BY <1>1, PcFacts DEF Unlisted, Building
<1>6. queue \in Seq(Pcb) /\ IsInjective(queue) /\ new \notin ToSet(queue)
  BY <1>2, <1>3 DEF TypeOK, Core, QueueOK, Listed
<1>7. Listed' = Listed \cup {new}
  BY <1>1, <1>3, <1>6, AppendFacts DEF Listed
<1> QED  BY <1>1, <1>3, <1>4, <1>5, <1>7

(* After terminal_allocate the terminals stay as they are.                 *)
LEMMA MakeRest ==
  ASSUME MakePage \/ MakeShow \/ MakeNode
  PROVE  pc # "term" /\ pc' # "term" /\ UNCHANGED <<own_terminal, terminal, valid>>
<1> USE DEF pcbVars, termVars, SpawnAt, SpawnGoes, SpawnTakes, SpawnLoads
<1>1. CASE MakePage
  BY <1>1 DEF MakePage, SpawnResetPages, SpawnMapPage, SpawnLoadPages,
     SpawnStorePages, SpawnMarkPage, SpawnSetPid
<1>2. CASE MakeShow
  BY <1>2 DEF MakeShow, SpawnFocus, SpawnShow, SpawnAttach
<1>3. CASE MakeNode
  BY <1>3 DEF MakeNode, SpawnFindNode, SpawnTakeNode, SpawnLoadLast,
     SpawnLinkLast
<1> QED  BY <1>1, <1>2, <1>3
-----------------------------------------------------------------------------
(* The tasks whose PCB fields are set: all but the one that SpawnSetup is  *)
(* about to fill in.                                                       *)
SetUp == (Listed \cup Unlisted) \ (IF pc = "setup" THEN {new} ELSE {})

(* A child shares the terminal of its parent, an owner has one, and the    *)
(* task that init makes is a shell that owns its own.                      *)
Lineage ==
  /\ \A p \in Listed : parent[p] # Nobody => terminal[p] = terminal[parent[p]]
  /\ \A p \in SetUp : own_terminal[p] => terminal[p] \in Term
  /\ pc \in AfterSetup =>
       name[new] = "shell" /\ (own_terminal[new] <=> pc # "term")

(* Most steps leave the fields of all tasks that are set up alone.         *)
LEMMA LineageFrame ==
  ASSUME IInv, Up, Lineage, Listed' \subseteq Listed, SetUp' \subseteq SetUp,
         \A p \in Listed \cup Unlisted :
           /\ parent'[p] = parent[p] /\ own_terminal'[p] = own_terminal[p]
           /\ terminal'[p] = terminal[p] /\ name'[p] = name[p],
         pc' \in AfterSetup =>
           pc \in AfterSetup /\ new' = new /\ (pc' = "term" <=> pc = "term")
  PROVE  Lineage'
<1>1. SetUp \subseteq Listed \cup Unlisted
  BY DEF SetUp
<1>2. ASSUME NEW p \in Listed', parent'[p] # Nobody
      PROVE  terminal'[p] = terminal'[parent'[p]]
  <2>1. parent'[p] = parent[p] /\ parent[p] \in Listed /\ terminal'[p] = terminal[p]
    BY <1>2, MakingFacts
  <2>2. terminal'[parent[p]] = terminal[parent[p]]
    BY <2>1
  <2> QED  BY <1>2, <2>1, <2>2 DEF Lineage
<1>3. \A p \in SetUp' : own_terminal'[p] => terminal'[p] \in Term
  BY <1>1 DEF Lineage
<1>4. pc' \in AfterSetup =>
        name'[new'] = "shell" /\ (own_terminal'[new'] <=> pc' # "term")
  <2>1. pc \in AfterSetup => new \in Listed \cup Unlisted
    BY MakingFacts, PcFacts
  <2> QED  BY <2>1 DEF Lineage
<1> QED  BY <1>2, <1>3, <1>4 DEF Lineage

LEMMA LineageExecute ==
  ASSUME IInv, Up, Up', Lineage, NEW nm, NEW ok, SysExecute(nm, ok), Calls
  PROVE  Lineage'
<1>1. TypeOK /\ Listed \subseteq Pcb /\ cpu \in Listed
  BY MakingFacts DEF IInv
<1>2. Unlisted' = Unlisted /\ new' = new
      /\ (pc' \in AfterSetup \cup {"setup"} <=> pc \in AfterSetup \cup {"setup"})
      /\ (pc' \in AfterSetup => pc' = pc) /\ (pc' = "setup" <=> pc = "setup")
  <2>1. "play" \notin BuildPc /\ "played" \notin BuildPc
        /\ "play" \notin GoPc /\ "played" \notin GoPc
    BY PcFacts, LoopPcFacts
  <2> QED  BY <2>1, PcFacts DEF Calls, Unlisted, Building
<1>3. CASE NoPcbFound
  <2>1. Listed' = Listed
    BY <1>3 DEF NoPcbFound, Listed
  <2>2. SetUp' = SetUp
    BY <1>2, <2>1 DEF SetUp
  <2> QED  BY <1>2, <1>3, <2>1, <2>2, LineageFrame DEF NoPcbFound
<1>4. ASSUME NEW c \in Pcb, Fresh(c), FillPcb(c, nm), ExecuteFails(c)
      PROVE  Lineage'
  <2>1. Listed' = Listed
    BY <1>4 DEF ExecuteFails, Listed
  <2>2. SetUp' = SetUp
    BY <1>2, <2>1 DEF SetUp
  <2>3. c \notin Listed \cup Unlisted
    BY <1>4 DEF Fresh
  <2>4. \A p \in Listed \cup Unlisted :
           /\ parent'[p] = parent[p] /\ own_terminal'[p] = own_terminal[p]
           /\ terminal'[p] = terminal[p] /\ name'[p] = name[p]
    BY <1>1, <1>4, <2>3 DEF FillPcb, TypeOK, Unlisted
  <2> QED  BY <1>2, <2>1, <2>2, <2>4, LineageFrame
<1>5. ASSUME NEW c \in Pcb, Fresh(c), FillPcb(c, nm), Listed' = Listed \cup {c},
             NEW g, ExecuteStarts(c, g, nm)
      PROVE  Lineage'
  <2>1. /\ c \notin Listed \cup Unlisted /\ c # cpu
        /\ (pc \in AfterSetup => c # new)
    BY <1>5 DEF Fresh
  <2>2. /\ own_terminal'[c] = FALSE /\ parent'[c] = cpu
        /\ terminal'[c] = terminal[cpu]
        /\ \A p \in Pcb \ {c} :
             /\ parent'[p] = parent[p] /\ own_terminal'[p] = own_terminal[p]
             /\ terminal'[p] = terminal[p] /\ name'[p] = name[p]
    BY <1>1, <1>5 DEF FillPcb, TypeOK
  <2>3. ASSUME NEW p \in Listed', parent'[p] # Nobody
        PROVE  terminal'[p] = terminal'[parent'[p]]
    <3>1. CASE p = c
      BY <1>1, <2>1, <2>2, <3>1
    <3>2. CASE p \in Listed /\ p # c
      <4>1. parent'[p] = parent[p] /\ parent[p] \in Listed
            /\ terminal'[p] = terminal[p]
        BY <1>1, <2>2, <2>3, <3>2, MakingFacts
      <4>2. terminal'[parent[p]] = terminal[parent[p]]
        BY <1>1, <2>1, <2>2, <4>1
      <4> QED  BY <2>3, <3>2, <4>1, <4>2 DEF Lineage
    <3> QED  BY <1>5, <3>1, <3>2
  <2>4. ASSUME NEW p \in SetUp', own_terminal'[p]
        PROVE  terminal'[p] \in Term
    <3>1. p # c /\ p \in Pcb /\ p \in SetUp
      <4>1. p # c
        BY <2>2, <2>4
      <4>2. p \in SetUp
        BY <1>2, <1>5, <2>4, <4>1 DEF SetUp
      <4>3. p \in Pcb
        BY <1>1, <4>2 DEF SetUp, Unlisted, TypeOK
      <4> QED  BY <4>1, <4>2, <4>3
    <3> QED  BY <2>2, <2>4, <3>1 DEF Lineage
  <2>5. pc' \in AfterSetup =>
          name'[new'] = "shell" /\ (own_terminal'[new'] <=> pc' # "term")
    BY <1>1, <1>2, <2>1, <2>2 DEF Lineage, TypeOK
  <2> QED  BY <2>3, <2>4, <2>5 DEF Lineage
<1>6. ASSUME NEW c \in Pcb, Fresh(c), FillPcb(c, nm), ExecuteFindsNoNode, Up'
      PROVE  Lineage'
  BY <1>6 DEF ExecuteFindsNoNode, Up
<1> QED  BY <1>3, <1>4, <1>5, <1>6, ExecuteCases

(* The PCB of a new shell is filled in.                                    *)
LEMMA LineageSetup ==
  ASSUME IInv, Up, Lineage, SpawnSetup
  PROVE  Lineage'
<1> "setup" \in BuildPc /\ "term" \in BuildPc /\ "term" \in AfterSetup
  BY PcFacts DEF BuildPc, MakingPc
<1>1. /\ TypeOK /\ pc = "setup" /\ new \in Pcb \ Listed /\ Unlisted = {new}
      /\ Listed \subseteq Pcb
  BY MakingFacts DEF SpawnSetup, SpawnAt, IInv
<1>2. /\ pc' = "term" /\ new' = new /\ Listed' = Listed /\ terminal' = terminal
      /\ own_terminal' = [own_terminal EXCEPT ![new] = FALSE]
      /\ parent' = [parent EXCEPT ![new] = Nobody]
      /\ name' = [name EXCEPT ![new] = "shell"]
  BY DEF SpawnSetup, SpawnGoes, Listed
<1>3. SetUp = Listed /\ SetUp' = Listed \cup {new}
  BY <1>1, <1>2 DEF SetUp, Unlisted, Building
<1>4. \A p \in Listed : /\ parent'[p] = parent[p] /\ terminal'[p] = terminal[p]
                        /\ own_terminal'[p] = own_terminal[p]
  BY <1>1, <1>2 DEF TypeOK
<1>5. ~own_terminal'[new] /\ name'[new] = "shell"
  BY <1>1, <1>2 DEF TypeOK
<1>6. ASSUME NEW p \in Listed, parent[p] # Nobody
      PROVE  terminal'[p] = terminal'[parent[p]]
  <2>1. parent[p] \in Listed
    BY <1>6, MakingFacts
  <2> QED  BY <1>4, <1>6, <2>1 DEF Lineage
<1> QED  BY <1>2, <1>3, <1>4, <1>5, <1>6 DEF Lineage

(* It gets a terminal.                                                     *)
TerminalTaken ==
  /\ pc = "term" /\ pc' = "page" /\ reg \in Term /\ ~valid[reg]
  /\ valid' = [valid EXCEPT ![reg] = TRUE]
  /\ own_terminal' = [own_terminal EXCEPT ![new] = TRUE]
  /\ terminal' = [terminal EXCEPT ![new] = reg]
  /\ UNCHANGED <<new, queue, parent, name, foreground_task,
                 having_child_running, slot, all_terminal_is_on>>

LEMMA AllocateFacts ==
  ASSUME SpawnAllocate, Up'
  PROVE  \/ TerminalTaken
         \/ /\ pc = "term" /\ pc' = "term" /\ reg \in Term /\ valid[reg]
            /\ reg' = reg + 1
            /\ UNCHANGED <<new, valid, own_terminal, terminal>>
BY DEF SpawnAllocate, SpawnAt, SpawnTakes, TerminalTaken, Up, loopVars

LEMMA LineageAllocate ==
  ASSUME IInv, Up, Lineage, TerminalTaken
  PROVE  Lineage'
<1> "term" \in BuildPc /\ "page" \in BuildPc /\ "page" \in AfterSetup
    /\ "term" \in AfterSetup
  BY PcFacts DEF BuildPc, MakingPc, PagePc
<1>1. /\ TypeOK /\ new \in Pcb \ Listed /\ Unlisted = {new} /\ Listed \subseteq Pcb
  BY MakingFacts DEF TerminalTaken, IInv
<1>2. Listed' = Listed /\ SetUp = Listed \cup {new} /\ SetUp' = SetUp /\ new' = new
  BY <1>1 DEF TerminalTaken, SetUp, Unlisted, Building, Listed
<1>3. \A p \in Listed : /\ parent'[p] = parent[p] /\ terminal'[p] = terminal[p]
                        /\ own_terminal'[p] = own_terminal[p]
  BY <1>1 DEF TerminalTaken, TypeOK
<1>4. own_terminal'[new] /\ name'[new] = "shell" /\ terminal'[new] \in Term
  BY <1>1 DEF TerminalTaken, TypeOK, Lineage
<1>5. ASSUME NEW p \in Listed, parent[p] # Nobody
      PROVE  terminal'[p] = terminal'[parent[p]]
  <2>1. parent[p] \in Listed
    BY <1>5, MakingFacts
  <2> QED  BY <1>3, <1>5, <2>1 DEF Lineage
<1> QED  BY <1>2, <1>3, <1>4, <1>5 DEF Lineage, TerminalTaken

LEMMA LineageStep ==
  ASSUME IInv, [Next]_vars, Up', Lineage
  PROVE  Lineage'
<1> USE DEF pcbVars, cpuVars, SpawnAt, SpawnGoes, SpawnTakes
<1> "setup" \in BuildPc /\ "mark" \notin BuildPc /\ "mark" \notin GoPc
  BY PcFacts DEF BuildPc, CountPc
<1>0. Up /\ TypeOK
  BY StepCases DEF IInv
<1>1. CASE Idle
  <2>1. Listed' = Listed /\ SetUp' = SetUp
    BY <1>1 DEF Idle, Listed, SetUp, Unlisted, Building
  <2> QED  BY <1>0, <1>1, <2>1, LineageFrame DEF Idle
<1>2. CASE TickCharge
  <2>1. Listed' = Listed /\ SetUp' = SetUp
    BY <1>2 DEF TickCharge, initVars, Listed, SetUp, Unlisted, Building
  <2> QED  BY <1>0, <1>2, <2>1, LineageFrame DEF TickCharge, initVars
<1>3. CASE TickPreempt
  <2>1. /\ Listed' = Listed
        /\ UNCHANGED <<parent, own_terminal, terminal, name, pc, new>>
    BY <1>3, PreemptFacts DEF initVars
  <2>2. SetUp' = SetUp
    BY <2>1 DEF SetUp, Unlisted, Building
  <2> QED  BY <1>0, <2>1, <2>2, LineageFrame
<1>4. CASE HaltRoot \/ HaltChild
  <2>1. /\ Listed' = Listed \ {cpu}
        /\ UNCHANGED <<parent, own_terminal, terminal, name, pc, new>>
    BY <1>0, <1>4, HaltRootFacts, HaltChildFacts DEF initVars
  <2>2. SetUp' \subseteq SetUp
    BY <2>1 DEF SetUp, Unlisted, Building
  <2> QED  BY <1>0, <2>1, <2>2, LineageFrame
<1>5. CASE \E nm \in {"shell", "program"}, ok \in BOOLEAN :
             SysExecute(nm, ok) /\ Calls
  BY <1>0, <1>5, LineageExecute
<1>6. CASE LoopStep
  <2>1. OutsideStep
    BY <1>6, LoopFacts
  <2>2. Listed' = Listed /\ SetUp' = SetUp
    BY <2>1, PcFacts DEF OutsideStep, Outside, Listed, SetUp, Unlisted, Building
  <2>3. pc' \notin AfterSetup
    BY <2>1, PcFacts DEF OutsideStep, Outside
  <2> QED  BY <1>0, <2>1, <2>2, <2>3, LineageFrame DEF OutsideStep
<1>7. CASE SpawnMarkPcb
  <2>1. /\ Listed' = Listed /\ pc = "mark" /\ pc' = "setup" /\ new' = new
        /\ UNCHANGED <<parent, own_terminal, terminal, name>>
    BY <1>7 DEF SpawnMarkPcb, Listed
  <2>2. SetUp = Listed /\ SetUp' \subseteq Listed
    BY <2>1 DEF SetUp, Unlisted, Building
  <2>3. pc' \notin AfterSetup
    BY <2>1, PcFacts
  <2> QED  BY <1>0, <2>1, <2>2, <2>3, LineageFrame
<1>8. CASE SpawnSetup
  BY <1>0, <1>8, LineageSetup
<1>9. CASE SpawnAllocate
  <2>1. CASE TerminalTaken
    BY <1>0, <2>1, LineageAllocate
  <2>2. CASE pc = "term" /\ pc' = "term" /\ UNCHANGED <<new, own_terminal, terminal>>
    <3>1. UNCHANGED <<parent, name>> /\ Listed' = Listed
      BY <1>9 DEF SpawnAllocate, Listed
    <3>2. SetUp' = SetUp
      BY <2>2, <3>1 DEF SetUp, Unlisted, Building
    <3> QED  BY <1>0, <2>2, <3>1, <3>2, LineageFrame
  <2> QED  BY <1>9, <2>1, <2>2, AllocateFacts
<1>10. CASE (MakeStep /\ ~SpawnAllocate) \/ SpawnArm \/ SpawnSetTss
  <2>1. /\ Listed' = Listed /\ new' = new
        /\ UNCHANGED <<parent, own_terminal, terminal, name>>
        /\ \/ pc \in MakingPc /\ pc' \in MakingPc
           \/ pc \in GoPc /\ pc' \in GoPc
        /\ pc # "term" /\ pc' # "term"
    <3>1. CASE MakeStep /\ ~SpawnAllocate
      BY <3>1, MakeFrame, MakeRest DEF MakeStep, MakeTerm, Listed
    <3>2. CASE SpawnArm \/ SpawnSetTss
      BY <3>2 DEF SpawnArm, SpawnSetTss, GoPc, Listed
    <3> QED  BY <1>10, <3>1, <3>2
  <2>2. SetUp' = SetUp /\ pc \in AfterSetup
    BY <2>1, PcFacts DEF SetUp, Unlisted, Building
  <2> QED  BY <1>0, <2>1, <2>2, LineageFrame
<1>11. CASE SpawnChoosePage \/ SpawnEnter
  <2>1. /\ Listed' = Listed /\ UNCHANGED <<parent, own_terminal, terminal, name>>
        /\ pc \in {"choose", "enter"}
        /\ \/ new' = new /\ pc' \in {"choose", "map"} /\ pc = "choose"
           \/ pc' \in LoopPc
    BY <1>11, LoopPcFacts DEF SpawnChoosePage, SpawnEnter, SpawnReturns, Listed
  <2>2. /\ pc \in AfterSetup /\ pc # "term" /\ pc # "setup" /\ pc' # "term"
        /\ pc' \in LoopPc \/ (pc' \in MakingPc /\ pc \in MakingPc /\ new' = new)
    BY <2>1 DEF AfterSetup, MakingPc, BuildPc, PagePc, GoPc, LoopPc
  <2>3. SetUp' \subseteq SetUp
    BY <2>1, <2>2, PcFacts DEF SetUp, Unlisted, Building
  <2> QED  BY <1>0, <2>1, <2>2, <2>3, PcFacts, LineageFrame
<1>12. CASE SpawnJoin
  <2>1. /\ pc = "join" /\ pc' = "arm" /\ new' = new
        /\ UNCHANGED <<parent, own_terminal, terminal, name>>
        /\ Listed' = Listed \cup {new} /\ parent[new] = Nobody
        /\ Unlisted = {new} /\ Unlisted' = {}
    BY <1>12, JoinFacts
  <2>2. SetUp' = SetUp /\ "join" \in AfterSetup
    BY <2>1, PcFacts DEF SetUp, MakingPc, BuildPc, ListPc
  <2> QED  BY <2>1, <2>2 DEF Lineage
<1> QED  BY <1>1, <1>2, <1>3, <1>4, <1>5, <1>6, <1>7, <1>8, <1>9, <1>10,
            <1>11, <1>12, StepCases DEF MakeStep, MakeTerm
-----------------------------------------------------------------------------
(* What is left of a quantum is some ticks, and not more than the quantum. *)
Charged(t, q) == t <= q /\ \E k \in 1 .. 255 : t = TimeDecrease * k

TimeOK == \A p \in Listed :
            ~(p = new /\ pc = "arm") => Charged(time[p], Quantum(p))

LEMMA ChargedFacts ==
  /\ \A nm : Charged(QuantumOf(nm), QuantumOf(nm))
  /\ \A t, q : Charged(t, q) => t \in Nat /\ t >= TimeDecrease
  /\ \A q \in Nat : q < Word => \A t :
       Charged(t, q) /\ (t - TimeDecrease) % Word # 0 =>
         Charged((t - TimeDecrease) % Word, q)
<1>1. TimeDecrease \in Nat /\ TimeDecrease >= 1 /\ Word \in Nat /\ Word >= 1
  BY ConstantFacts, TimeAssumption
<1>2. \A nm : Charged(QuantumOf(nm), QuantumOf(nm))
  <2>1. \A k \in 1 .. 255 : TimeDecrease * k \in Nat
    BY <1>1
  <2>2. PICK a \in 1 .. 255 : TimeInit = TimeDecrease * a
    BY TimeAssumption
  <2>3. PICK b \in 1 .. 255 : TimeInitShell = TimeDecrease * b
    BY TimeAssumption
  <2>4. TimeInit <= TimeInit /\ TimeInitShell <= TimeInitShell
    BY <2>1, <2>2, <2>3
  <2> QED  BY <2>2, <2>3, <2>4 DEF Charged, QuantumOf
<1>3. \A k \in 1 .. 255 : TimeDecrease * k \in Nat
                          /\ TimeDecrease * k - TimeDecrease = TimeDecrease * (k - 1)
                          /\ TimeDecrease * k >= TimeDecrease
  <2> TAKE k \in 1 .. 255
  <2>1. TimeDecrease * k = TimeDecrease * (k - 1) + TimeDecrease
    BY <1>1
  <2>2. TimeDecrease * (k - 1) \in Nat
    BY <1>1
  <2> QED  BY <1>1, <2>1, <2>2
<1>4. \A t, q : Charged(t, q) => t \in Nat /\ t >= TimeDecrease
  BY <1>3 DEF Charged
<1>5. ASSUME NEW q \in Nat, q < Word, NEW t, Charged(t, q),
             (t - TimeDecrease) % Word # 0
      PROVE  Charged((t - TimeDecrease) % Word, q)
  <2>1. PICK k \in 1 .. 255 : t = TimeDecrease * k
    BY <1>5 DEF Charged
  <2> DEFINE d == TimeDecrease * (k - 1)
  <2>2. t \in Nat /\ t <= q /\ t - TimeDecrease = d /\ d \in Int
    <3>1. t \in Nat /\ t - TimeDecrease = d
      BY <1>3, <2>1
    <3>2. t - TimeDecrease \in Int
      BY <1>1, <3>1
    <3> QED  BY <1>5, <3>1, <3>2 DEF Charged
  <2>3. d \in 0 .. Word - 1 /\ d <= q
    <3>1. TimeDecrease * k >= TimeDecrease
      BY <1>3, <2>1
    <3> HIDE DEF d
    <3> QED  BY <1>1, <1>5, <2>1, <2>2, <3>1
  <2>4. (t - TimeDecrease) % Word = d
    <3> HIDE DEF d
    <3> QED  BY <1>1, <2>2, <2>3
  <2>5. d # 0
    BY <1>5, <2>4
  <2>6. k # 1
    BY <1>1, <2>5
  <2>7. k - 1 \in 1 .. 255
    BY <2>1, <2>6
  <2> QED  BY <2>3, <2>4, <2>7 DEF Charged
<1> QED  BY <1>2, <1>4, <1>5

(* Most steps leave time and name of every listed task alone.              *)
LEMMA TimeFrame ==
  ASSUME TimeOK, Listed' \subseteq Listed,
         \A p \in Listed : time'[p] = time[p] /\ name'[p] = name[p],
         pc = "arm" => pc' = "arm" /\ new' = new
  PROVE  TimeOK'
BY DEF TimeOK, Quantum

(* One task gets a time that fits its quantum.                             *)
LEMMA TimeSet ==
  ASSUME TypeOK, TimeOK, NEW c \in Pcb, Listed \subseteq Pcb,
         Listed' \subseteq Listed \cup {c},
         NEW t, time' = [time EXCEPT ![c] = t], Charged(t, QuantumOf(name'[c])),
         \A p \in Listed \ {c} : name'[p] = name[p],
         pc = "arm" /\ new # c => pc' = "arm" /\ new' = new
  PROVE  TimeOK'
<1> SUFFICES ASSUME NEW p \in Listed', ~(p = new' /\ pc' = "arm")
             PROVE  Charged(time'[p], QuantumOf(name'[p]))
  BY DEF TimeOK, Quantum
<1>1. CASE p = c
  BY <1>1 DEF TypeOK
<1>2. CASE p # c
  <2>1. p \in Listed /\ time'[p] = time[p] /\ name'[p] = name[p]
    BY <1>2 DEF TypeOK
  <2>2. ~(p = new /\ pc = "arm")
    BY <1>2
  <2> QED  BY <2>1, <2>2 DEF TimeOK, Quantum
<1> QED  BY <1>1, <1>2

LEMMA TimeTick ==
  ASSUME IInv, Up, TimeOK, TickCharge \/ TickPreempt
  PROVE  TimeOK'
<1>1. /\ TypeOK /\ Listed \subseteq Pcb /\ cpu \in Listed /\ cpu \in Pcb
      /\ ~(cpu = new /\ pc = "arm")
  BY MakingFacts DEF IInv, TypeOK, GoPc
<1>2. CASE TickCharge
  <2>1. /\ time' = [time EXCEPT ![cpu] = Remaining(cpu)] /\ Remaining(cpu) # 0
        /\ UNCHANGED <<queue, name, pc, new>>
    BY <1>2 DEF TickCharge, QuantumOver, initVars
  <2>2. Quantum(cpu) \in Nat /\ Quantum(cpu) < Word
        /\ Charged(time[cpu], Quantum(cpu))
    BY <1>1, ConstantFacts, TimeFacts DEF TimeOK
  <2>3. Charged(Remaining(cpu), Quantum(cpu))
    BY <2>1, <2>2, ChargedFacts DEF Remaining
  <2> QED  BY <1>1, <2>1, <2>3, TimeSet DEF Listed, Quantum
<1>3. CASE TickPreempt
  <2>1. /\ Listed' = Listed /\ UNCHANGED <<name, pc, new>>
        /\ time' = IF cpu \in IdlePcb THEN time
                   ELSE [time EXCEPT ![cpu] = Quantum(cpu)]
    BY <1>3, PreemptFacts DEF initVars
  <2>2. CASE cpu \in IdlePcb
    BY <2>1, <2>2, TimeFrame
  <2>3. CASE cpu \notin IdlePcb
    BY <1>1, <2>1, <2>3, ChargedFacts, TimeSet DEF Quantum
  <2> QED  BY <2>2, <2>3
<1> QED  BY <1>2, <1>3

LEMMA TimeExecute ==
  ASSUME IInv, Up, Up', TimeOK, NEW nm, NEW ok, SysExecute(nm, ok), Calls
  PROVE  TimeOK'
<1>1. TypeOK /\ Listed \subseteq Pcb
  BY MakingFacts DEF IInv
<1>2. pc = "arm" => pc' = "arm" /\ new' = new
  BY DEF Calls
<1>3. CASE NoPcbFound
  BY <1>2, <1>3, TimeFrame DEF NoPcbFound, Listed
<1>4. ASSUME NEW c \in Pcb, Fresh(c), FillPcb(c, nm), ExecuteFails(c)
      PROVE  TimeOK'
  <2>1. \A p \in Listed : time'[p] = time[p] /\ name'[p] = name[p]
    BY <1>1, <1>4 DEF FillPcb, ExecuteFails, Fresh, TypeOK
  <2>2. Listed' = Listed
    BY <1>4 DEF ExecuteFails, Listed
  <2> QED  BY <1>2, <2>1, <2>2, TimeFrame
<1>5. ASSUME NEW c \in Pcb, Fresh(c), FillPcb(c, nm), Listed' = Listed \cup {c},
             NEW g, ExecuteStarts(c, g, nm)
      PROVE  TimeOK'
  <2>1. /\ time' = [time EXCEPT ![c] = QuantumOf(nm)] /\ name'[c] = nm
        /\ \A p \in Listed \ {c} : name'[p] = name[p]
    BY <1>1, <1>5 DEF FillPcb, ExecuteStarts, TypeOK
  <2> QED  BY <1>1, <1>2, <1>5, <2>1, ChargedFacts, TimeSet
<1>6. ASSUME NEW c \in Pcb, ExecuteFindsNoNode, Up'
      PROVE  TimeOK'
  BY <1>6 DEF ExecuteFindsNoNode, Up
<1> QED  BY <1>3, <1>4, <1>5, <1>6, ExecuteCases

LEMMA TimeStep ==
  ASSUME IInv, [Next]_vars, Up', Lineage, TimeOK
  PROVE  TimeOK'
<1> USE DEF pcbVars, cpuVars, SpawnAt, SpawnGoes, SpawnTakes
<1>0. Up /\ TypeOK /\ Listed \subseteq Pcb
  BY StepCases, MakingFacts DEF IInv
<1>1. CASE Idle
  BY <1>1, TimeFrame DEF Idle, Listed
<1>2. CASE TickCharge \/ TickPreempt
  BY <1>0, <1>2, TimeTick
<1>3. CASE HaltRoot
  BY <1>0, <1>3, HaltRootFacts, TimeFrame DEF initVars
<1>4. CASE HaltChild
  <2>1. /\ Listed' = Listed \ {cpu} /\ cpu' \in Pcb
        /\ cpu' \in Listed
        /\ time' = [time EXCEPT ![cpu'] = Quantum(cpu')]
        /\ UNCHANGED <<name, pc, new>>
    BY <1>0, <1>4, HaltChildFacts DEF initVars
  <2> QED  BY <1>0, <2>1, ChargedFacts, TimeSet DEF Quantum
<1>5. CASE \E nm \in {"shell", "program"}, ok \in BOOLEAN :
             SysExecute(nm, ok) /\ Calls
  BY <1>0, <1>5, TimeExecute
<1>6. CASE LoopStep
  <2>1. OutsideStep
    BY <1>6, LoopFacts
  <2>2. pc # "arm"
    BY <2>1 DEF OutsideStep, Outside, LoopPc, CountPc
  <2> QED  BY <2>1, <2>2, TimeFrame DEF OutsideStep, Listed
<1>7. CASE SpawnSetup
  <2>1. /\ pc = "setup" /\ UNCHANGED <<queue, time>>
        /\ name' = [name EXCEPT ![new] = "shell"]
    BY <1>7 DEF SpawnSetup
  <2>2. \A p \in Listed : name'[p] = name[p]
    BY <1>0, <2>1, MakingFacts, PcFacts DEF TypeOK
  <2> QED  BY <2>1, <2>2, TimeFrame DEF Listed
<1>8. CASE SpawnMarkPcb \/ SpawnChoosePage \/ MakeStep \/ SpawnSetTss
           \/ SpawnEnter
  <2>1. pc # "arm" /\ UNCHANGED <<queue, time, name>>
    BY <1>8, MakeFrame, PcFacts DEF SpawnMarkPcb, SpawnChoosePage, SpawnSetTss,
       SpawnEnter, GoPc
  <2> QED  BY <2>1, TimeFrame DEF Listed
<1>9. CASE SpawnJoin
  <2>1. /\ Listed' = Listed \cup {new} /\ new' = new /\ pc' = "arm"
        /\ pc = "join" /\ UNCHANGED <<time, name>>
    BY <1>9, JoinFacts
  <2> QED  BY <2>1 DEF TimeOK, Quantum
<1>10. CASE SpawnArm
  <2>1. /\ pc = "arm" /\ time' = [time EXCEPT ![new] = TimeInitShell]
        /\ UNCHANGED <<queue, name>>
    BY <1>10 DEF SpawnArm
  <2>2. name[new] = "shell" /\ new \in Pcb
    BY <1>0, <2>1, MakingFacts, PcFacts DEF Lineage, GoPc
  <2>3. Charged(TimeInitShell, QuantumOf(name'[new]))
    BY <2>1, <2>2, ChargedFacts DEF QuantumOf
  <2> QED  BY <1>0, <2>1, <2>2, <2>3, TimeSet DEF Listed
<1> QED  BY <1>1, <1>2, <1>3, <1>4, <1>5, <1>6, <1>7, <1>8, <1>9, <1>10,
            StepCases
-----------------------------------------------------------------------------
(* Owners and pages correspond one to one, and n_page_in_use counts them.  *)
HoldPc == {"pid"} \cup ShowPc \cup ListPc

(* The count, without the page that init has counted and not yet marked    *)
PageCount == n_page_in_use - (IF pc = "status" THEN 1 ELSE 0)

PagesOK ==
  /\ pid[InitTask] = NoPage
  /\ \A p \in PageOwners : PageOf(p) \in Page
  /\ \A p, q \in PageOwners : PageOf(p) = PageOf(q) => p = q
  /\ \A g \in Page : page_status[g] <=> \E p \in PageOwners : PageOf(p) = g
  /\ PageCount = Cardinality(PageOwners)

LEMMA HoldFacts ==
  /\ HoldPc \subseteq MakingPc /\ HoldPc \cap GoPc = {} /\ HoldPc \cap Outside = {}
  /\ "setup" \notin HoldPc /\ "status" \notin HoldPc /\ "term" \notin HoldPc
  /\ "page" \notin HoldPc /\ "choose" \notin HoldPc /\ "map" \notin HoldPc
  /\ "load_p" \notin HoldPc /\ "store_p" \notin HoldPc
  /\ "status" \notin GoPc /\ "status" \notin Outside /\ "status" # "setup"
BY DEF HoldPc, MakingPc, BuildPc, PagePc, ShowPc, ListPc, GoPc, Outside, LoopPc,
       CountPc

LEMMA OwnerFacts ==
  ASSUME IInv, Up
  PROVE  /\ PageOwners \subseteq Pcb \ {InitTask} /\ IsFiniteSet(PageOwners)
         /\ \A p \in PageOwners : present[p] /\ p \in Listed \cup Unlisted
         /\ PageOwners = (Listed \ {InitTask})
                         \cup (IF pc \in HoldPc THEN {new} ELSE {})
<1>1. PageOwners = (Listed \ {InitTask})
                   \cup (IF pc \in HoldPc THEN {new} ELSE {})
  BY DEF PageOwners, HoldPc
<1>2. /\ PageOwners \subseteq Pcb \ {InitTask}
      /\ \A p \in PageOwners : present[p] /\ p \in Listed \cup Unlisted
  BY <1>1, MakingFacts, PcFacts, HoldFacts
<1>3. IsFiniteSet(Pcb)
  BY PcbAssumption, FS_Interval DEF Pcb
<1> QED  BY <1>1, <1>2, <1>3, FS_Subset

(* All but one of the PCBs never use up as many pages, or nodes, as there  *)
(* are PCBs.                                                               *)
LEMMA Spare ==
  ASSUME NEW B, IsFiniteSet(B), Cardinality(B) >= NPcb, NEW c \in Pcb, NEW f
  PROVE  \E b \in B : \A a \in Pcb \ {c} : f[a] # b
<1> SUFFICES ASSUME \A b \in B : \E a \in Pcb \ {c} : f[a] = b  PROVE FALSE
  OBVIOUS
<1> DEFINE U == {a \in Pcb \ {c} : f[a] \in B}
           h == [a \in U |-> f[a]]
<1>1. h \in Surjection(U, B)
  <2>1. h \in [U -> B]
    OBVIOUS
  <2>2. \A b \in B : \E a \in U : h[a] = b
    OBVIOUS
  <2> QED  BY <2>1, <2>2 DEF Surjection
<1>2. IsFiniteSet(Pcb) /\ Cardinality(Pcb) = NPcb /\ NPcb \in Nat
  BY PcbAssumption, FS_Interval DEF Pcb
<1>3. IsFiniteSet(Pcb \ {c}) /\ Cardinality(Pcb \ {c}) = NPcb - 1
  BY <1>2, FS_RemoveElement
<1>4. U \subseteq Pcb \ {c}
  OBVIOUS
<1> HIDE DEF U, h
<1>5. IsFiniteSet(U) /\ Cardinality(U) <= NPcb - 1
  BY <1>3, <1>4, FS_Subset
<1>6. Cardinality(B) <= Cardinality(U)
  BY <1>1, <1>5, FS_Surjection
<1>7. Cardinality(B) \in Nat /\ Cardinality(U) \in Nat
  BY <1>5, FS_CardinalityType
<1> QED  BY <1>2, <1>5, <1>6, <1>7

(* The reset of the table when no page is in use changes nothing, and the  *)
(* page that is chosen is never one in use.                                *)
LEMMA FreePageFacts ==
  ASSUME IInv, Up, PagesOK
  PROVE  /\ n_page_in_use = 0 => \A g \in Page : ~page_status[g]
         /\ FreePages = {g \in Page : ~page_status[g]}
         /\ FreePages # {}
<1>1. /\ PageOwners \subseteq Pcb \ {InitTask} /\ IsFiniteSet(PageOwners)
      /\ n_page_in_use \in Int
  BY OwnerFacts DEF IInv, TypeOK
<1>2. n_page_in_use = 0 => \A g \in Page : ~page_status[g]
  <2>1. Cardinality(PageOwners) \in Nat
    BY <1>1, FS_CardinalityType
  <2>2. n_page_in_use = 0 => Cardinality(PageOwners) = 0
    BY <1>1, <2>1 DEF PagesOK, PageCount
  <2> QED  BY <1>1, <2>2, FS_EmptySet DEF PagesOK
<1>3. FreePages = {g \in Page : ~page_status[g]}
  BY <1>2 DEF FreePages
<1>4. \E g \in Page : ~page_status[g]
  <2>1. IsFiniteSet(Page) /\ Cardinality(Page) >= NPcb /\ InitTask \in Pcb
    BY PcbAssumption, FS_Interval DEF Page, Pcb, InitTask
  <2> DEFINE f == [p \in Pcb |-> PageOf(p)]
  <2>2. PICK g \in Page : \A p \in Pcb \ {InitTask} : f[p] # g
    <3> HIDE DEF f
    <3> QED  BY <2>1, Spare
  <2>3. \A p \in PageOwners : PageOf(p) # g
    BY <1>1, <2>2
  <2> QED  BY <2>3 DEF PagesOK
<1> QED  BY <1>2, <1>3, <1>4

LEMMA PageFrame ==
  ASSUME IInv, Up, PagesOK, PageOwners' = PageOwners,
         pid'[InitTask] = pid[InitTask],
         \A p \in PageOwners : PageOf(p)' = PageOf(p),
         \A g \in Page : page_status'[g] = page_status[g],
         PageCount' = PageCount
  PROVE  PagesOK'
<1>1. \A p \in PageOwners' : PageOf(p)' \in Page
  BY DEF PagesOK
<1>2. \A p, q \in PageOwners' : PageOf(p)' = PageOf(q)' => p = q
  BY DEF PagesOK
<1>3. \A g \in Page : page_status'[g] <=> \E p \in PageOwners' : PageOf(p)' = g
  BY DEF PagesOK
<1> QED  BY <1>1, <1>2, <1>3 DEF PagesOK

LEMMA PageTaken ==
  ASSUME IInv, Up, PagesOK, NEW c \in Pcb, c \notin PageOwners, c # InitTask,
         NEW g \in Page, ~page_status[g], PageOwners' = PageOwners \cup {c},
         pid'[InitTask] = pid[InitTask],
         \A p \in PageOwners : PageOf(p)' = PageOf(p), PageOf(c)' = g,
         page_status' = [page_status EXCEPT ![g] = TRUE],
         PageCount' = PageCount + 1
  PROVE  PagesOK'
<1>1. /\ PageOwners \subseteq Pcb \ {InitTask} /\ IsFiniteSet(PageOwners)
      /\ TypeOK
  BY OwnerFacts DEF IInv
<1>2. \A p \in PageOwners : PageOf(p) # g
  BY DEF PagesOK
<1>3. \A p \in PageOwners' : PageOf(p)' \in Page
  BY DEF PagesOK
<1>4. \A p, q \in PageOwners' : PageOf(p)' = PageOf(q)' => p = q
  BY <1>2 DEF PagesOK
<1>5. \A h \in Page : page_status'[h] <=> \E p \in PageOwners' : PageOf(p)' = h
  BY <1>1, <1>2 DEF TypeOK, PagesOK
<1>6. PageCount' = Cardinality(PageOwners')
  BY <1>1, FS_AddElement DEF PagesOK
<1> QED  BY <1>3, <1>4, <1>5, <1>6 DEF PagesOK

LEMMA PageGivenBack ==
  ASSUME IInv, Up, PagesOK, cpu \in PageOwners, cpu # new \/ pc # "pid",
         PcbAndPageFreed, UNCHANGED <<pid, pc, new, reg>>,
         PageOwners' = PageOwners \ {cpu}
  PROVE  PagesOK' /\ page_status[pid[cpu]]
<1>1. /\ PageOwners \subseteq Pcb \ {InitTask} /\ IsFiniteSet(PageOwners)
      /\ TypeOK
  BY OwnerFacts DEF IInv
<1>2. PageOf(cpu) = pid[cpu] /\ pid[cpu] \in Page /\ page_status[pid[cpu]]
  BY DEF PagesOK, PageOf
<1>3. /\ page_status' = [page_status EXCEPT ![pid[cpu]] = FALSE]
      /\ n_page_in_use' = n_page_in_use - 1
  BY <1>2 DEF PcbAndPageFreed
<1>4. \A p : PageOf(p)' = PageOf(p)
  BY DEF PageOf
<1>5. pid'[InitTask] = NoPage /\ \A p \in PageOwners' : PageOf(p)' \in Page
  BY <1>4 DEF PagesOK
<1>6. \A p, q \in PageOwners' : PageOf(p)' = PageOf(q)' => p = q
  BY <1>4 DEF PagesOK
<1>7. \A h \in Page : page_status'[h] <=> \E p \in PageOwners' : PageOf(p)' = h
  <2> SUFFICES ASSUME NEW h \in Page
               PROVE  page_status'[h] <=>
                        \E p \in PageOwners \ {cpu} : PageOf(p) = h
    BY <1>4
  <2>1. CASE h = pid[cpu]
    BY <1>1, <1>2, <1>3, <2>1 DEF TypeOK, PagesOK
  <2>2. CASE h # pid[cpu]
    BY <1>1, <1>2, <1>3, <2>2 DEF TypeOK, PagesOK
  <2> QED  BY <2>1, <2>2
<1>8. PageCount' = Cardinality(PageOwners')
  <2>1. PageCount' = PageCount - 1
    BY <1>1, <1>3 DEF PageCount, TypeOK
  <2> QED  BY <1>1, <2>1, FS_RemoveElement DEF PagesOK
<1> QED  BY <1>2, <1>5, <1>6, <1>7, <1>8 DEF PagesOK

LEMMA PagesExecute ==
  ASSUME IInv, Up, Up', PagesOK, NEW nm, NEW ok, SysExecute(nm, ok), Calls
  PROVE  PagesOK'
<1>1. TypeOK
  BY DEF IInv
<1>2. /\ UNCHANGED <<new, reg>> /\ (pc' \in HoldPc <=> pc \in HoldPc)
      /\ (pc' = "pid" <=> pc = "pid") /\ (pc' = "status" <=> pc = "status")
  BY DEF Calls, HoldPc, ShowPc, ListPc
<1>3. \A p : (p # new \/ pc # "pid") => PageOf(p) = pid[p] /\ PageOf(p)' = pid'[p]
  BY <1>2 DEF PageOf
<1>4. pc = "pid" => PageOf(new)' = PageOf(new)
  BY <1>2 DEF PageOf
<1>5. CASE NoPcbFound \/ \E c \in Pcb : ExecuteFails(c)
  <2>1. UNCHANGED <<queue, pid, page_status, n_page_in_use>>
    BY <1>5 DEF NoPcbFound, ExecuteFails, pageVars
  <2>2. PageOwners' = PageOwners /\ PageCount' = PageCount
    BY <1>2, <2>1 DEF PageOwners, HoldPc, Listed, PageCount
  <2>3. \A p : PageOf(p)' = PageOf(p)
    BY <1>2, <2>1 DEF PageOf
  <2> QED  BY <2>1, <2>2, <2>3, PageFrame
<1>6. ASSUME NEW c \in Pcb, Fresh(c), FillPcb(c, nm), Listed' = Listed \cup {c},
             NEW g \in FreePages, ExecuteStarts(c, g, nm)
      PROVE  PagesOK'
  <2>1. g \in Page /\ ~page_status[g]
    BY FreePageFacts
  <2>2. /\ pid' = [pid EXCEPT ![c] = g]
        /\ page_status' = [page_status EXCEPT ![g] = TRUE]
        /\ PageCount' = PageCount + 1
    BY <1>1, <1>2, <1>6 DEF ExecuteStarts, PageCount, TypeOK
  <2>3. c \notin PageOwners /\ c # InitTask /\ (pc = "pid" => c # new)
    BY <1>6, OwnerFacts, PcFacts, HoldFacts DEF Fresh, HoldPc
  <2>4. PageOwners' = PageOwners \cup {c}
    BY <1>2, <1>6, <2>3 DEF PageOwners, HoldPc
  <2>5. \A p \in Pcb \ {c} : pid'[p] = pid[p]
    BY <1>1, <2>2 DEF TypeOK
  <2>6. PageOf(c)' = g /\ pid'[InitTask] = pid[InitTask]
    BY <1>1, <1>3, <2>2, <2>3, <2>5, ConstantFacts DEF TypeOK
  <2>7. \A p \in PageOwners : PageOf(p)' = PageOf(p)
    <3> TAKE p \in PageOwners
    <3>1. p \in Pcb \ {c}
      BY <2>3, OwnerFacts
    <3>2. CASE p = new /\ pc = "pid"
      BY <1>2, <1>4, <3>2
    <3>3. CASE ~(p = new /\ pc = "pid")
      <4>1. PageOf(p) = pid[p] /\ PageOf(p)' = pid'[p]
        BY <1>3, <3>3
      <4> QED  BY <2>5, <3>1, <4>1
    <3> QED  BY <3>2, <3>3
  <2> QED  BY <2>1, <2>2, <2>3, <2>4, <2>6, <2>7, PageTaken
<1>7. CASE ExecuteFindsNoNode
  BY <1>7 DEF ExecuteFindsNoNode, Up
<1> QED  BY <1>5, <1>6, <1>7, ExecuteCases

(* Init's own steps that touch pages                                       *)
LEMMA PagesInit ==
  ASSUME IInv, Up, Up', PagesOK, MakePage
  PROVE  PagesOK'
<1> USE DEF SpawnAt, SpawnGoes, SpawnTakes, SpawnLoads
<1>1. /\ TypeOK /\ Locals /\ new \in Pcb \ Listed /\ new # InitTask
      /\ new' = new /\ Listed' = Listed
  <2>1. MakeStep
    BY DEF MakeStep
  <2>2. pc \in BuildPc
    BY <2>1, MakeFrame, PcFacts
  <2> QED  BY <2>1, <2>2, MakeFrame, MakingFacts DEF IInv, Listed
<1>2. CASE SpawnResetPages \/ SpawnMapPage \/ SpawnLoadPages \/ SpawnStorePages
  <2>1. /\ pc \notin HoldPc /\ pc' \notin HoldPc
        /\ PageCount' = PageCount /\ pid' = pid
    <3>1. CASE SpawnResetPages \/ SpawnMapPage \/ SpawnLoadPages
      BY <3>1, HoldFacts DEF SpawnResetPages, SpawnMapPage, SpawnLoadPages,
         PageCount, pcbVars, pageVars
    <3>2. CASE SpawnStorePages
      <4>1. n_page_in_use' = n_page_in_use + 1 /\ pc = "store_p" /\ pc' = "status"
        BY <3>2 DEF SpawnStorePages, Up
      <4> QED  BY <1>1, <3>2, <4>1, HoldFacts
               DEF SpawnStorePages, PageCount, pcbVars, TypeOK
    <3> QED  BY <1>2, <3>1, <3>2
  <2>2. PageOwners' = PageOwners /\ \A p : PageOf(p)' = PageOf(p)
    BY <1>1, <2>1 DEF PageOwners, HoldPc, PageOf
  <2>3. \A g \in Page : page_status'[g] = page_status[g]
    <3>1. CASE SpawnResetPages /\ n_page_in_use = 0
      BY <1>1, <3>1, FreePageFacts DEF SpawnResetPages, TypeOK
    <3>2. CASE ~(SpawnResetPages /\ n_page_in_use = 0)
      BY <1>2, <3>2 DEF SpawnResetPages, SpawnMapPage, SpawnLoadPages,
         SpawnStorePages, pageVars
    <3> QED  BY <3>1, <3>2
  <2> QED  BY <2>1, <2>2, <2>3, PageFrame
<1>3. CASE SpawnMarkPage
  <2>1. /\ pc = "status" /\ pc' = "pid" /\ UNCHANGED <<pid, reg, n_page_in_use>>
        /\ page_status' = [page_status EXCEPT ![reg] = TRUE]
        /\ ~page_status[reg]
    BY <1>3 DEF SpawnMarkPage, pcbVars, Up
  <2>2. reg \in Page
    BY <1>1, <2>1 DEF Locals, ChosenPc
  <2>3. new \notin PageOwners /\ PageOwners' = PageOwners \cup {new}
    BY <1>1, <2>1, HoldFacts DEF PageOwners, HoldPc, ShowPc, ListPc
  <2>4. \A p \in PageOwners : PageOf(p)' = PageOf(p)
    BY <1>1, <2>1, <2>3 DEF PageOf
  <2>5. PageOf(new)' = reg /\ PageCount' = PageCount + 1
    BY <1>1, <2>1 DEF PageOf, PageCount, TypeOK
  <2> QED  BY <1>1, <2>1, <2>2, <2>3, <2>4, <2>5, PageTaken
<1>4. CASE SpawnSetPid
  <2>1. /\ pc = "pid" /\ pc' = "focus" /\ UNCHANGED <<page_status, n_page_in_use>>
        /\ pid' = [pid EXCEPT ![new] = reg]
    BY <1>4 DEF SpawnSetPid, pageVars
  <2>2. PageOwners' = PageOwners /\ PageCount' = PageCount
    BY <1>1, <2>1 DEF PageOwners, PageCount, ShowPc
  <2>3. \A p \in PageOwners : PageOf(p)' = PageOf(p)
    BY <1>1, <2>1, OwnerFacts DEF PageOf, TypeOK
  <2>4. pid'[InitTask] = pid[InitTask]
    BY <1>1, <2>1, ConstantFacts DEF TypeOK
  <2> QED  BY <2>1, <2>2, <2>3, <2>4, PageFrame
<1> QED  BY <1>2, <1>3, <1>4 DEF MakePage

(* A step that leaves pages and owners alone                               *)
LEMMA PageQuiet ==
  ASSUME IInv, Up, PagesOK, UNCHANGED <<pid, page_status, n_page_in_use>>,
         PageOwners' = PageOwners, pc # "pid", pc # "status",
         pc' # "pid", pc' # "status"
  PROVE  PagesOK'
<1>1. PageCount' = PageCount /\ \A p : PageOf(p)' = PageOf(p)
  BY DEF PageCount, PageOf
<1> QED  BY <1>1, PageFrame

LEMMA PagesStep ==
  ASSUME IInv, [Next]_vars, Up', PagesOK
  PROVE  PagesOK'
<1> USE DEF pcbVars, pageVars, cpuVars, SpawnAt, SpawnGoes, SpawnTakes
<1>0. Up /\ TypeOK
  BY StepCases DEF IInv
<1>1. CASE Idle \/ TickCharge \/ TickPreempt
  <2>1. /\ Listed' = Listed
        /\ UNCHANGED <<pid, page_status, n_page_in_use, pc, new, reg>>
    <3>1. CASE Idle \/ TickCharge
      BY <3>1 DEF Idle, TickCharge, initVars, Listed
    <3>2. CASE TickPreempt
      BY <3>2, PreemptFacts DEF initVars
    <3> QED  BY <1>1, <3>1, <3>2
  <2>2. PageOwners' = PageOwners /\ PageCount' = PageCount
        /\ \A p : PageOf(p)' = PageOf(p)
    BY <2>1 DEF PageOwners, PageCount, PageOf
  <2> QED  BY <1>0, <2>1, <2>2, PageFrame
<1>2. CASE HaltRoot \/ HaltChild
  <2>1. /\ Listed' = Listed \ {cpu} /\ cpu \in Listed /\ cpu # InitTask
        /\ cpu \notin Unlisted /\ PcbAndPageFreed
        /\ UNCHANGED <<pid, pc, new, reg>>
    BY <1>0, <1>2, HaltRootFacts, HaltChildFacts DEF initVars
  <2>2. pc \in HoldPc => cpu # new
    BY <2>1, PcFacts, HoldFacts DEF Unlisted, Building
  <2>3. cpu \in PageOwners /\ PageOwners' = PageOwners \ {cpu}
    BY <2>1, <2>2 DEF PageOwners, HoldPc
  <2> QED  BY <1>0, <2>1, <2>2, <2>3, PageGivenBack DEF HoldPc
<1>3. CASE \E nm \in {"shell", "program"}, ok \in BOOLEAN :
             SysExecute(nm, ok) /\ Calls
  BY <1>0, <1>3, PagesExecute
<1>4. CASE LoopStep
  <2>1. OutsideStep
    BY <1>4, LoopFacts
  <2>2. pc \notin HoldPc /\ pc' \notin HoldPc
        /\ pc # "status" /\ pc' # "status"
    BY <2>1, HoldFacts DEF OutsideStep
  <2>3. PageOwners' = PageOwners
    BY <2>1, <2>2 DEF OutsideStep, PageOwners, HoldPc, Listed
  <2> QED  BY <1>0, <2>1, <2>2, <2>3, PageQuiet DEF OutsideStep, HoldPc
<1>5. CASE SpawnMarkPcb \/ SpawnSetup \/ SpawnChoosePage \/ MakeTerm \/ SpawnArm
           \/ SpawnSetTss \/ SpawnEnter
  <2>1. /\ UNCHANGED <<queue, pid, page_status, n_page_in_use>>
        /\ pc \in {"mark", "setup", "choose", "term"} \cup GoPc
        /\ pc' \in {"setup", "term", "page", "choose", "map"} \cup GoPc \cup LoopPc
    BY <1>5, LoopPcFacts DEF SpawnMarkPcb, SpawnSetup, SpawnChoosePage, MakeTerm,
       SpawnAllocate, SpawnArm, SpawnSetTss, SpawnEnter, SpawnReturns, GoPc
  <2>2. pc \notin HoldPc /\ pc' \notin HoldPc
        /\ pc # "status" /\ pc' # "status"
    BY <2>1, HoldFacts DEF Outside, CountPc
  <2>3. PageOwners' = PageOwners
    BY <2>1, <2>2 DEF PageOwners, HoldPc, Listed
  <2> QED  BY <1>0, <2>1, <2>2, <2>3, PageQuiet DEF HoldPc
<1>6. CASE MakePage
  BY <1>0, <1>6, PagesInit
<1>7. CASE MakeShow \/ MakeNode
  <2>1. /\ UNCHANGED <<queue, new, pid, page_status, n_page_in_use>>
        /\ pc \in ShowPc \cup ListPc /\ pc' \in ShowPc \cup ListPc
    <3>1. CASE MakeShow
      BY <3>1 DEF MakeShow, SpawnFocus, SpawnShow, SpawnAttach, ShowPc, ListPc
    <3>2. CASE MakeNode
      BY <3>2 DEF MakeNode, SpawnFindNode, SpawnTakeNode, SpawnLoadLast,
         SpawnLinkLast, ListPc
    <3> QED  BY <1>7, <3>1, <3>2
  <2>2. PageOwners' = PageOwners
    BY <2>1 DEF PageOwners, Listed
  <2>3. pc \notin {"pid", "status"} /\ pc' \notin {"pid", "status"}
    BY <2>1 DEF ShowPc, ListPc
  <2> QED  BY <1>0, <2>1, <2>2, <2>3, PageQuiet
<1>8. CASE SpawnJoin
  <2>1. /\ Listed' = Listed \cup {new} /\ new' = new /\ new # InitTask
        /\ pc = "join" /\ pc' = "arm"
        /\ UNCHANGED <<pid, page_status, n_page_in_use>>
    BY <1>8, JoinFacts
  <2>2. PageOwners' = PageOwners
    BY <2>1 DEF PageOwners, ListPc, ShowPc
  <2> QED  BY <1>0, <2>1, <2>2, PageQuiet
<1> QED  BY <1>1, <1>2, <1>3, <1>4, <1>5, <1>6, <1>7, <1>8, StepCases
         DEF MakeStep
-----------------------------------------------------------------------------
(* The order of the queue: what appending, removing and rescheduling leave *)
(* of it.                                                                  *)
Before(q, a, b) == \E i, j \in DOMAIN q : i < j /\ q[i] = a /\ q[j] = b

LEMMA BeforeFacts ==
  ASSUME NEW q \in Seq(Pcb), IsInjective(q), NEW a \in ToSet(q), NEW b \in ToSet(q)
  PROVE  IndexOf(q, a) < IndexOf(q, b) <=> Before(q, a, b)
<1>1. \A p \in ToSet(q) : IndexOf(q, p) \in DOMAIN q /\ q[IndexOf(q, p)] = p
  BY DEF IndexOf, ToSet
<1>2. \A i, j \in DOMAIN q : q[i] = q[j] => i = j
  BY DEF IsInjective
<1> QED  BY <1>1, <1>2 DEF Before

LEMMA OrderAppended ==
  ASSUME NEW q \in Seq(Pcb), NEW c \in Pcb, NEW a, NEW b, Before(q, a, b)
  PROVE  Before(Append(q, c), a, b)
<1>1. /\ DOMAIN q = 1 .. Len(q) /\ Len(q) \in Nat
      /\ DOMAIN Append(q, c) = 1 .. Len(q) + 1
      /\ \A i \in 1 .. Len(q) : Append(q, c)[i] = q[i]
  BY LenProperties, AppendProperties
<1>2. PICK i \in DOMAIN q : \E j \in DOMAIN q : i < j /\ q[i] = a /\ q[j] = b
  BY DEF Before
<1>3. PICK j \in DOMAIN q : i < j /\ q[i] = a /\ q[j] = b
  BY <1>2
<1>4. i \in DOMAIN Append(q, c) /\ j \in DOMAIN Append(q, c)
  BY <1>1
<1> QED  BY <1>1, <1>3, <1>4 DEF Before

LEMMA OrderUnlinked ==
  ASSUME NEW q \in Seq(Pcb), IsInjective(q), NEW x \in ToSet(q),
         NEW a, NEW b, a # x, b # x, Before(q, a, b)
  PROVE  Before(Unlinked(q, x), a, b)
<1> DEFINE k == IndexOf(q, x)
           u == RemoveAt(q, k)
           at(i) == IF i < k THEN i ELSE i - 1
<1>1. /\ DOMAIN q = 1 .. Len(q) /\ Len(q) \in Nat
      /\ k \in 1 .. Len(q) /\ q[k] = x
  BY LenProperties DEF IndexOf, ToSet
<1> HIDE DEF k
<1>2. /\ DOMAIN u = 1 .. Len(q) - 1
      /\ \A i \in 1 .. Len(q) - 1 : u[i] = IF i < k THEN q[i] ELSE q[i + 1]
  <2>1. u \in Seq(Pcb) /\ Len(u) = Len(q) - 1
        /\ \A i \in 1 .. Len(q) - 1 : u[i] = IF i < k THEN q[i] ELSE q[i + 1]
    BY <1>1, RemovedFacts
  <2> QED  BY <2>1, LenProperties
<1> HIDE DEF u
<1>3. \A i \in DOMAIN q : q[i] # x =>
        at(i) \in DOMAIN u /\ u[at(i)] = q[i] /\ i # k
  <2> SUFFICES ASSUME NEW i \in DOMAIN q, q[i] # x
               PROVE  at(i) \in DOMAIN u /\ u[at(i)] = q[i] /\ i # k
    OBVIOUS
  <2>1. i # k
    BY <1>1
  <2>2. CASE i < k
    BY <1>1, <1>2, <2>2
  <2>3. CASE i > k
    <3>1. i - 1 \in 1 .. Len(q) - 1 /\ ~(i - 1 < k) /\ (i - 1) + 1 = i
      BY <1>1, <2>3
    <3> QED  BY <1>1, <1>2, <2>3, <3>1
  <2> QED  BY <1>1, <2>1, <2>2, <2>3
<1>4. PICK i \in DOMAIN q : \E j \in DOMAIN q : i < j /\ q[i] = a /\ q[j] = b
  BY DEF Before
<1>5. PICK j \in DOMAIN q : i < j /\ q[i] = a /\ q[j] = b
  BY <1>4
<1>6. at(i) < at(j)
  BY <1>1, <1>3, <1>5
<1>7. Before(u, a, b)
  <2>1. at(i) \in DOMAIN u /\ at(j) \in DOMAIN u /\ u[at(i)] = a /\ u[at(j)] = b
    BY <1>3, <1>5
  <2> HIDE DEF at
  <2> QED  BY <1>6, <2>1 DEF Before
<1> QED  BY <1>7 DEF Unlinked, k, u

(* The rotation to the first ready task moves nobody but waiting tasks.    *)
LEMMA OrderRotated ==
  ASSUME NEW q \in Seq(Pcb), IsInjective(q), NEW w, NEW a, NEW b,
         ~w[a], Before(q, a, b)
  PROVE  /\ ReadyIndices(q, w) # {}
         /\ Before(RotatedTo(q, Min(ReadyIndices(q, w))), a, b)
<1> DEFINE R == ReadyIndices(q, w)
           k == Min(R)
           u == Rotation(q, k)
<1>1. DOMAIN q = 1 .. Len(q) /\ Len(q) \in Nat
  BY LenProperties
<1>2. PICK i \in DOMAIN q : \E j \in DOMAIN q : i < j /\ q[i] = a /\ q[j] = b
  BY DEF Before
<1>3. PICK j \in DOMAIN q : i < j /\ q[i] = a /\ q[j] = b
  BY <1>2
<1>4. i \in R /\ R \subseteq Nat /\ R \subseteq DOMAIN q
  BY <1>1, <1>3 DEF ReadyIndices
<1> HIDE DEF R
<1>5. k \in R /\ k <= i
  BY <1>4, MinFacts
<1> HIDE DEF k
<1>6. /\ DOMAIN u = 1 .. Len(q)
      /\ \A m \in 1 .. Len(q) :
           u[m] = IF m <= Len(q) - k + 1 THEN q[k + m - 1]
                  ELSE q[m - (Len(q) - k + 1)]
  <2>1. k \in 1 .. Len(q)
    BY <1>1, <1>4, <1>5
  <2>2. /\ u \in Seq(Pcb) /\ Len(u) = Len(q)
        /\ \A m \in 1 .. Len(q) :
             u[m] = IF m <= Len(q) - k + 1 THEN q[k + m - 1]
                    ELSE q[m - (Len(q) - k + 1)]
    BY <2>1, RotationFacts
  <2> QED  BY <2>2, LenProperties
<1> HIDE DEF u
<1>7. \A n \in DOMAIN q : k <= n =>
        n - k + 1 \in DOMAIN u /\ u[n - k + 1] = q[n]
  <2> SUFFICES ASSUME NEW n \in DOMAIN q, k <= n
               PROVE  n - k + 1 \in DOMAIN u /\ u[n - k + 1] = q[n]
    OBVIOUS
  <2>1. k \in 1 .. Len(q)
    BY <1>1, <1>4, <1>5
  <2>2. n - k + 1 \in 1 .. Len(q) /\ n - k + 1 <= Len(q) - k + 1
        /\ k + (n - k + 1) - 1 = n
    BY <1>1, <2>1
  <2> QED  BY <1>6, <2>2
<1>8. k \in Nat /\ i \in Nat /\ j \in Nat /\ k <= j
  BY <1>1, <1>3, <1>4, <1>5
<1>9. Before(u, a, b)
  <2>1. i - k + 1 < j - k + 1
    BY <1>3, <1>8
  <2>2. /\ i - k + 1 \in DOMAIN u /\ u[i - k + 1] = a
        /\ j - k + 1 \in DOMAIN u /\ u[j - k + 1] = b
    BY <1>3, <1>5, <1>7, <1>8
  <2> QED  BY <2>1, <2>2 DEF Before
<1> QED  BY <1>4, <1>9 DEF RotatedTo, Rotation, R, k, u

(* The list with the two in their order, as one of the cases leaves it     *)
Ordered(q, a, b) == q \in Seq(Pcb) /\ IsInjective(q) /\ Before(q, a, b)

LEMMA OrderRescheduled ==
  ASSUME TypeOK, NEW q, NEW a, NEW b, ~having_child_running[a],
         Ordered(q, a, b), Reschedule(q, having_child_running, cpu)
  PROVE  Ordered(queue', a, b)
<1>1. q \in Seq(Pcb) /\ IsInjective(q) /\ Before(q, a, b)
  BY DEF Ordered
<1>2. having_child_running \in [Pcb -> BOOLEAN]
  BY DEF TypeOK
<1>3. queue' \in Seq(Pcb) /\ IsInjective(queue')
  BY <1>1, <1>2, RescheduleFacts
<1>4. \/ queue' = q
      \/ queue' = RotatedTo(q, Min(ReadyIndices(q, having_child_running)))
  BY DEF Reschedule
<1>5. Before(queue', a, b)
  BY <1>1, <1>4, OrderRotated
<1> QED  BY <1>3, <1>5 DEF Ordered

(* reschedule gives the CPU to the head of the list it leaves, which is    *)
(* not b if a ready a is before it.                                        *)
LEMMA HeadRuns ==
  ASSUME TypeOK, NEW q, NEW a, NEW b, ~having_child_running[a],
         Ordered(q, a, b), Reschedule(q, having_child_running, cpu)
  PROVE  cpu' # b
<1> DEFINE R == ReadyIndices(q, having_child_running)
           list == RotatedTo(q, Min(R))
<1>1. R # {}
  BY OrderRotated DEF Ordered
<1>2. Ordered(queue', a, b)
  BY OrderRescheduled
<1>3. queue' = list /\ cpu' = Head(list)
  BY <1>1 DEF Reschedule, SwitchTo, cpuVars
<1>4. PICK i, j \in DOMAIN queue' : i < j /\ queue'[i] = a /\ queue'[j] = b
  BY <1>2 DEF Ordered, Before
<1>5. /\ queue' \in Seq(Pcb) /\ DOMAIN queue' = 1 .. Len(queue')
      /\ Len(queue') \in Nat /\ IsInjective(queue')
  BY <1>2, LenProperties DEF Ordered
<1>6. 1 \in DOMAIN queue' /\ j # 1 /\ Head(queue') = queue'[1]
  BY <1>4, <1>5
<1> QED  BY <1>3, <1>4, <1>5, <1>6 DEF IsInjective
-----------------------------------------------------------------------------
(* Once init has listed its new task, that task is ready and has never     *)
(* run. When init is preempted now, the new task is before it in the list, *)
(* so init gets the CPU back only after the new task would have: it does   *)
(* not, for the kernel stops at a task without a frame.                    *)
InitBehind ==
  pc \in GoPc =>
    /\ ~having_child_running[InitTask] /\ new # InitTask
    /\ cpu # InitTask => Before(queue, new, InitTask)

(* The scheduler keeps the order, and never picks init.                    *)
LEMMA BehindSwitch ==
  ASSUME IInv, Up', InitBehind, TickPreempt \/ HaltRoot, pc \in GoPc
  PROVE  InitBehind' /\ (cpu # InitTask => cpu' # InitTask)
<1>1. /\ Up /\ TypeOK /\ queue \in Seq(Pcb) /\ IsInjective(queue)
      /\ new \in ToSet(queue) /\ new \in Pcb /\ new # cpu /\ InitTask \in Pcb
      /\ ~having_child_running[new] /\ cpu \in ToSet(queue) /\ cpu \in Pcb
      /\ ~having_child_running[InitTask] /\ new # InitTask
  <2>1. Up
    BY DEF TickPreempt, HaltRoot
  <2> QED  BY <2>1, ConstantFacts
           DEF IInv, TypeOK, Core, QueueOK, RunnerOK, Starting, Listed, InitBehind
<1>2. /\ Unlinked(queue, cpu) \in Seq(Pcb) /\ IsInjective(Unlinked(queue, cpu))
      /\ ToSet(Unlinked(queue, cpu)) = ToSet(queue) \ {cpu}
  BY <1>1, UnlinkedFacts
<1>3. cpu # InitTask => Ordered(Unlinked(queue, cpu), new, InitTask)
  BY <1>1, <1>2, OrderUnlinked DEF Ordered, InitBehind
<1>4. UNCHANGED <<having_child_running, pc, new>>
  <2>1. CASE TickPreempt
    BY <2>1, PreemptFacts DEF initVars
  <2>2. CASE HaltRoot
    BY <1>1, <2>2, HaltRootFacts DEF initVars
  <2> QED  BY <2>1, <2>2
<1>5. CASE HaltRoot
  <2>1. /\ cpu # InitTask
        /\ Reschedule(Unlinked(queue, cpu), having_child_running, cpu)
    BY <1>5, HaltRootFacts
  <2>2. Ordered(queue', new, InitTask) /\ cpu' # InitTask
    BY <1>1, <1>3, <2>1, OrderRescheduled, HeadRuns
  <2> QED  BY <1>1, <1>4, <2>2 DEF InitBehind, Ordered
<1>6. CASE TickPreempt
  <2> DEFINE q == ToEnd(queue, cpu)
  <2>1. /\ q \in Seq(Pcb) /\ IsInjective(q)
        /\ Reschedule(q, having_child_running, cpu)
    BY <1>6, PreemptFacts
  <2>2. Before(q, new, InitTask)
    <3>1. CASE cpu # InitTask
      BY <1>1, <1>3, <3>1, OrderAppended DEF ToEnd, Ordered
    <3>2. CASE cpu = InitTask
      <4> DEFINE u == Unlinked(queue, cpu)
      <4>1. /\ DOMAIN u = 1 .. Len(u) /\ Len(u) \in Nat
            /\ DOMAIN q = 1 .. Len(u) + 1 /\ q[Len(u) + 1] = InitTask
            /\ \A i \in 1 .. Len(u) : q[i] = u[i]
        BY <1>1, <1>2, <3>2, LenProperties, AppendProperties DEF ToEnd
      <4>2. PICK i \in DOMAIN u : u[i] = new
        BY <1>1, <1>2 DEF ToSet
      <4> HIDE DEF q, u
      <4>3. i \in DOMAIN q /\ Len(u) + 1 \in DOMAIN q /\ i < Len(u) + 1
            /\ q[i] = new
        BY <4>1, <4>2
      <4> QED  BY <4>1, <4>3 DEF Before
    <3> QED  BY <3>1, <3>2
  <2>3. Ordered(q, new, InitTask)
    BY <2>1, <2>2 DEF Ordered
  <2> HIDE DEF q
  <2>4. Ordered(queue', new, InitTask) /\ cpu' # InitTask
    BY <1>1, <2>1, <2>3, OrderRescheduled, HeadRuns
  <2> QED  BY <1>1, <1>4, <2>4 DEF InitBehind, Ordered
<1> QED  BY <1>5, <1>6

LEMMA BehindHaltChild ==
  ASSUME IInv, Up', InitBehind, HaltChild, pc \in GoPc
  PROVE  InitBehind' /\ cpu' # InitTask
<1>1. /\ Up /\ TypeOK /\ Core /\ cpu # InitTask /\ parent[cpu] # Nobody
      /\ cpu \in Listed /\ cpu \in Pcb
      /\ cpu' = parent[cpu] /\ having_child_running' = WaitOver
      /\ queue' = Unlinked(queue, cpu) /\ UNCHANGED <<pc, new>>
  BY HaltChildFacts DEF IInv, initVars
<1>2. having_child_running[parent[cpu]]
  BY <1>1 DEF Core, FamilyOK, Family
<1>3. cpu' # InitTask /\ ~having_child_running'[InitTask]
  BY <1>1, <1>2, ConstantFacts DEF InitBehind, WaitOver, TypeOK
<1>4. Before(queue', new, InitTask)
  <2>1. new # cpu /\ cpu \in ToSet(queue) /\ queue \in Seq(Pcb)
        /\ IsInjective(queue)
    BY <1>1 DEF Core, QueueOK, Starting, TypeOK, Listed
  <2> QED  BY <1>1, <2>1, OrderUnlinked DEF InitBehind
<1> QED  BY <1>1, <1>3, <1>4 DEF InitBehind

LEMMA BehindExecute ==
  ASSUME IInv, Up, Up', InitBehind, NEW nm, NEW ok, SysExecute(nm, ok), Calls,
         pc \in GoPc
  PROVE  InitBehind'
<1>1. /\ TypeOK /\ queue \in Seq(Pcb) /\ cpu # InitTask /\ InitTask \in Pcb
      /\ cpu \in Pcb
      /\ UNCHANGED <<pc, new>>
  BY ConstantFacts DEF IInv, TypeOK, Calls, GoPc
<1>2. CASE NoPcbFound
  BY <1>1, <1>2 DEF NoPcbFound, InitBehind, cpuVars
<1>3. ASSUME NEW c \in Pcb, Fresh(c), ExecuteFails(c)
      PROVE  InitBehind'
  <2>1. c # InitTask
    BY <1>3 DEF Fresh
  <2> QED  BY <1>1, <1>3, <2>1 DEF ExecuteFails, InitBehind, cpuVars, TypeOK
<1>4. ASSUME NEW c \in Pcb, Fresh(c), NEW g, ExecuteStarts(c, g, nm)
      PROVE  InitBehind'
  <2>1. c # InitTask /\ queue' = Append(queue, c) /\ cpu' = c
        /\ having_child_running' = ChildWaitedFor(c)
    BY <1>4 DEF Fresh, ExecuteStarts
  <2>2. ~having_child_running'[InitTask]
    BY <1>1, <2>1 DEF ChildWaitedFor, InitBehind, TypeOK
  <2>3. Before(queue', new, InitTask)
    BY <1>1, <2>1, OrderAppended DEF InitBehind
  <2> QED  BY <1>1, <2>2, <2>3 DEF InitBehind
<1>5. CASE ExecuteFindsNoNode
  BY <1>5 DEF ExecuteFindsNoNode, Up
<1> QED  BY <1>2, <1>3, <1>4, <1>5, ExecuteCases

LEMMA BehindStep ==
  ASSUME IInv, [Next]_vars, Up', InitBehind
  PROVE  InitBehind'
<1> USE DEF pcbVars, cpuVars, SpawnAt, SpawnGoes, SpawnTakes
<1>0. Up /\ TypeOK
  BY StepCases DEF IInv
<1>1. CASE Idle \/ TickCharge
  BY <1>1 DEF Idle, TickCharge, initVars, InitBehind
<1>2. CASE TickPreempt \/ HaltRoot
  <2>1. CASE pc \in GoPc
    BY <1>2, <2>1, BehindSwitch
  <2>2. CASE pc \notin GoPc
    BY <1>2, <2>2 DEF TickPreempt, HaltRoot, initVars, InitBehind
  <2> QED  BY <2>1, <2>2
<1>3. CASE HaltChild
  <2>1. CASE pc \in GoPc
    BY <1>3, <2>1, BehindHaltChild
  <2>2. CASE pc \notin GoPc
    BY <1>3, <2>2 DEF HaltChild, initVars, InitBehind
  <2> QED  BY <2>1, <2>2
<1>4. CASE \E nm \in {"shell", "program"}, ok \in BOOLEAN :
             SysExecute(nm, ok) /\ Calls
  <2>1. CASE pc \in GoPc
    BY <1>0, <1>4, <2>1, BehindExecute
  <2>2. CASE pc \notin GoPc
    BY <1>4, <2>2 DEF Calls, InitBehind, GoPc
  <2> QED  BY <2>1, <2>2
<1>5. CASE LoopStep \/ SpawnMarkPcb \/ SpawnSetup \/ SpawnChoosePage \/ MakeStep
           \/ SpawnEnter
  <2>1. CASE LoopStep
    BY <2>1, LoopFacts, PcFacts DEF OutsideStep, Outside, InitBehind
  <2>2. CASE MakeStep
    BY <2>2, MakeFrame, PcFacts DEF InitBehind
  <2>3. CASE SpawnMarkPcb \/ SpawnSetup \/ SpawnChoosePage \/ SpawnEnter
    BY <2>3 DEF SpawnMarkPcb, SpawnSetup, SpawnChoosePage, SpawnEnter,
       SpawnReturns, GoPc, InitBehind
  <2> QED  BY <1>5, <2>1, <2>2, <2>3
<1>6. CASE SpawnJoin
  <2>1. /\ UNCHANGED <<having_child_running, cpu, new>> /\ new # InitTask
        /\ cpu = InitTask /\ ~having_child_running[cpu]
    BY <1>0, <1>6, JoinFacts DEF SpawnJoin, IInv, Core, RunnerOK
  <2> QED  BY <2>1 DEF InitBehind
<1>7. CASE SpawnArm \/ SpawnSetTss
  BY <1>7 DEF SpawnArm, SpawnSetTss, GoPc, InitBehind
<1> QED  BY <1>1, <1>2, <1>3, <1>4, <1>5, <1>6, <1>7, StepCases
-----------------------------------------------------------------------------
(* A program on the CPU has its own page mapped, or none, and its own      *)
(* stack in tss.esp0. While init holds a page for its task, it runs in     *)
(* that page or, once it was preempted, in none; when it enters the task,  *)
(* tss.esp0 is the task's, for init was not preempted since it was set.    *)
MappedPc == {"load_p", "store_p", "status"} \cup HoldPc \cup GoPc

SpawnMapped ==
  IF pc \in {"load_p", "store_p", "status", "pid"} THEN reg ELSE pid[new]

ContextOK ==
  /\ cpu # InitTask => mapped \in {pid[cpu], NoPage} /\ esp0 = cpu
  /\ cpu = InitTask /\ pc \in MappedPc => mapped \in {SpawnMapped, NoPage}
  /\ cpu = InitTask /\ pc = "enter" => esp0 = new

LEMMA MappedFacts ==
  /\ "play" \notin MappedPc /\ "played" \notin MappedPc /\ "enter" \in GoPc
  /\ "played" # "enter" /\ "enter" \in MappedPc
  /\ MappedPc \cap Outside = {} /\ MappedPc \cap LoopPc = {}
  /\ "setup" \notin MappedPc /\ "mark" \notin MappedPc /\ "term" \notin MappedPc
  /\ "page" \notin MappedPc /\ "choose" \notin MappedPc /\ "map" \notin MappedPc
  /\ ShowPc \subseteq MappedPc /\ ListPc \subseteq MappedPc
  /\ GoPc \subseteq MappedPc
BY DEF MappedPc, HoldPc, ShowPc, ListPc, GoPc, Outside, LoopPc, CountPc

LEMMA ContextExecute ==
  ASSUME IInv, Up, Up', ContextOK, NEW nm, NEW ok, SysExecute(nm, ok), Calls
  PROVE  ContextOK'
<1>1. TypeOK
  BY DEF IInv
<1>2. UNCHANGED <<new, reg>> /\ (pc' \in MappedPc => cpu # InitTask)
      /\ (pc' = "enter" => cpu # InitTask)
  BY MappedFacts DEF Calls
<1>3. CASE NoPcbFound \/ \E c \in Pcb : ExecuteFails(c)
  <2>1. UNCHANGED <<mapped, pid, cpu, esp0>>
    BY <1>3 DEF NoPcbFound, ExecuteFails, pageVars, cpuVars
  <2> QED  BY <1>2, <2>1 DEF ContextOK
<1>4. ASSUME NEW c \in Pcb, Fresh(c), NEW g, ExecuteStarts(c, g, nm)
      PROVE  ContextOK'
  <2>1. /\ c # InitTask /\ cpu' = c /\ esp0' = c /\ mapped' = g
        /\ pid' = [pid EXCEPT ![c] = g]
    BY <1>4 DEF ExecuteStarts, Fresh
  <2>2. pid'[c] = g
    BY <1>1, <2>1 DEF TypeOK
  <2> QED  BY <2>1, <2>2 DEF ContextOK
<1>5. CASE ExecuteFindsNoNode
  BY <1>5 DEF ExecuteFindsNoNode, Up
<1> QED  BY <1>3, <1>4, <1>5, ExecuteCases

(* The CPU, the page and the stack after a switch are those of one task.   *)
LEMMA ContextSwitch ==
  ASSUME IInv, Up', PagesOK, InitBehind, ContextOK,
         TickPreempt \/ HaltRoot \/ HaltChild
  PROVE  ContextOK'
<1>0. Up /\ TypeOK /\ pid[InitTask] = NoPage
  BY DEF TickPreempt, HaltRoot, HaltChild, IInv, PagesOK
<1>1. UNCHANGED <<pid, pc, new, reg>>
  BY <1>0, PreemptFacts, HaltRootFacts, HaltChildFacts DEF initVars
<1>2. \/ cpu' = cpu /\ UNCHANGED <<mapped, esp0>>
      \/ mapped' = pid[cpu'] /\ esp0' = cpu'
  <2>1. CASE TickPreempt
    BY <2>1, PreemptFacts
  <2>2. CASE HaltRoot
    BY <1>0, <2>2, HaltRootFacts
  <2>3. CASE HaltChild
    <3>1. /\ mapped' = IF page_status[pid[cpu]] THEN pid[cpu'] ELSE mapped
          /\ esp0' = cpu' /\ cpu \in Listed \ {InitTask} /\ cpu \notin Unlisted
      BY <1>0, <2>3, HaltChildFacts
    <3>2. cpu \in PageOwners
      BY <3>1 DEF PageOwners
    <3>3. PageOf(cpu) = pid[cpu]
      BY <3>1 DEF PageOf, Unlisted, Building, BuildPc, PagePc
    <3>4. page_status[pid[cpu]]
      BY <3>2, <3>3 DEF PagesOK
    <3> QED  BY <3>1, <3>4
  <2> QED  BY <2>1, <2>2, <2>3
<1>3. pc = "enter" /\ cpu # InitTask => cpu' # InitTask
  BY BehindSwitch, BehindHaltChild, MappedFacts
<1>4. CASE cpu' = cpu /\ UNCHANGED <<mapped, esp0>>
  BY <1>1, <1>4 DEF ContextOK, SpawnMapped
<1>5. CASE mapped' = pid[cpu'] /\ esp0' = cpu' /\ ~(cpu' = cpu /\ UNCHANGED <<mapped, esp0>>)
  <2>1. cpu' = InitTask => mapped' = NoPage
    BY <1>0, <1>5
  <2>2. cpu' = InitTask => pc' # "enter"
    <3>1. CASE cpu = InitTask
      <4>1. TickPreempt
        BY <1>0, <3>1 DEF HaltRoot, HaltChild
      <4> QED  BY <1>5, <3>1, <4>1, PreemptFacts
    <3> QED  BY <1>1, <1>3, <3>1
  <2> QED  BY <1>1, <1>5, <2>1, <2>2 DEF ContextOK
<1> QED  BY <1>2, <1>4, <1>5

(* The page that init holds and the one it has mapped                      *)
LEMMA ContextMake ==
  ASSUME IInv, Up, Up', ContextOK, MakeStep
  PROVE  ContextOK'
<1> USE DEF SpawnAt, SpawnGoes, SpawnTakes, SpawnLoads
<1>1. cpu = InitTask /\ cpu' = cpu /\ new' = new /\ pc \in MakingPc
      /\ pc' \in MakingPc /\ pc' # "enter" /\ TypeOK /\ new \in Pcb
  BY MakeFrame, MappedFacts, PcFacts DEF cpuVars, IInv, TypeOK
<1>2. pc' \in MappedPc => mapped' \in {SpawnMapped', NoPage}
  <2>1. CASE MakeTerm \/ SpawnResetPages
    BY <2>1, MappedFacts DEF MakeTerm, SpawnAllocate, SpawnResetPages
  <2>2. CASE SpawnMapPage
    <3>1. mapped' = reg /\ reg' = reg /\ pc' = "load_p"
      BY <2>2 DEF SpawnMapPage
    <3> QED  BY <3>1 DEF SpawnMapped
  <2>3. CASE SpawnLoadPages \/ SpawnStorePages \/ SpawnMarkPage
    <3>1. /\ pc \in {"load_p", "store_p", "status"} /\ mapped' = mapped
          /\ pc' \in {"store_p", "status", "pid"} /\ pid' = pid
          /\ pc' = "status" => reg' = reg \/ pc = "store_p"
      BY <2>3 DEF SpawnLoadPages, SpawnStorePages, SpawnMarkPage, pageVars,
         pcbVars
    <3> QED  BY <1>1, <2>3, <3>1
             DEF ContextOK, MappedPc, SpawnMapped, SpawnLoadPages,
                 SpawnStorePages, SpawnMarkPage
  <2>4. CASE SpawnSetPid
    <3>1. pc = "pid" /\ pc' = "focus" /\ pid'[new] = reg /\ mapped' = mapped
      BY <1>1, <2>4 DEF SpawnSetPid, pageVars, TypeOK
    <3> QED  BY <1>1, <3>1 DEF ContextOK, MappedPc, HoldPc, SpawnMapped
  <2>5. CASE MakeShow \/ MakeNode
    <3>1. /\ UNCHANGED <<mapped, pid>>
          /\ pc \in ShowPc \cup ListPc /\ pc' \in ShowPc \cup ListPc
      <4>1. CASE MakeShow
        BY <4>1 DEF MakeShow, SpawnFocus, SpawnShow, SpawnAttach, ShowPc, ListPc,
           pcbVars, pageVars
      <4>2. CASE MakeNode
        BY <4>2 DEF MakeNode, SpawnFindNode, SpawnTakeNode, SpawnLoadLast,
           SpawnLinkLast, ListPc, pcbVars, pageVars
      <4> QED  BY <2>5, <4>1, <4>2
    <3>2. SpawnMapped = pid[new] /\ SpawnMapped' = pid[new] /\ pc \in MappedPc
      BY <1>1, <3>1, MappedFacts DEF SpawnMapped, ShowPc, ListPc
    <3> QED  BY <1>1, <3>1, <3>2 DEF ContextOK
  <2> QED  BY <2>1, <2>2, <2>3, <2>4, <2>5 DEF MakeStep, MakePage
<1> QED  BY <1>1, <1>2 DEF ContextOK

LEMMA ContextStep ==
  ASSUME IInv, [Next]_vars, Up', PagesOK, InitBehind, ContextOK
  PROVE  ContextOK'
<1> USE DEF pcbVars, pageVars, cpuVars, SpawnAt, SpawnGoes, SpawnTakes
<1>0. Up /\ TypeOK
  BY StepCases DEF IInv
<1>1. CASE Idle \/ TickCharge
  BY <1>1 DEF Idle, TickCharge, initVars, ContextOK, SpawnMapped
<1>2. CASE TickPreempt \/ HaltRoot \/ HaltChild
  BY <1>2, ContextSwitch
<1>3. CASE \E nm \in {"shell", "program"}, ok \in BOOLEAN :
             SysExecute(nm, ok) /\ Calls
  BY <1>0, <1>3, ContextExecute
<1>4. CASE LoopStep
  <2>1. pc' \notin MappedPc /\ pc' # "enter" /\ UNCHANGED <<mapped, pid, cpu, esp0>>
    BY <1>4, LoopFacts, MappedFacts DEF OutsideStep
  <2> QED  BY <2>1 DEF ContextOK
<1>5. CASE SpawnMarkPcb \/ SpawnSetup \/ SpawnChoosePage
  <2>1. cpu' = InitTask
        /\ pc' \in {"setup", "term", "choose", "map"} \cup LoopPc
    BY <1>5, LoopPcFacts DEF SpawnMarkPcb, SpawnSetup, SpawnChoosePage,
       SpawnReturns
  <2>2. pc' \notin MappedPc
    BY <2>1, MappedFacts
  <2> QED  BY <2>1, <2>2, MappedFacts DEF ContextOK
<1>6. CASE MakeStep
  BY <1>0, <1>6, ContextMake
<1>7. CASE SpawnJoin \/ SpawnArm
  <2>1. /\ cpu' = cpu /\ cpu = InitTask /\ pc \in {"join", "arm"}
        /\ pc' \in {"arm", "tss"} /\ UNCHANGED <<new, pid, mapped>>
    BY <1>7 DEF SpawnJoin, SpawnArm
  <2>2. SpawnMapped = pid[new] /\ SpawnMapped' = pid[new] /\ pc \in MappedPc
    BY <2>1 DEF SpawnMapped, MappedPc, HoldPc, ListPc, GoPc
  <2> QED  BY <2>1, <2>2 DEF ContextOK
<1>8. CASE SpawnSetTss
  <2>1. /\ cpu' = cpu /\ cpu = InitTask /\ pc = "tss" /\ pc' = "enter"
        /\ esp0' = new /\ UNCHANGED <<new, pid, mapped>>
    BY <1>8 DEF SpawnSetTss
  <2>2. SpawnMapped = pid[new] /\ SpawnMapped' = pid[new] /\ pc \in MappedPc
    BY <2>1 DEF SpawnMapped, MappedPc, GoPc
  <2> QED  BY <2>1, <2>2 DEF ContextOK
<1>9. CASE SpawnEnter
  <2>1. /\ cpu = InitTask /\ pc = "enter" /\ cpu' = new
        /\ pc' \in LoopPc /\ UNCHANGED <<mapped, pid, esp0>>
    BY <1>9, LoopPcFacts DEF SpawnEnter, SpawnReturns
  <2>2. mapped \in {pid[new], NoPage} /\ esp0 = new /\ new # InitTask
    BY <2>1, MappedFacts DEF ContextOK, SpawnMapped, InitBehind
  <2>3. /\ cpu' # InitTask /\ esp0' = cpu'
        /\ mapped' \in {pid'[cpu'], NoPage}
    BY <2>1, <2>2
  <2> QED  BY <2>3 DEF ContextOK
<1> QED  BY <1>1, <1>2, <1>3, <1>4, <1>5, <1>6, <1>7, <1>8, <1>9, StepCases
-----------------------------------------------------------------------------
(* The nodes in use are those of the listed tasks, and of the new one from *)
(* the moment init takes one for it; so one is left for every PCB that has *)
(* none, and the scans of init for a page and for a node, which let others *)
(* take the first ones behind its back, still find one.                    *)
NodesOK == \A p \in Pcb : node[p] # NoNode <=>
             p \in Listed \/ (p = new /\ pc \in {"last", "link", "join"})

ScansOK ==
  /\ pc = "page" => reg = 0
  /\ pc = "choose" => \E g \in Page : g >= reg /\ ~page_status[g]
  /\ pc = "node" => reg >= 1 /\ \E k \in FreeNodes : k >= reg

(* A node that is not k is free if two PCBs have none.                     *)
LEMMA SpareNode ==
  ASSUME TypeOK, NEW c \in Pcb, node[c] = NoNode, NEW d \in Pcb,
         node[d] = NoNode, NEW k \in Node
  PROVE  /\ FreeNodes # {}
         /\ c # d => \E j \in FreeNodes : j # k
<1>1. IsFiniteSet(Node) /\ Cardinality(Node) >= NPcb
  BY NodeAssumption, PcbAssumption, FS_Interval DEF Node
<1>2. FreeNodes # {}
  <2>1. PICK j \in Node : \A p \in Pcb \ {c} : node[p] # j
    BY <1>1, Spare
  <2>2. node[c] # j
    BY <2>1, ConstantFacts
  <2> QED  BY <2>1, <2>2 DEF FreeNodes
<1>3. c # d => \E j \in FreeNodes : j # k
  <2> SUFFICES ASSUME c # d  PROVE \E j \in FreeNodes : j # k
    OBVIOUS
  <2> DEFINE f == [p \in Pcb |-> IF p = d THEN k ELSE node[p]]
  <2>1. PICK j \in Node : \A p \in Pcb \ {c} : f[p] # j
    <3> HIDE DEF f
    <3> QED  BY <1>1, Spare
  <2>2. j # k /\ \A p \in Pcb \ {c, d} : node[p] # j
    BY <2>1
  <2>3. node[c] # j /\ node[d] # j
    BY <2>1, ConstantFacts
  <2> QED  BY <2>2, <2>3 DEF FreeNodes
<1> QED  BY <1>2, <1>3

(* A page that is not g is free if a PCB besides init's owns none.         *)
LEMMA SparePage ==
  ASSUME IInv, Up, PagesOK, NEW c \in Pcb, c # InitTask, c \notin PageOwners,
         NEW g \in Page
  PROVE  \E h \in Page : h # g /\ ~page_status[h]
<1>1. IsFiniteSet(Page) /\ Cardinality(Page) >= NPcb /\ InitTask \in Pcb
  BY PcbAssumption, FS_Interval DEF Page, Pcb, InitTask
<1> DEFINE f == [p \in Pcb |-> IF p = c THEN g ELSE PageOf(p)]
<1>2. PICK h \in Page : \A p \in Pcb \ {InitTask} : f[p] # h
  <2> HIDE DEF f
  <2> QED  BY <1>1, Spare
<1>3. h # g /\ \A p \in PageOwners : PageOf(p) # h
  BY <1>2, OwnerFacts
<1> QED  BY <1>3 DEF PagesOK

(* Taking the first of some numbers leaves one from r on, if it leaves one *)
LEMMA FirstTaken ==
  ASSUME NEW F, F \subseteq Nat, NEW r \in F, NEW j \in F, j # Min(F),
         NEW n \in Int, r >= n
  PROVE  \E x \in F : x >= n /\ x # Min(F)
<1>1. Min(F) \in F /\ \A x \in F : Min(F) <= x
  BY MinFacts
<1>2. Min(F) \in Nat /\ r \in Nat /\ j \in Nat
  BY <1>1
<1>3. CASE r = Min(F)
  BY <1>1, <1>2, <1>3
<1>4. CASE r # Min(F)
  BY <1>4
<1> QED  BY <1>3, <1>4

(* The node that nobody else takes                                         *)
LEMMA FreeNodesFrame ==
  ASSUME UNCHANGED node
  PROVE  FreeNodes' = FreeNodes
BY DEF FreeNodes

(* The scan of init for a page never gets past the last one.               *)
LEMMA ChooseFinds ==
  ASSUME TypeOK, ScansOK, SpawnChoosePage
  PROVE  /\ pc = "choose" /\ pc' \in {"choose", "map"}
         /\ UNCHANGED <<slot, new, acc, pcbVars, queue, node, pageVars, termVars,
                        cpuVars, loopVars, fault>>
<1>1. pc = "choose" /\ reg \in Int
  BY DEF SpawnChoosePage, SpawnAt, TypeOK
<1>2. reg # NPcb
  BY <1>1, ConstantFacts, PcbAssumption DEF ScansOK, Page
<1> QED  BY <1>1, <1>2 DEF SpawnChoosePage, SpawnAt, SpawnGoes, SpawnTakes, pcbVars

LEMMA NodesExecute ==
  ASSUME IInv, Up, Up', PagesOK, NodesOK, ScansOK,
         NEW nm, NEW ok, SysExecute(nm, ok), Calls
  PROVE  NodesOK' /\ ScansOK'
<1>1. TypeOK
  BY DEF IInv
<1>2. UNCHANGED <<new, reg>> /\ (pc' = pc \/ (pc = "play" /\ pc' = "played"))
  BY DEF Calls
<1>3. CASE NoPcbFound \/ \E c \in Pcb : ExecuteFails(c)
  <2>1. UNCHANGED <<node, queue, page_status>>
    BY <1>3 DEF NoPcbFound, ExecuteFails, pageVars
  <2>2. Listed' = Listed /\ FreeNodes' = FreeNodes
    BY <2>1, FreeNodesFrame DEF Listed
  <2> QED  BY <1>2, <2>1, <2>2 DEF NodesOK, ScansOK
<1>4. ASSUME NEW c \in Pcb, Fresh(c), Listed' = Listed \cup {c},
             NEW g, ExecuteStarts(c, g, nm), g = Min(FreePages), g \in FreePages,
             FreeNodes # {}, node' = [node EXCEPT ![c] = Min(FreeNodes)]
      PROVE  NodesOK' /\ ScansOK'
  <2>1. Min(FreeNodes) \in FreeNodes /\ Min(FreeNodes) \in Node
        /\ Min(FreeNodes) # NoNode
    BY <1>4, FirstFree, ConstantFacts
  <2>2. /\ c \notin Listed /\ c # InitTask
        /\ (pc \in {"setup"} \cup AfterSetup => c # new)
    BY <1>4 DEF Fresh
  <2>3. c # new \/ pc \notin BuildPc
    BY <2>2, PcFacts DEF BuildPc, MakingPc, ListPc
  <2>4. node[c] = NoNode
    BY <2>2, <2>3 DEF NodesOK, BuildPc, ListPc
  <2>5. NodesOK'
    BY <1>1, <1>2, <1>4, <2>1, <2>2, <2>3, PcFacts
       DEF NodesOK, TypeOK, BuildPc, ListPc
  <2>6. pc' = "page" => reg' = 0
    BY <1>2 DEF ScansOK
  <2>7. ASSUME pc' = "choose"
        PROVE  \E h \in Page : h >= reg' /\ ~page_status'[h]
    <3>1. pc = "choose" /\ c \notin PageOwners
      BY <1>2, <1>4, <2>7, OwnerFacts DEF Fresh
    <3>2. FreePages = {h \in Page : ~page_status[h]} /\ FreePages \subseteq Nat
      BY FreePageFacts, ConstantFacts
    <3>3. PICK r \in FreePages : r >= reg
      BY <3>1, <3>2 DEF ScansOK
    <3>a. g \in Page
      BY <1>4, <3>2
    <3>b. PICK j \in Page : j # g /\ ~page_status[j]
      BY <2>2, <3>1, <3>a, SparePage
    <3>4. j \in FreePages /\ j # g
      BY <3>2, <3>b
    <3>5. PICK h \in FreePages : h >= reg /\ h # g
      BY <1>1, <1>4, <3>2, <3>3, <3>4, FirstTaken DEF TypeOK
    <3>6. page_status' = [page_status EXCEPT ![g] = TRUE]
      BY <1>4 DEF ExecuteStarts
    <3> QED  BY <1>1, <1>2, <3>2, <3>5, <3>6 DEF TypeOK
  <2>8. ASSUME pc' = "node"
        PROVE  reg' >= 1 /\ \E k \in FreeNodes' : k >= reg'
    <3>1. pc = "node" /\ pc \in BuildPc /\ pc \in AfterSetup
      BY <1>2, <2>8, PcFacts DEF MakingPc, BuildPc, ListPc
    <3>2. new \in Pcb \ Listed /\ c # new
      BY <2>2, <3>1, MakingFacts
    <3>3. node[new] = NoNode
      BY <3>1, <3>2 DEF NodesOK
    <3>4. PICK r \in FreeNodes : r >= reg
      BY <3>1 DEF ScansOK
    <3>5. PICK j \in FreeNodes : j # Min(FreeNodes)
      BY <1>1, <2>1, <2>4, <3>2, <3>3, SpareNode
    <3>6. FreeNodes \subseteq Nat
      BY ConstantFacts DEF FreeNodes
    <3>7. PICK k \in FreeNodes : k >= reg /\ k # Min(FreeNodes)
      BY <1>1, <3>4, <3>5, <3>6, FirstTaken DEF TypeOK
    <3>8. k \in FreeNodes'
      BY <1>1, <1>4, <3>7 DEF FreeNodes, TypeOK
    <3> QED  BY <1>2, <3>1, <3>7, <3>8 DEF ScansOK
  <2> QED  BY <2>5, <2>6, <2>7, <2>8 DEF ScansOK
<1>5. CASE ExecuteFindsNoNode
  BY <1>5 DEF ExecuteFindsNoNode, Up
<1>6. CASE \E c \in Pcb : \E g \in FreePages :
              /\ Fresh(c) /\ FillPcb(c, nm) /\ ExecuteStarts(c, g, nm)
              /\ Listed' = Listed \cup {c} /\ g = Min(FreePages)
              /\ FreeNodes # {} /\ node' = [node EXCEPT ![c] = Min(FreeNodes)]
  BY <1>4, <1>6
<1> QED  BY <1>3, <1>5, <1>6, ExecuteCases

LEMMA NodesMake ==
  ASSUME IInv, Up, Up', PagesOK, NodesOK, ScansOK, MakeStep
  PROVE  NodesOK' /\ ScansOK'
<1> USE DEF SpawnAt, SpawnGoes, SpawnTakes, SpawnLoads
<1>1. /\ TypeOK /\ Listed' = Listed /\ new' = new /\ new \in Pcb \ Listed
      /\ pc \in MakingPc /\ pc' \in MakingPc
  BY MakeFrame, MakingFacts, PcFacts DEF IInv, Listed
<1>2. CASE MakeTerm
  <2>1. /\ pc = "term" /\ pc' \in {"term", "page"} /\ node' = node
        /\ (pc' = "page" => reg' = 0)
    BY <1>2 DEF MakeTerm, SpawnAllocate
  <2>2. NodesOK'
    BY <1>1, <2>1 DEF NodesOK
  <2>3. ScansOK'
    BY <2>1 DEF ScansOK
  <2> QED  BY <2>2, <2>3
<1>3. CASE MakePage
  <2>1. /\ node' = node /\ pc \in PagePc /\ pc' \in PagePc \cup {"focus"}
        /\ pc' # "page"
        /\ (pc' = "choose" => SpawnResetPages)
    BY <1>3 DEF MakePage, SpawnResetPages, SpawnMapPage, SpawnLoadPages,
       SpawnStorePages, SpawnMarkPage, SpawnSetPid, PagePc
  <2>2. pc \notin {"last", "link", "join"} /\ pc' \notin {"last", "link", "join", "node"}
    BY <2>1 DEF PagePc
  <2>3. ASSUME SpawnResetPages
        PROVE  \E g \in Page : g >= reg' /\ ~page_status'[g]
    <3>1. reg' = 0
      BY <2>3 DEF SpawnResetPages, ScansOK
    <3>2. PICK g \in FreePages : TRUE
      BY FreePageFacts
    <3>3. /\ g \in Page /\ g >= 0
          /\ (n_page_in_use = 0 \/ ~page_status[g])
      BY <3>2, ConstantFacts DEF FreePages
    <3>4. ~page_status'[g]
      BY <2>3, <3>3 DEF SpawnResetPages
    <3> QED  BY <3>1, <3>3, <3>4
  <2> QED  BY <1>1, <2>1, <2>2, <2>3 DEF NodesOK, ScansOK
<1>4. CASE MakeShow
  <2>1. /\ node' = node /\ pc \in ShowPc /\ pc' \in ShowPc \cup {"node"}
        /\ (pc' = "node" => reg' = 1)
    BY <1>4 DEF MakeShow, SpawnFocus, SpawnShow, SpawnAttach, ShowPc
  <2>2. pc \notin {"last", "link", "join"}
        /\ pc' \notin {"last", "link", "join", "page", "choose"}
    BY <2>1 DEF ShowPc
  <2>3. \E k \in FreeNodes' : k >= 1
    <3>1. node[new] = NoNode
      BY <1>1, <2>2 DEF NodesOK
    <3>2. FreeNodes # {}
      BY <1>1, <3>1, ConstantFacts, SpareNode
    <3> QED  BY <2>1, <3>2, FreeNodesFrame DEF FreeNodes, Node
  <2> QED  BY <1>1, <2>1, <2>2, <2>3 DEF NodesOK, ScansOK
<1>5. CASE SpawnFindNode
  <2>1. /\ pc = "node" /\ node' = node
        /\ \/ reg \in Node \ FreeNodes /\ pc' = "node" /\ reg' = reg + 1
           \/ pc' = "take"
    BY <1>5 DEF SpawnFindNode, Up
  <2>2. ASSUME pc' = "node"
        PROVE  reg' >= 1 /\ \E k \in FreeNodes' : k >= reg'
    <3>1. PICK k \in FreeNodes : k >= reg
      BY <2>1 DEF ScansOK
    <3>2. k # reg /\ reg \in Int /\ k \in Int
      BY <1>1, <2>1, <2>2, <3>1, ConstantFacts DEF TypeOK, FreeNodes
    <3>3. reg' >= 1
      BY <2>1, <2>2, <3>2 DEF ScansOK
    <3> QED  BY <2>1, <2>2, <3>1, <3>2, <3>3, FreeNodesFrame
  <2> QED  BY <1>1, <2>1, <2>2 DEF NodesOK, ScansOK
<1>6. CASE SpawnTakeNode
  <2>1. /\ pc = "take" /\ pc' = "last" /\ node' = [node EXCEPT ![new] = reg]
        /\ reg \in Node
    BY <1>6 DEF SpawnTakeNode, IInv, Locals
  <2> QED  BY <1>1, <2>1, ConstantFacts DEF NodesOK, ScansOK, TypeOK
<1>7. CASE SpawnLoadLast \/ SpawnLinkLast
  <2>1. pc \in {"last", "link"} /\ pc' \in {"link", "join"} /\ node' = node
    BY <1>7 DEF SpawnLoadLast, SpawnLinkLast
  <2> QED  BY <1>1, <2>1 DEF NodesOK, ScansOK
<1> QED  BY <1>2, <1>3, <1>4, <1>5, <1>6, <1>7 DEF MakeStep, MakeNode

LEMMA NodesStep ==
  ASSUME IInv, [Next]_vars, Up', PagesOK, NodesOK, ScansOK
  PROVE  NodesOK' /\ ScansOK'
<1> USE DEF pcbVars, pageVars, cpuVars, SpawnAt, SpawnGoes, SpawnTakes
<1>0. Up /\ TypeOK
  BY StepCases DEF IInv
<1>1. CASE Idle \/ TickCharge \/ TickPreempt
  <2>1. Listed' = Listed /\ UNCHANGED <<node, page_status, pc, new, reg>>
    <3>1. CASE Idle \/ TickCharge
      BY <3>1 DEF Idle, TickCharge, initVars, Listed
    <3>2. CASE TickPreempt
      BY <3>2, PreemptFacts DEF initVars
    <3> QED  BY <1>1, <3>1, <3>2
  <2> QED  BY <2>1, FreeNodesFrame DEF NodesOK, ScansOK
<1>2. CASE HaltRoot \/ HaltChild
  <2>1. /\ Listed' = Listed \ {cpu} /\ cpu \in Listed /\ cpu \in Pcb
        /\ cpu \notin Unlisted /\ PcbAndPageFreed
        /\ UNCHANGED <<pc, new, reg>>
    BY <1>0, <1>2, HaltRootFacts, HaltChildFacts DEF initVars
  <2>2. pc \in BuildPc => cpu # new
    BY <2>1, PcFacts DEF Unlisted, Building
  <2>3. node' = [node EXCEPT ![cpu] = NoNode]
    BY <2>1 DEF PcbAndPageFreed
  <2>4. NodesOK'
    BY <1>0, <2>1, <2>2, <2>3 DEF NodesOK, TypeOK, BuildPc, ListPc
  <2>5. FreeNodes \subseteq FreeNodes'
    BY <1>0, <2>3, ConstantFacts DEF FreeNodes, TypeOK
  <2>6. \A g \in Page : ~page_status[g] => ~page_status'[g]
    BY <1>0, <2>1 DEF PcbAndPageFreed, TypeOK
  <2> QED  BY <2>1, <2>4, <2>5, <2>6 DEF ScansOK
<1>3. CASE \E nm \in {"shell", "program"}, ok \in BOOLEAN :
             SysExecute(nm, ok) /\ Calls
  BY <1>0, <1>3, NodesExecute
<1>4. CASE LoopStep \/ SpawnMarkPcb \/ SpawnSetup \/ SpawnArm \/ SpawnSetTss
           \/ SpawnEnter
  <2>1. /\ Listed' = Listed /\ node' = node
        /\ pc \in Outside \cup {"setup"} \cup GoPc
        /\ pc' \in Outside \cup {"setup", "term"} \cup GoPc
    <3>1. CASE LoopStep
      BY <3>1, LoopFacts DEF OutsideStep, Listed
    <3>2. CASE SpawnMarkPcb \/ SpawnSetup \/ SpawnArm \/ SpawnSetTss
      BY <3>2 DEF SpawnMarkPcb, SpawnSetup, SpawnArm, SpawnSetTss, Outside,
         CountPc, GoPc, Listed
    <3>3. CASE SpawnEnter
      BY <3>3, LoopPcFacts DEF SpawnEnter, SpawnReturns, Outside, GoPc, Listed
    <3> QED  BY <1>4, <3>1, <3>2, <3>3
  <2>2. /\ pc \notin {"last", "link", "join"}
        /\ pc' \notin {"last", "link", "join", "page", "choose", "node"}
    BY <2>1 DEF Outside, LoopPc, CountPc, GoPc
  <2> QED  BY <2>1, <2>2 DEF NodesOK, ScansOK
<1>5. CASE SpawnChoosePage
  <2>1. /\ Listed' = Listed /\ UNCHANGED <<node, page_status>> /\ pc = "choose"
        /\ \/ reg = NPcb /\ pc' \in LoopPc
           \/ reg \in Page /\ page_status[reg] /\ pc' = "choose" /\ reg' = reg + 1
           \/ pc' = "map"
    BY <1>5, LoopPcFacts DEF SpawnChoosePage, SpawnReturns, Listed
  <2>2. ASSUME pc' = "choose"
        PROVE  \E g \in Page : g >= reg' /\ ~page_status'[g]
    <3>1. PICK g \in Page : g >= reg /\ ~page_status[g]
      BY <2>1 DEF ScansOK
    <3>2. g # reg /\ g \in Int /\ reg \in Int /\ reg' = reg + 1
      BY <1>0, <2>1, <2>2, <3>1, ConstantFacts DEF TypeOK, LoopPc
    <3> QED  BY <2>1, <3>1, <3>2
  <2> QED  BY <2>1, <2>2 DEF NodesOK, ScansOK, LoopPc
<1>6. CASE MakeStep
  BY <1>0, <1>6, NodesMake
<1>7. CASE SpawnJoin
  <2>1. /\ Listed' = Listed \cup {new} /\ new' = new /\ pc = "join"
        /\ pc' = "arm" /\ node' = node
    BY <1>7, JoinFacts
  <2> QED  BY <2>1 DEF NodesOK, ScansOK
<1> QED  BY <1>1, <1>2, <1>3, <1>4, <1>5, <1>6, <1>7, StepCases
-----------------------------------------------------------------------------
(* A PCB is counted before it is taken into use.                           *)
InUse == {p \in Pcb : present[p]}

CountOK == n_present_pcb >= Cardinality(InUse)
                            + (IF pc \in {"find", "mark"} THEN 1 ELSE 0)

LEMMA InUseFacts ==
  ASSUME TypeOK
  PROVE  /\ InUse \subseteq Pcb /\ IsFiniteSet(InUse)
         /\ Cardinality(InUse) \in Nat /\ n_present_pcb \in Int
<1>1. IsFiniteSet(Pcb)
  BY PcbAssumption, FS_Interval DEF Pcb
<1>2. InUse \subseteq Pcb /\ IsFiniteSet(InUse)
  BY <1>1, FS_Subset DEF InUse
<1> QED  BY <1>2, FS_CardinalityType DEF TypeOK

LEMMA CountFrame ==
  ASSUME TypeOK, CountOK, UNCHANGED present, n_present_pcb' \in Int,
         n_present_pcb' >= n_present_pcb,
         pc' \in {"find", "mark"} => pc \in {"find", "mark"}
  PROVE  CountOK'
<1>1. InUse' = InUse
  BY DEF InUse
<1> QED  BY <1>1, InUseFacts DEF CountOK

(* A PCB is taken into use, and was counted before or is counted now.      *)
LEMMA CountTaken ==
  ASSUME TypeOK, CountOK, NEW c \in Pcb, ~present[c],
         present' = [present EXCEPT ![c] = TRUE],
         \/ n_present_pcb' = n_present_pcb + 1
              /\ (pc' \in {"find", "mark"} => pc \in {"find", "mark"})
         \/ n_present_pcb' = n_present_pcb /\ pc = "mark" /\ pc' = "setup"
  PROVE  CountOK'
<1>1. InUse' = InUse \cup {c} /\ c \notin InUse
  BY DEF TypeOK, InUse
<1>2. Cardinality(InUse') = Cardinality(InUse) + 1
  BY <1>1, InUseFacts, FS_AddElement
<1> QED  BY <1>2, InUseFacts DEF CountOK

LEMMA CountGivenBack ==
  ASSUME TypeOK, CountOK, NEW c \in Pcb, present[c],
         present' = [present EXCEPT ![c] = FALSE],
         n_present_pcb' = n_present_pcb - 1,
         pc' \in {"find", "mark"} => pc \in {"find", "mark"}
  PROVE  CountOK'
<1>1. InUse' = InUse \ {c} /\ c \in InUse
  BY DEF TypeOK, InUse
<1>2. Cardinality(InUse') = Cardinality(InUse) - 1
  BY <1>1, InUseFacts, FS_RemoveElement
<1> QED  BY <1>2, InUseFacts DEF CountOK

LEMMA CountExecute ==
  ASSUME IInv, Up, Up', CountOK, NEW nm, NEW ok, SysExecute(nm, ok), Calls
  PROVE  CountOK'
<1>1. TypeOK
  BY DEF IInv
<1>2. pc' \in {"find", "mark"} => pc \in {"find", "mark"}
  BY DEF Calls
<1>3. CASE NoPcbFound
  <2>1. n_present_pcb' \in Int /\ n_present_pcb' >= n_present_pcb
    BY <1>1, <1>3 DEF NoPcbFound, TypeOK
  <2> QED  BY <1>1, <1>2, <1>3, <2>1, CountFrame DEF NoPcbFound
<1>4. CASE \E c \in Pcb : ExecuteFails(c)
  <2>1. n_present_pcb' \in Int /\ n_present_pcb' >= n_present_pcb
    BY <1>1, <1>4 DEF ExecuteFails, TypeOK
  <2> QED  BY <1>1, <1>2, <1>4, <2>1, CountFrame DEF ExecuteFails
<1>5. ASSUME NEW c \in Pcb, Fresh(c), NEW g, ExecuteStarts(c, g, nm)
      PROVE  CountOK'
  <2>1. /\ ~present[c] /\ present' = [present EXCEPT ![c] = TRUE]
        /\ n_present_pcb' = n_present_pcb + 1
    BY <1>5 DEF Fresh, ExecuteStarts
  <2> QED  BY <1>1, <1>2, <2>1, CountTaken
<1>6. CASE ExecuteFindsNoNode
  BY <1>6 DEF ExecuteFindsNoNode, Up
<1> QED  BY <1>3, <1>4, <1>5, <1>6, ExecuteCases

LEMMA CountStep ==
  ASSUME IInv, [Next]_vars, Up', CountOK
  PROVE  CountOK'
<1> USE DEF pcbVars, SpawnAt, SpawnGoes, SpawnTakes, SpawnLoads
<1>0. Up /\ TypeOK /\ n_present_pcb \in Int
  BY StepCases DEF IInv, TypeOK
<1>1. CASE Idle \/ TickCharge \/ TickPreempt
  <2>1. UNCHANGED <<present, n_present_pcb, pc>>
    BY <1>1 DEF Idle, TickCharge, TickPreempt, initVars
  <2> QED  BY <1>0, <2>1, CountFrame
<1>2. CASE HaltRoot \/ HaltChild
  <2>1. cpu \in Pcb /\ cpu \in Listed /\ PcbAndPageFreed /\ pc' = pc
    BY <1>0, <1>2, HaltRootFacts, HaltChildFacts DEF initVars
  <2>2. present[cpu]
    BY <1>0, <2>1, MakingFacts
  <2> QED  BY <1>0, <2>1, <2>2, CountGivenBack DEF PcbAndPageFreed
<1>3. CASE \E nm \in {"shell", "program"}, ok \in BOOLEAN :
             SysExecute(nm, ok) /\ Calls
  BY <1>0, <1>3, CountExecute
<1>4. CASE LoopStep
  <2>1. CASE SpawnStoreCount
    <3>1. /\ pc = "store_n" /\ pc' = "find" /\ present' = present
          /\ n_present_pcb' = n_present_pcb + 1
      BY <2>1 DEF SpawnStoreCount, Up
    <3>2. InUse' = InUse
      BY <3>1 DEF InUse
    <3> QED  BY <1>0, <3>1, <3>2, InUseFacts DEF CountOK
  <2>2. CASE ~SpawnStoreCount
    <3>1. /\ UNCHANGED <<present, n_present_pcb>>
          /\ (pc' \in {"find", "mark"} => pc \in {"find", "mark"})
      BY <1>4, <2>2 DEF LoopStep, InitBoot, InitPlayed, InitScan, InitPlay,
         SpawnLimit, SpawnLoadCount, SpawnFindPcb, SpawnReturns
    <3> QED  BY <1>0, <3>1, CountFrame
  <2> QED  BY <2>1, <2>2
<1>5. CASE SpawnMarkPcb
  <2>1. /\ pc = "mark" /\ pc' = "setup" /\ ~present[new]
        /\ n_present_pcb' = n_present_pcb
        /\ present' = [present EXCEPT ![new] = TRUE] /\ new \in Pcb
    BY <1>0, <1>5 DEF SpawnMarkPcb, TypeOK, Up
  <2> QED  BY <1>0, <2>1, CountTaken
<1>6. CASE SpawnChoosePage
  <2>1. pc = "choose" /\ pc' \in {"choose", "map", "boot", "scan"}
    BY <1>6 DEF SpawnChoosePage, SpawnReturns
  <2>2. CASE UNCHANGED <<present, n_present_pcb>>
    BY <1>0, <2>1, <2>2, CountFrame
  <2>3. CASE /\ present' = [present EXCEPT ![new] = FALSE]
             /\ n_present_pcb' = n_present_pcb - 1
    <3>1. new \in Pcb /\ present[new]
      BY <1>0, <2>1, MakingFacts DEF BuildPc, PagePc
    <3> QED  BY <1>0, <2>1, <2>3, <3>1, CountGivenBack
  <2> QED  BY <1>6, <2>2, <2>3 DEF SpawnChoosePage
<1>7. CASE SpawnSetup \/ MakeStep \/ SpawnJoin \/ SpawnArm \/ SpawnSetTss
           \/ SpawnEnter
  <2>1. UNCHANGED <<present, n_present_pcb>> /\ pc' \notin {"find", "mark"}
    <3>1. CASE MakeStep
      BY <3>1, MakeFrame, PcFacts DEF CountPc
    <3>2. CASE ~MakeStep
      BY <1>7, <3>2 DEF SpawnSetup, SpawnJoin, SpawnArm, SpawnSetTss,
         SpawnEnter, SpawnReturns
    <3> QED  BY <3>1, <3>2
  <2> QED  BY <1>0, <2>1, CountFrame
<1> QED  BY <1>1, <1>2, <1>3, <1>4, <1>5, <1>6, <1>7, StepCases
-----------------------------------------------------------------------------
(* A slot is taken exactly while a task that is set up owns it, and it has *)
(* one owner.                                                              *)
Owners == {p \in SetUp : own_terminal[p]}

OwnersOK ==
  /\ \A t \in Term : valid[t] <=> \E p \in Owners : terminal[p] = t
  /\ \A p, q \in Owners : terminal[p] = terminal[q] => p = q

LEMMA OwnersFrame ==
  ASSUME OwnersOK, Owners' = Owners, UNCHANGED valid,
         \A p \in Owners : terminal'[p] = terminal[p]
  PROVE  OwnersOK'
BY DEF OwnersOK

LEMMA OwnersExecute ==
  ASSUME IInv, Up, Up', OwnersOK, NEW nm, NEW ok, SysExecute(nm, ok), Calls
  PROVE  OwnersOK'
<1>1. TypeOK /\ Listed \subseteq Pcb
  BY MakingFacts DEF IInv
<1>2. Unlisted' = Unlisted /\ new' = new /\ (pc' = "setup" <=> pc = "setup")
  <2>1. "play" \notin BuildPc /\ "played" \notin BuildPc
    BY PcFacts, LoopPcFacts
  <2> QED  BY <2>1 DEF Calls, Unlisted, Building
<1>3. SetUp \subseteq Listed \cup Unlisted /\ SetUp \subseteq Pcb
  BY <1>1 DEF SetUp, Unlisted, TypeOK
<1>4. CASE NoPcbFound
  <2>1. UNCHANGED <<queue, own_terminal, terminal, valid>>
    BY <1>4 DEF NoPcbFound, termVars
  <2>2. Owners' = Owners
    BY <1>2, <2>1 DEF Owners, SetUp, Listed
  <2> QED  BY <2>1, <2>2, OwnersFrame
<1>5. ASSUME NEW c \in Pcb, Fresh(c), FillPcb(c, nm),
             ExecuteFails(c) \/ /\ \E g : ExecuteStarts(c, g, nm)
                                /\ Listed' = Listed \cup {c}
      PROVE  OwnersOK'
  <2>1. c \notin Listed \cup Unlisted /\ c \notin SetUp
    BY <1>3, <1>5 DEF Fresh
  <2>2. /\ own_terminal'[c] = FALSE
        /\ \A p \in Pcb \ {c} : /\ own_terminal'[p] = own_terminal[p]
                                /\ terminal'[p] = terminal[p]
    BY <1>1, <1>5 DEF FillPcb, TypeOK
  <2>3. valid' = valid /\ (Listed' = Listed \/ Listed' = Listed \cup {c})
    BY <1>5 DEF ExecuteFails, ExecuteStarts, termVars, Listed
  <2>4. SetUp' = SetUp \/ SetUp' = SetUp \cup {c}
    <3>1. pc = "setup" => c # new
      BY <1>5 DEF Fresh
    <3> QED  BY <1>2, <2>3, <3>1 DEF SetUp
  <2>5. Owners' = Owners
    BY <1>3, <2>1, <2>2, <2>4 DEF Owners
  <2>6. \A p \in Owners : terminal'[p] = terminal[p]
    BY <1>3, <2>1, <2>2 DEF Owners
  <2> QED  BY <2>3, <2>5, <2>6, OwnersFrame
<1>6. CASE ExecuteFindsNoNode
  BY <1>6 DEF ExecuteFindsNoNode, Up
<1> QED  BY <1>4, <1>5, <1>6, ExecuteCases

LEMMA OwnersHaltRoot ==
  ASSUME IInv, Up', Lineage, OwnersOK, HaltRoot
  PROVE  OwnersOK'
<1> DEFINE t == terminal[cpu]
<1>1. /\ Up /\ cpu \in Listed /\ cpu \notin Unlisted /\ own_terminal[cpu]
      /\ Listed' = Listed \ {cpu} /\ UNCHANGED <<own_terminal, terminal, pc, new>>
      /\ valid' = [valid EXCEPT ![t] = FALSE]
  BY HaltRootFacts DEF initVars
<1>2. pc = "setup" => new # cpu
  BY <1>1 DEF Unlisted, Building, BuildPc
<1>3. cpu \in Owners /\ Owners' = Owners \ {cpu}
  BY <1>1, <1>2 DEF Owners, SetUp, Unlisted, Building
<1>4. t \in Term
  BY <1>3 DEF Lineage, Owners
<1>5. ASSUME NEW s \in Term
      PROVE  valid'[s] <=> \E p \in Owners' : terminal'[p] = s
  <2>1. CASE s = t
    <3>1. ~valid'[s]
      BY <1>1, <1>4, <2>1 DEF IInv, TypeOK
    <3>2. ~ \E p \in Owners \ {cpu} : terminal[p] = t
      BY <1>3 DEF OwnersOK
    <3> QED  BY <1>1, <1>3, <2>1, <3>1, <3>2
  <2>2. CASE s # t
    <3>1. valid'[s] <=> valid[s]
      BY <1>1, <2>2 DEF IInv, TypeOK
    <3> QED  BY <1>1, <1>3, <2>2, <3>1 DEF OwnersOK
  <2> QED  BY <2>1, <2>2
<1>6. \A p, q \in Owners' : terminal'[p] = terminal'[q] => p = q
  BY <1>1, <1>3 DEF OwnersOK
<1> QED  BY <1>5, <1>6 DEF OwnersOK

(* terminal_allocate: the slot was free, so nobody owns it.                *)
LEMMA OwnersAllocate ==
  ASSUME IInv, Up, Lineage, OwnersOK, TerminalTaken
  PROVE  OwnersOK'
<1> "term" \in BuildPc /\ "page" \in BuildPc /\ "term" \in AfterSetup
  BY PcFacts DEF BuildPc, MakingPc, PagePc
<1>1. /\ TypeOK /\ new \in Pcb \ Listed /\ Unlisted = {new} /\ Listed \subseteq Pcb
  BY MakingFacts DEF TerminalTaken, IInv
<1>2. /\ SetUp = Listed \cup {new} /\ SetUp' = SetUp /\ ~own_terminal[new]
      /\ new' = new
  BY <1>1 DEF TerminalTaken, SetUp, Unlisted, Building, Listed, Lineage
<1>3. /\ reg \in Term /\ ~valid[reg] /\ valid' = [valid EXCEPT ![reg] = TRUE]
      /\ own_terminal'[new] /\ terminal'[new] = reg
      /\ \A p \in Listed : /\ own_terminal'[p] = own_terminal[p]
                           /\ terminal'[p] = terminal[p]
  BY <1>1 DEF TerminalTaken, TypeOK
<1>4. Owners' = Owners \cup {new} /\ new \notin Owners /\ Owners \subseteq Listed
  BY <1>1, <1>2, <1>3 DEF Owners
<1>5. \A p \in Owners : terminal'[p] = terminal[p] /\ terminal[p] # reg
  BY <1>3, <1>4 DEF OwnersOK
<1>6. ASSUME NEW s \in Term
      PROVE  valid'[s] <=> \E p \in Owners' : terminal'[p] = s
  <2>1. CASE s = reg
    BY <1>1, <1>3, <1>4, <2>1 DEF TypeOK
  <2>2. CASE s # reg
    <3>1. valid'[s] <=> valid[s]
      BY <1>1, <1>3, <2>2 DEF TypeOK
    <3> QED  BY <1>3, <1>4, <1>5, <2>2, <3>1 DEF OwnersOK
  <2> QED  BY <2>1, <2>2
<1>7. \A p, q \in Owners' : terminal'[p] = terminal'[q] => p = q
  BY <1>3, <1>4, <1>5 DEF OwnersOK
<1> QED  BY <1>6, <1>7 DEF OwnersOK

LEMMA OwnersStep ==
  ASSUME IInv, [Next]_vars, Up', Lineage, ScansOK, OwnersOK
  PROVE  OwnersOK'
<1> USE DEF pcbVars, termVars, SpawnAt, SpawnGoes, SpawnTakes
<1>0. Up /\ TypeOK
  BY StepCases DEF IInv
<1>1. CASE Idle \/ TickCharge
  <2>1. UNCHANGED <<queue, own_terminal, terminal, valid, pc, new>>
    BY <1>1 DEF Idle, TickCharge, initVars
  <2>2. Owners' = Owners
    BY <2>1 DEF Owners, SetUp, Unlisted, Building, Listed
  <2> QED  BY <2>1, <2>2, OwnersFrame
<1>2. CASE TickPreempt
  <2>1. /\ Listed' = Listed
        /\ UNCHANGED <<own_terminal, terminal, valid, pc, new>>
    BY <1>2, PreemptFacts DEF initVars
  <2>2. Owners' = Owners
    BY <2>1 DEF Owners, SetUp, Unlisted, Building
  <2> QED  BY <2>1, <2>2, OwnersFrame
<1>3. CASE HaltRoot
  BY <1>3, OwnersHaltRoot
<1>4. CASE HaltChild
  <2>1. /\ Listed' = Listed \ {cpu} /\ ~own_terminal[cpu]
        /\ UNCHANGED <<own_terminal, terminal, valid, pc, new>>
    BY <1>0, <1>4, HaltChildFacts DEF initVars
  <2>2. Owners' = Owners
    BY <2>1 DEF Owners, SetUp, Unlisted, Building
  <2> QED  BY <2>1, <2>2, OwnersFrame
<1>5. CASE \E nm \in {"shell", "program"}, ok \in BOOLEAN :
             SysExecute(nm, ok) /\ Calls
  BY <1>0, <1>5, OwnersExecute
<1>6. CASE LoopStep
  <2>1. UNCHANGED <<queue, own_terminal, terminal, valid>>
        /\ pc \in Outside /\ pc' \in Outside
    BY <1>6, LoopFacts DEF OutsideStep
  <2>2. Owners' = Owners
    <3>1. pc \notin BuildPc /\ pc' \notin BuildPc /\ pc # "setup" /\ pc' # "setup"
      BY <2>1, PcFacts DEF Outside, BuildPc
    <3> QED  BY <2>1, <3>1 DEF Owners, SetUp, Unlisted, Building, Listed
  <2> QED  BY <2>1, <2>2, OwnersFrame
<1>7. CASE SpawnMarkPcb
  <2>1. /\ UNCHANGED <<queue, own_terminal, terminal, valid, new>>
        /\ pc = "mark" /\ pc' = "setup"
    BY <1>7 DEF SpawnMarkPcb
  <2>2. new \notin Listed'
    <3>1. ~present[new] /\ Listed' = Listed
      BY <1>7, <2>1 DEF SpawnMarkPcb, Up, Listed
    <3> QED  BY <1>0, <3>1, MakingFacts
  <2>3. Owners' = Owners
    <3>1. "mark" \notin BuildPc /\ "setup" \in BuildPc
      BY PcFacts DEF CountPc, BuildPc
    <3> QED  BY <2>1, <2>2, <3>1 DEF Owners, SetUp, Unlisted, Building, Listed
  <2> QED  BY <2>1, <2>3, OwnersFrame
<1>8. CASE SpawnSetup
  <2>1. /\ UNCHANGED <<queue, terminal, valid, new>>
        /\ own_terminal' = [own_terminal EXCEPT ![new] = FALSE]
        /\ pc = "setup" /\ pc' = "term"
    BY <1>8 DEF SpawnSetup
  <2>2. Unlisted = {new} /\ new \in Pcb \ Listed /\ Listed \subseteq Pcb
    BY <1>0, <2>1, MakingFacts DEF BuildPc
  <2>3. SetUp = Listed /\ SetUp' = Listed \cup {new}
    BY <2>1, <2>2 DEF SetUp, Unlisted, Building, BuildPc, Listed
  <2>4. Owners' = Owners
    BY <1>0, <2>1, <2>2, <2>3 DEF Owners, TypeOK
  <2> QED  BY <2>1, <2>4, OwnersFrame
<1>9. CASE SpawnAllocate
  <2>1. CASE TerminalTaken
    BY <1>0, <2>1, OwnersAllocate
  <2>2. CASE ~TerminalTaken
    <3>1. /\ UNCHANGED <<queue, own_terminal, terminal, valid, new>>
          /\ pc = "term" /\ pc' = "term"
      BY <1>9, <2>2, AllocateFacts DEF SpawnAllocate
    <3>2. Owners' = Owners
      BY <3>1 DEF Owners, SetUp, Unlisted, Building, Listed
    <3> QED  BY <3>1, <3>2, OwnersFrame
  <2> QED  BY <2>1, <2>2
<1>10. CASE (MakeStep /\ ~SpawnAllocate) \/ SpawnChoosePage
            \/ SpawnArm \/ SpawnSetTss
  <2>1. /\ UNCHANGED <<queue, own_terminal, terminal, valid, new>>
        /\ \/ pc \in MakingPc /\ pc' \in MakingPc
           \/ pc \in GoPc /\ pc' \in GoPc
    <3>1. CASE MakeStep /\ ~SpawnAllocate
      BY <3>1, MakeFrame, MakeRest DEF MakeStep, MakeTerm
    <3>2. CASE SpawnChoosePage
      BY <1>0, <3>2, ChooseFinds DEF MakingPc, BuildPc, PagePc
    <3>3. CASE SpawnArm \/ SpawnSetTss
      BY <3>3 DEF SpawnArm, SpawnSetTss, GoPc
    <3> QED  BY <1>10, <3>1, <3>2, <3>3
  <2>2. Owners' = Owners
    BY <2>1, PcFacts DEF Owners, SetUp, Unlisted, Building, Listed
  <2> QED  BY <2>1, <2>2, OwnersFrame
<1>11. CASE SpawnJoin
  <2>1. /\ UNCHANGED <<own_terminal, terminal, valid>>
        /\ pc = "join" /\ pc' = "arm" /\ new' = new
        /\ Listed' = Listed \cup {new} /\ Unlisted = {new} /\ Unlisted' = {}
    BY <1>11, JoinFacts
  <2>2. Owners' = Owners
    BY <2>1 DEF Owners, SetUp
  <2> QED  BY <2>1, <2>2, OwnersFrame
<1>12. CASE SpawnEnter
  <2>1. /\ UNCHANGED <<queue, own_terminal, terminal, valid>>
        /\ pc = "enter" /\ pc' \in LoopPc
    BY <1>12, LoopPcFacts DEF SpawnEnter, SpawnReturns
  <2>2. Owners' = Owners
    BY <2>1, PcFacts DEF GoPc, LoopPc, Owners, SetUp, Unlisted, Building, Listed
  <2> QED  BY <2>1, <2>2, OwnersFrame
<1> QED  BY <1>1, <1>2, <1>3, <1>4, <1>5, <1>6, <1>7, <1>8, <1>9, <1>10,
            <1>11, <1>12, StepCases DEF MakeStep, MakeTerm
-----------------------------------------------------------------------------
(* The task that gets the keys of a terminal is the ready one there. init  *)
(* gives the keys to its new task before it lists it.                      *)
FocusPc == PagePc \cup {"focus"}
KeyedPc == {"show", "attach"} \cup ListPc
QuietPc == Outside \cup GoPc \cup {"setup", "term"}

LEMMA KeyPcFacts ==
  /\ MakingPc = {"term"} \cup FocusPc \cup KeyedPc
  /\ FocusPc \cap KeyedPc = {} /\ QuietPc \cap FocusPc = {}
  /\ QuietPc \cap KeyedPc = {} /\ FocusPc \cup KeyedPc \subseteq BuildPc
  /\ Outside \subseteq QuietPc /\ GoPc \subseteq QuietPc
BY DEF MakingPc, BuildPc, FocusPc, KeyedPc, QuietPc, Outside, LoopPc, CountPc,
       GoPc, PagePc, ShowPc, ListPc

Keyed == Listed \cup (IF pc \in KeyedPc THEN {new} ELSE {})

KeysOK ==
  /\ \A t \in Term : foreground_task[t] # Nobody =>
       /\ valid[t] /\ foreground_task[t] \in Keyed
       /\ terminal[foreground_task[t]] = t
       /\ ~having_child_running[foreground_task[t]]
  /\ \A p \in Listed : ~having_child_running[p] /\ terminal[p] # NullTerm =>
       foreground_task[terminal[p]] = p
  /\ pc \in FocusPc =>
       foreground_task[terminal[new]] = Nobody
  /\ pc \in KeyedPc => foreground_task[terminal[new]] = new

LEMMA KeyFacts ==
  ASSUME IInv, Up, KeysOK
  PROVE  /\ Keyed \subseteq Listed \cup Unlisted /\ Keyed \subseteq Pcb
         /\ Nobody \notin Keyed /\ cpu \in Listed /\ cpu \in Pcb
         /\ \A p \in Listed : terminal[p] \in Term \cup {NullTerm}
         /\ terminal[cpu] # NullTerm =>
              /\ terminal[cpu] \in Term
              /\ foreground_task[terminal[cpu]] = cpu /\ valid[terminal[cpu]]
              /\ pc \in FocusPc \cup KeyedPc => terminal[new] # terminal[cpu]
<1>1. TypeOK /\ Listed \subseteq Pcb /\ cpu \in Listed /\ cpu \in Pcb
      /\ ~having_child_running[cpu]
  BY MakingFacts DEF IInv, Core, RunnerOK, TypeOK
<1>2. Keyed \subseteq Listed \cup Unlisted /\ Keyed \subseteq Pcb
  BY <1>1, KeyPcFacts DEF Keyed, Unlisted, Building, TypeOK
<1>3. \A p \in Pcb : terminal[p] \in Term \cup {NullTerm}
  BY <1>1 DEF TypeOK
<1>4. ASSUME terminal[cpu] # NullTerm
      PROVE  /\ terminal[cpu] \in Term
             /\ foreground_task[terminal[cpu]] = cpu /\ valid[terminal[cpu]]
             /\ pc \in FocusPc \cup KeyedPc => terminal[new] # terminal[cpu]
  <2>1. terminal[cpu] \in Term
    BY <1>1, <1>3, <1>4
  <2>2. foreground_task[terminal[cpu]] = cpu
    BY <1>1, <1>4 DEF KeysOK
  <2>3. cpu # Nobody
    BY <1>1, ConstantFacts
  <2>4. valid[terminal[cpu]]
    BY <2>1, <2>2, <2>3 DEF KeysOK
  <2>5. pc \in FocusPc => terminal[new] # terminal[cpu]
    BY <2>2, <2>3 DEF KeysOK
  <2>6. pc \in KeyedPc => terminal[new] # terminal[cpu]
    <3>1. pc \in KeyedPc => new # cpu
      BY <1>1, KeyPcFacts, MakingFacts
    <3> QED  BY <2>2, <3>1 DEF KeysOK
  <2> QED  BY <2>1, <2>2, <2>4, <2>5, <2>6
<1> QED  BY <1>1, <1>2, <1>3, <1>4, ConstantFacts

LEMMA KeysFrame ==
  ASSUME IInv, Up, KeysOK, Listed' = Listed,
         UNCHANGED <<valid, foreground_task>>,
         \A p \in Listed \cup Unlisted :
           /\ terminal'[p] = terminal[p]
           /\ having_child_running'[p] = having_child_running[p],
         \/ UNCHANGED <<pc, new>>
         \/ pc \in QuietPc /\ pc' \in QuietPc
         \/ /\ new' = new
            /\ \/ pc \in FocusPc /\ pc' \in FocusPc
               \/ pc \in KeyedPc /\ pc' \in KeyedPc
  PROVE  KeysOK'
<1>1. Keyed \subseteq Listed \cup Unlisted
  BY KeyFacts
<1>2. Keyed' = Keyed
  BY KeyPcFacts DEF Keyed
<1>3. \A t \in Term : foreground_task'[t] # Nobody =>
       /\ valid'[t] /\ foreground_task'[t] \in Keyed'
       /\ terminal'[foreground_task'[t]] = t
       /\ ~having_child_running'[foreground_task'[t]]
  BY <1>1, <1>2 DEF KeysOK
<1>4. \A p \in Listed' :
       ~having_child_running'[p] /\ terminal'[p] # NullTerm =>
         foreground_task'[terminal'[p]] = p
  BY DEF KeysOK
<1>5. pc \in FocusPc \cup KeyedPc => terminal'[new] = terminal[new]
  BY MakingFacts, KeyPcFacts
<1>6. pc' \in FocusPc =>
        foreground_task'[terminal'[new']] = Nobody
  BY <1>5, KeyPcFacts DEF KeysOK
<1>7. pc' \in KeyedPc =>
        foreground_task'[terminal'[new']] = new'
  BY <1>5, KeyPcFacts DEF KeysOK
<1> QED  BY <1>3, <1>4, <1>6, <1>7 DEF KeysOK

(* The keys of the terminal of the caller go to the task it executes.      *)
LEMMA KeysExecute ==
  ASSUME IInv, Up, Up', KeysOK, NEW nm, NEW ok, SysExecute(nm, ok), Calls
  PROVE  KeysOK'
<1> DEFINE fg == foreground_task
           w == having_child_running
           t == terminal[cpu]
<1>1. TypeOK /\ Listed \subseteq Pcb
  BY MakingFacts DEF IInv
<1>2. \/ UNCHANGED <<pc, new>>
      \/ pc \in QuietPc /\ pc' \in QuietPc
  BY KeyPcFacts, LoopPcFacts DEF Calls, Outside
<1>3. CASE NoPcbFound
  BY <1>2, <1>3, KeysFrame DEF NoPcbFound, termVars, Listed
<1>4. ASSUME NEW c \in Pcb, Fresh(c), FillPcb(c, nm), ExecuteFails(c)
      PROVE  KeysOK'
  <2>1. \A p \in Listed \cup Unlisted : terminal'[p] = terminal[p] /\ w'[p] = w[p]
    BY <1>1, <1>4 DEF Fresh, FillPcb, ExecuteFails, Unlisted, TypeOK
  <2>2. Listed' = Listed /\ UNCHANGED <<valid, foreground_task>>
    BY <1>4 DEF ExecuteFails, termVars, Listed
  <2> QED  BY <1>2, <2>1, <2>2, KeysFrame
<1>5. ASSUME NEW c \in Pcb, Fresh(c), FillPcb(c, nm), Listed' = Listed \cup {c},
             NEW g, ExecuteStarts(c, g, nm)
      PROVE  KeysOK'
  <2>1. /\ c \notin Listed \cup Unlisted /\ c # cpu
        /\ (pc \in FocusPc \cup KeyedPc => c # new /\ new \in Pcb \ Listed)
    <3>1. FocusPc \cup KeyedPc \subseteq AfterSetup
      BY KeyPcFacts, PcFacts
    <3> QED  BY <1>5, <3>1, MakingFacts, KeyPcFacts DEF Fresh
  <2>2. /\ w'[c] = FALSE /\ w'[cpu] = TRUE
        /\ \A p \in Pcb \ {c, cpu} : w'[p] = w[p]
    BY <1>1, <1>5, <2>1 DEF ExecuteStarts, ChildWaitedFor, TypeOK
  <2>3. /\ terminal'[c] = t
        /\ \A p \in Pcb \ {c} : terminal'[p] = terminal[p]
    BY <1>1, <1>5 DEF FillPcb, TypeOK
  <2>4. /\ valid' = valid
        /\ fg' = IF t # NullTerm THEN [fg EXCEPT ![t] = c] ELSE fg
    BY <1>5 DEF ExecuteStarts
  <2>5. /\ \A s \in Term : s = t => fg'[s] = c
        /\ \A s \in Term : s # t => fg'[s] = fg[s]
    <3>1. NullTerm \notin Term
      BY ConstantFacts DEF NullTerm
    <3> QED  BY <1>1, <2>4, <3>1 DEF TypeOK
  <2>6. Keyed' = Keyed \cup {c}
    BY <1>2, <1>5, KeyPcFacts DEF Keyed
  <2>7. ASSUME NEW s \in Term, fg'[s] # Nobody
        PROVE  /\ valid'[s] /\ fg'[s] \in Keyed'
               /\ terminal'[fg'[s]] = s /\ ~w'[fg'[s]]
    <3>1. CASE s = t
      <4>1. valid[t]
        BY <3>1, KeyFacts, ConstantFacts DEF NullTerm
      <4> QED  BY <2>2, <2>3, <2>4, <2>5, <2>6, <3>1, <4>1
    <3>2. CASE s # t
      <4>1. /\ fg'[s] = fg[s] /\ valid[s] /\ fg[s] \in Keyed
            /\ terminal[fg[s]] = s /\ ~w[fg[s]]
        BY <2>5, <2>7, <3>2 DEF KeysOK
      <4>2. fg[s] \in Pcb /\ fg[s] # c /\ fg[s] # cpu
        BY <2>1, <3>2, <4>1, KeyFacts
      <4> QED  BY <2>2, <2>3, <2>4, <2>6, <4>1, <4>2
    <3> QED  BY <3>1, <3>2
  <2>8. ASSUME NEW p \in Listed', ~w'[p], terminal'[p] # NullTerm
        PROVE  fg'[terminal'[p]] = p
    <3>1. CASE p = c
      <4>1. t \in Term
        BY <2>3, <2>8, <3>1, KeyFacts
      <4> QED  BY <2>3, <2>5, <3>1, <4>1
    <3>2. CASE p # c
      <4>1. p \in Listed /\ p # cpu /\ p \in Pcb
        BY <1>1, <1>5, <2>2, <2>8, <3>2
      <4>2. ~w[p] /\ terminal[p] # NullTerm /\ terminal'[p] = terminal[p]
        BY <2>2, <2>3, <2>8, <3>2, <4>1
      <4>3. fg[terminal[p]] = p /\ terminal[p] \in Term
        BY <4>1, <4>2, KeyFacts DEF KeysOK
      <4>4. terminal[p] # t
        BY <4>1, <4>2, <4>3, KeyFacts
      <4> QED  BY <2>5, <4>2, <4>3, <4>4
    <3> QED  BY <3>1, <3>2
  <2>9. pc \in FocusPc \cup KeyedPc =>
          fg'[terminal'[new]] = fg[terminal[new]]
    <3> SUFFICES ASSUME pc \in FocusPc \cup KeyedPc
                 PROVE  fg'[terminal'[new]] = fg[terminal[new]]
      OBVIOUS
    <3>1. terminal'[new] = terminal[new]
      BY <2>1, <2>3
    <3>2. CASE t = NullTerm
      BY <2>4, <3>1, <3>2
    <3>3. CASE t # NullTerm
      <4>1. terminal[new] # t
        BY <3>3, KeyFacts
      <4> QED  BY <1>1, <2>4, <3>1, <3>3, <4>1 DEF TypeOK
    <3> QED  BY <3>2, <3>3
  <2>10. /\ pc' \in FocusPc =>
              fg'[terminal'[new']] = Nobody
         /\ pc' \in KeyedPc => fg'[terminal'[new']] = new'
    BY <1>2, <2>9, KeyPcFacts DEF KeysOK
  <2> QED  BY <2>7, <2>8, <2>10 DEF KeysOK
<1>6. CASE ExecuteFindsNoNode
  BY <1>6 DEF ExecuteFindsNoNode, Up
<1> QED  BY <1>3, <1>4, <1>5, <1>6, ExecuteCases

(* The task on the CPU leaves: its keys go to nobody, or to its parent.    *)
LEMMA KeysHaltRoot ==
  ASSUME IInv, Up', Lineage, KeysOK, HaltRoot
  PROVE  KeysOK'
<1> DEFINE fg == foreground_task
           w == having_child_running
           t == terminal[cpu]
<1>1. /\ Up /\ TypeOK /\ cpu \in Listed /\ own_terminal[cpu] /\ ~w[cpu]
      /\ cpu \notin Unlisted
      /\ Listed' = Listed \ {cpu} /\ Listed \subseteq Pcb
      /\ UNCHANGED <<own_terminal, terminal, having_child_running, pc, new>>
      /\ valid' = [valid EXCEPT ![t] = FALSE]
      /\ fg' = [fg EXCEPT ![t] = Nobody]
  BY HaltRootFacts, MakingFacts DEF initVars, IInv
<1>2. t \in Term /\ t # NullTerm
  <2>1. cpu \in SetUp
    BY <1>1 DEF SetUp, Unlisted, Building, BuildPc
  <2> QED  BY <1>1, <2>1, ConstantFacts DEF Lineage, NullTerm
<1>3. fg'[t] = Nobody /\ \A s \in Term \ {t} : fg'[s] = fg[s] /\ valid'[s] = valid[s]
  BY <1>1, <1>2 DEF TypeOK
<1>4. fg[t] = cpu
  BY <1>1, <1>2 DEF KeysOK
<1>5. Keyed' = Keyed \ {cpu}
  BY <1>1, MakingFacts, KeyPcFacts DEF Keyed
<1>6. ASSUME NEW s \in Term, fg'[s] # Nobody
      PROVE  /\ valid'[s] /\ fg'[s] \in Keyed'
             /\ terminal'[fg'[s]] = s /\ ~w'[fg'[s]]
  <2>1. s # t /\ fg'[s] = fg[s] /\ valid'[s] = valid[s]
    BY <1>3, <1>6
  <2>2. valid[s] /\ fg[s] \in Keyed /\ terminal[fg[s]] = s /\ ~w[fg[s]]
    BY <1>6, <2>1 DEF KeysOK
  <2> QED  BY <1>1, <1>5, <2>1, <2>2
<1>7. ASSUME NEW p \in Listed', ~w'[p], terminal'[p] # NullTerm
      PROVE  fg'[terminal'[p]] = p
  <2>1. p \in Listed /\ p # cpu /\ ~w[p] /\ terminal[p] # NullTerm
    BY <1>1, <1>7
  <2>2. fg[terminal[p]] = p /\ terminal[p] \in Term
    BY <1>1, <2>1, KeyFacts DEF KeysOK
  <2> QED  BY <1>1, <1>3, <1>4, <2>1, <2>2
<1>8. pc \in FocusPc \cup KeyedPc =>
        terminal[new] # t
  BY <1>1, <1>2, KeyFacts
<1>9. /\ pc' \in FocusPc =>
           fg'[terminal'[new']] = Nobody
      /\ pc' \in KeyedPc => fg'[terminal'[new']] = new'
  BY <1>1, <1>8 DEF KeysOK
<1> QED  BY <1>6, <1>7, <1>9 DEF KeysOK

LEMMA KeysHaltChild ==
  ASSUME IInv, Up', Lineage, KeysOK, HaltChild
  PROVE  KeysOK'
<1> DEFINE fg == foreground_task
           w == having_child_running
           par == parent[cpu]
           t == terminal[cpu]
<1>1. /\ Up /\ TypeOK /\ cpu \in Listed /\ ~w[cpu] /\ cpu \notin Unlisted
      /\ par \in Listed /\ par # cpu /\ par # Nobody /\ cpu' = par
      /\ Listed' = Listed \ {cpu} /\ Listed \subseteq Pcb
      /\ w' = [w EXCEPT ![par] = FALSE]
      /\ UNCHANGED <<terminal, valid, pc, new>>
      /\ fg' = TakenOver(terminal[par], par)
  BY HaltChildFacts, MakingFacts DEF initVars, IInv, WaitOver
<1>2. terminal[par] = t
  BY <1>1 DEF Lineage
<1>3. ~w'[par] /\ \A p \in Pcb \ {par} : w'[p] = w[p]
  BY <1>1 DEF TypeOK
<1>4. /\ t \in Term => fg'[t] = par /\ fg[t] = cpu /\ valid[t]
      /\ \A s \in Term \ {t} : fg'[s] = fg[s]
  <2>1. fg' = IF t = NullTerm THEN fg ELSE [fg EXCEPT ![t] = par]
    BY <1>1, <1>2 DEF TakenOver
  <2>2. NullTerm \notin Term
    BY ConstantFacts DEF NullTerm
  <2>3. t \in Term => fg[t] = cpu /\ valid[t]
    BY <1>1, <2>2, KeyFacts
  <2> QED  BY <1>1, <2>1, <2>2, <2>3 DEF TypeOK
<1>5. Keyed' = Keyed \ {cpu}
  BY <1>1, MakingFacts, KeyPcFacts DEF Keyed
<1>6. ASSUME NEW s \in Term, fg'[s] # Nobody
      PROVE  /\ valid'[s] /\ fg'[s] \in Keyed'
             /\ terminal'[fg'[s]] = s /\ ~w'[fg'[s]]
  <2>1. CASE s = t
    BY <1>1, <1>2, <1>3, <1>4, <1>5, <2>1 DEF Keyed
  <2>2. CASE s # t
    <3>1. fg'[s] = fg[s]
      BY <1>4, <2>2
    <3>2. valid[s] /\ fg[s] \in Keyed /\ terminal[fg[s]] = s /\ ~w[fg[s]]
      BY <1>6, <3>1 DEF KeysOK
    <3>3. fg[s] # cpu /\ fg[s] \in Pcb
      BY <1>1, <2>2, <3>2, KeyFacts
    <3>4. ~w'[fg[s]]
      BY <1>3, <3>2, <3>3
    <3> QED  BY <1>1, <1>5, <3>1, <3>2, <3>3, <3>4
  <2> QED  BY <2>1, <2>2
<1>7. ASSUME NEW p \in Listed', ~w'[p], terminal'[p] # NullTerm
      PROVE  fg'[terminal'[p]] = p
  <2>1. p \in Listed /\ p # cpu /\ terminal[p] \in Term /\ p \in Pcb
        /\ terminal'[p] = terminal[p]
    BY <1>1, <1>7, KeyFacts
  <2>2. CASE p = par
    BY <1>2, <1>4, <2>1, <2>2
  <2>3. CASE p # par
    <3>1. fg[terminal[p]] = p
      BY <1>3, <1>7, <2>1, <2>3 DEF KeysOK
    <3>2. terminal[p] # t
      BY <1>4, <2>1, <3>1
    <3> QED  BY <1>4, <2>1, <3>1, <3>2
  <2> QED  BY <2>2, <2>3
<1>8. pc \in FocusPc \cup KeyedPc =>
        fg'[terminal[new]] = fg[terminal[new]]
  <2>1. CASE t = NullTerm
    BY <1>1, <1>2, <2>1 DEF TakenOver
  <2>2. CASE t # NullTerm
    <3>1. pc \in FocusPc \cup KeyedPc =>
            terminal[new] # t
      BY <1>1, <2>2, KeyFacts
    <3>2. fg' = [fg EXCEPT ![t] = par]
      BY <1>1, <1>2, <2>2 DEF TakenOver
    <3> QED  BY <1>1, <3>1, <3>2 DEF TypeOK
  <2> QED  BY <2>1, <2>2
<1>9. /\ pc' \in FocusPc =>
           fg'[terminal'[new']] = Nobody
      /\ pc' \in KeyedPc => fg'[terminal'[new']] = new'
  BY <1>1, <1>8 DEF KeysOK
<1> QED  BY <1>6, <1>7, <1>9 DEF KeysOK

(* A slot that was free has no keys to give, so the new task starts with a *)
(* terminal that nobody reads from.                                        *)
LEMMA KeysAllocate ==
  ASSUME IInv, Up, KeysOK, TerminalTaken
  PROVE  KeysOK'
<1> DEFINE fg == foreground_task
           w == having_child_running
<1> "term" \in BuildPc /\ "page" \in FocusPc /\ "page" \notin KeyedPc
    /\ "term" \notin KeyedPc /\ "term" \notin FocusPc
  BY DEF BuildPc, FocusPc, KeyedPc, PagePc, ListPc
<1>1. /\ TypeOK /\ pc = "term" /\ pc' = "page" /\ new' = new
      /\ new \in Pcb \ Listed /\ Listed \subseteq Pcb /\ Listed' = Listed
      /\ UNCHANGED <<foreground_task, having_child_running>>
  BY MakingFacts DEF TerminalTaken, IInv, Listed
<1>a. \A p \in Listed : terminal'[p] = terminal[p] /\ w'[p] = w[p]
  BY <1>1 DEF TerminalTaken, TypeOK
<1>2. PICK t \in Term : /\ ~valid[t] /\ terminal'[new] = t
                        /\ valid' = [valid EXCEPT ![t] = TRUE]
  BY <1>1 DEF TerminalTaken, TypeOK
<1>3. Keyed = Listed /\ Keyed' = Listed
  BY <1>1 DEF Keyed
<1>4. \A s \in Term : valid[s] => valid'[s]
  BY <1>1, <1>2 DEF TypeOK
<1>5. \A s \in Term : fg'[s] # Nobody =>
        /\ valid'[s] /\ fg'[s] \in Keyed'
        /\ terminal'[fg'[s]] = s /\ ~w'[fg'[s]]
  BY <1>1, <1>a, <1>3, <1>4 DEF KeysOK
<1>6. \A p \in Listed' : ~w'[p] /\ terminal'[p] # NullTerm =>
        fg'[terminal'[p]] = p
  BY <1>1, <1>a DEF KeysOK
<1>7. fg'[terminal'[new']] = Nobody
  BY <1>1, <1>2 DEF KeysOK
<1> QED  BY <1>1, <1>5, <1>6, <1>7 DEF KeysOK

(* The new task gets the keys of its terminal, before it is listed ...     *)
LEMMA KeysFocus ==
  ASSUME IInv, Lineage, OwnersOK, KeysOK, SpawnFocus
  PROVE  KeysOK'
<1> DEFINE fg == foreground_task
           w == having_child_running
           t == terminal[new]
<1>1. /\ Up /\ TypeOK /\ Core /\ pc = "focus" /\ pc' = "show" /\ new' = new
      /\ fg' = [fg EXCEPT ![t] = new] /\ Listed' = Listed
      /\ UNCHANGED <<valid, terminal, having_child_running>>
  BY DEF SpawnFocus, SpawnAt, SpawnGoes, pcbVars, IInv, Listed
<1> "focus" \in BuildPc /\ "focus" \in MakingPc /\ "focus" \in AfterSetup
    /\ "focus" \in FocusPc /\ "focus" \notin KeyedPc /\ "show" \in KeyedPc
    /\ "show" \notin FocusPc
  BY DEF BuildPc, MakingPc, AfterSetup, FocusPc, KeyedPc, PagePc, ShowPc, ListPc
<1>2. /\ new \in Pcb \ Listed /\ Unlisted = {new} /\ ~w[new]
  BY <1>1, MakingFacts DEF Core, Starting
<1>3. t \in Term /\ valid[t]
  <2>1. new \in Owners
    BY <1>1, <1>2 DEF Lineage, Owners, SetUp
  <2> QED  BY <2>1 DEF OwnersOK, Lineage, Owners
<1>4. fg'[t] = new /\ \A s \in Term \ {t} : fg'[s] = fg[s]
  BY <1>1, <1>3 DEF TypeOK
<1>5. Keyed = Listed /\ Keyed' = Listed \cup {new}
  BY <1>1 DEF Keyed
<1>6. ASSUME NEW s \in Term, fg'[s] # Nobody
      PROVE  /\ valid'[s] /\ fg'[s] \in Keyed'
             /\ terminal'[fg'[s]] = s /\ ~w'[fg'[s]]
  <2>1. CASE s = t
    BY <1>1, <1>2, <1>3, <1>4, <1>5, <2>1
  <2>2. CASE s # t
    BY <1>1, <1>4, <1>5, <1>6, <2>2 DEF KeysOK
  <2> QED  BY <2>1, <2>2
<1>7. ASSUME NEW p \in Listed', ~w'[p], terminal'[p] # NullTerm
      PROVE  fg'[terminal'[p]] = p
  <2>1. p \in Listed /\ fg[terminal[p]] = p /\ terminal[p] \in Term
    BY <1>1, <1>7, KeyFacts DEF KeysOK
  <2>2. fg[t] = Nobody /\ p # Nobody
    BY <1>1, <2>1, MakingFacts, ConstantFacts DEF KeysOK
  <2> QED  BY <1>1, <1>4, <2>1, <2>2
<1> QED  BY <1>1, <1>4, <1>6, <1>7 DEF KeysOK

(* ... so that it is the one to have them when it is.                      *)
LEMMA KeysJoin ==
  ASSUME IInv, KeysOK, SpawnJoin
  PROVE  KeysOK'
<1> "join" \in KeyedPc /\ "arm" \notin KeyedPc /\ "arm" \notin FocusPc
  BY DEF FocusPc, KeyedPc, PagePc, ListPc
<1>1. /\ pc = "join" /\ pc' = "arm" /\ new' = new
      /\ Listed' = Listed \cup {new}
      /\ UNCHANGED <<terminal, having_child_running, valid, foreground_task>>
  BY JoinFacts DEF pcbVars, termVars
<1>2. Keyed' = Keyed
  BY <1>1 DEF Keyed
<1>3. foreground_task[terminal[new]] = new
  BY <1>1 DEF KeysOK
<1> QED  BY <1>1, <1>2, <1>3 DEF KeysOK

(* The other steps of making a task do not give keys.                      *)
LEMMA MakeKeyless ==
  ASSUME MakeStep, ~SpawnAllocate, ~SpawnFocus
  PROVE  /\ UNCHANGED foreground_task
         /\ \/ pc \in FocusPc /\ pc' \in FocusPc
            \/ pc \in KeyedPc /\ pc' \in KeyedPc
<1> USE DEF pcbVars, termVars, SpawnAt, SpawnGoes, SpawnTakes, SpawnLoads
<1>1. CASE MakePage
  BY <1>1 DEF MakePage, SpawnResetPages, SpawnMapPage, SpawnLoadPages,
     SpawnStorePages, SpawnMarkPage, SpawnSetPid, FocusPc, PagePc
<1>2. CASE SpawnShow \/ SpawnAttach
  BY <1>2 DEF SpawnShow, SpawnAttach, KeyedPc, ListPc
<1>3. CASE MakeNode
  BY <1>3 DEF MakeNode, SpawnFindNode, SpawnTakeNode, SpawnLoadLast,
     SpawnLinkLast, KeyedPc, ListPc
<1> QED  BY <1>1, <1>2, <1>3 DEF MakeStep, MakeTerm, MakeShow

LEMMA KeysStep ==
  ASSUME IInv, [Next]_vars, Up', Lineage, ScansOK, OwnersOK, KeysOK
  PROVE  KeysOK'
<1> USE DEF pcbVars, termVars, SpawnAt, SpawnGoes, SpawnTakes, SpawnLoads
<1>0. Up /\ TypeOK
  BY StepCases DEF IInv
<1>1. CASE Idle \/ TickCharge
  <2>1. UNCHANGED <<queue, terminal, having_child_running, valid,
                    foreground_task, pc, new>>
    BY <1>1 DEF Idle, TickCharge, initVars
  <2> QED  BY <1>0, <2>1, KeysFrame DEF Listed
<1>2. CASE TickPreempt
  <2>1. /\ Listed' = Listed
        /\ UNCHANGED <<terminal, having_child_running, valid,
                       foreground_task, pc, new>>
    BY <1>2, PreemptFacts DEF initVars
  <2> QED  BY <1>0, <2>1, KeysFrame
<1>3. CASE HaltRoot \/ HaltChild
  BY <1>3, KeysHaltRoot, KeysHaltChild
<1>4. CASE \E nm \in {"shell", "program"}, ok \in BOOLEAN :
             SysExecute(nm, ok) /\ Calls
  BY <1>0, <1>4, KeysExecute
<1>5. CASE LoopStep
  <2>1. OutsideStep
    BY <1>5, LoopFacts
  <2>2. pc \in QuietPc /\ pc' \in QuietPc
    BY <2>1, KeyPcFacts DEF OutsideStep
  <2> QED  BY <1>0, <2>1, <2>2, KeysFrame DEF OutsideStep, Listed
<1>6. CASE \/ SpawnMarkPcb \/ SpawnChoosePage \/ SpawnArm \/ SpawnSetTss
           \/ SpawnEnter \/ (MakeStep /\ ~SpawnAllocate /\ ~SpawnFocus)
  <2>1. UNCHANGED <<queue, terminal, having_child_running, valid,
                    foreground_task>>
    <3>1. CASE SpawnChoosePage
      BY <1>0, <3>1, ChooseFinds
    <3>2. CASE SpawnMarkPcb \/ SpawnArm \/ SpawnSetTss \/ SpawnEnter
      BY <3>2 DEF SpawnMarkPcb, SpawnArm, SpawnSetTss, SpawnEnter
    <3>3. CASE MakeStep /\ ~SpawnAllocate /\ ~SpawnFocus
      BY <3>3, MakeFrame, MakeKeyless, MakeRest DEF MakeStep, MakeTerm
    <3> QED  BY <1>6, <3>1, <3>2, <3>3
  <2>2. \/ pc \in QuietPc /\ pc' \in QuietPc
        \/ /\ new' = new
           /\ \/ pc \in FocusPc /\ pc' \in FocusPc
              \/ pc \in KeyedPc /\ pc' \in KeyedPc
    <3>1. CASE SpawnChoosePage
      <4>1. pc = "choose" /\ pc' \in {"choose", "map"} /\ new' = new
        BY <1>0, <3>1, ChooseFinds
      <4> QED  BY <4>1 DEF FocusPc, PagePc
    <3>2. CASE SpawnMarkPcb \/ SpawnArm \/ SpawnSetTss \/ SpawnEnter
      <4>1. pc \in CountPc \cup GoPc /\ pc' \in GoPc \cup {"setup"} \cup LoopPc
        BY <3>2, LoopPcFacts DEF SpawnMarkPcb, SpawnArm, SpawnSetTss, SpawnEnter,
           SpawnReturns, CountPc, GoPc
      <4> QED  BY <4>1 DEF QuietPc, Outside
    <3>3. CASE MakeStep /\ ~SpawnAllocate /\ ~SpawnFocus
      BY <3>3, MakeFrame, MakeKeyless
    <3> QED  BY <1>6, <3>1, <3>2, <3>3
  <2> QED  BY <1>0, <2>1, <2>2, KeysFrame DEF Listed
<1>7. CASE SpawnSetup
  <2>1. /\ UNCHANGED <<queue, valid, foreground_task, terminal, new>>
        /\ having_child_running' = [having_child_running EXCEPT ![new] = FALSE]
        /\ pc = "setup" /\ pc' = "term"
    BY <1>7 DEF SpawnSetup
  <2>2. new \in Pcb \ Listed /\ Listed \subseteq Pcb /\ Listed' = Listed
    BY <1>0, <2>1, MakingFacts DEF BuildPc, Listed
  <2>3. \A p \in Listed : having_child_running'[p] = having_child_running[p]
    BY <1>0, <2>1, <2>2 DEF TypeOK
  <2>4. /\ pc \notin KeyedPc /\ pc' \notin KeyedPc /\ pc' \notin FocusPc
        /\ Keyed = Listed /\ Keyed' = Listed
    BY <2>1, <2>2 DEF KeyedPc, FocusPc, PagePc, ListPc, Keyed
  <2> QED  BY <2>1, <2>2, <2>3, <2>4 DEF KeysOK
<1>10. CASE SpawnAllocate
  <2>1. CASE TerminalTaken
    BY <1>0, <2>1, KeysAllocate
  <2>2. CASE ~TerminalTaken
    <3>1. /\ pc = "term" /\ pc' = "term"
          /\ UNCHANGED <<queue, valid, foreground_task, terminal, new,
                         having_child_running>>
      BY <1>10, <2>2, AllocateFacts DEF SpawnAllocate
    <3> QED  BY <1>0, <3>1, KeysFrame DEF Listed
  <2> QED  BY <2>1, <2>2
<1>8. CASE SpawnFocus
  BY <1>8, KeysFocus
<1>9. CASE SpawnJoin
  BY <1>9, KeysJoin
<1> QED  BY <1>1, <1>2, <1>3, <1>4, <1>5, <1>6, <1>7, <1>8, <1>9,
            <1>10, StepCases DEF MakeStep, MakeTerm, MakeShow
-----------------------------------------------------------------------------
(* When init makes a task there is a slot left: in the boot loop because   *)
(* it has made at most one task for each slot before, later because the    *)
(* terminal it makes the task for has no task that reads, and a terminal   *)
(* with any task on it has one.                                            *)
BeforeSlot == CountPc \cup {"setup", "term"}
WithSlot == AfterSetup \ {"term"}

LEMMA SlotPcFacts ==
  /\ LoopPc \cap BeforeSlot = {} /\ LoopPc \cap WithSlot = {}
  /\ BeforeSlot \cap WithSlot = {} /\ Outside = LoopPc \cup CountPc
  /\ BeforeSlot \subseteq SpawnPc /\ "play" \in LoopPc /\ "played" \in LoopPc
  /\ "boot" \in LoopPc /\ "scan" \in LoopPc /\ "limit" \in BeforeSlot
BY DEF LoopPc, BeforeSlot, WithSlot, AfterSetup, MakingPc, BuildPc, CountPc,
       GoPc, SpawnPc, PagePc, ShowPc, ListPc, Outside

Taken == {t \in Term : valid[t]}

SlotLeft ==
  /\ pc \in LoopPc => (all_terminal_is_on <=> pc # "boot")
  /\ all_terminal_is_on /\ pc \in BeforeSlot => foreground_task[slot] = Nobody
  /\ ~all_terminal_is_on =>
       Cardinality(Taken) <= slot + (IF pc \in WithSlot THEN 1 ELSE 0)

(* The scan of init for a slot never gets past the last one.               *)
TermLeft ==
  /\ pc \in {"mark", "setup"} => reg = 0
  /\ pc = "term" => \E t \in Term : t >= reg /\ ~valid[t]

LEMMA TermFacts ==
  /\ IsFiniteSet(Term) /\ Cardinality(Term) = NTerm
  /\ \A S \in SUBSET Term : /\ IsFiniteSet(S) /\ Cardinality(S) \in Nat
                           /\ \A R \in SUBSET S : Cardinality(R) <= Cardinality(S)
<1>1. IsFiniteSet(Term) /\ Cardinality(Term) = NTerm
  BY TermAssumption, FS_Interval DEF Term
<1>2. \A S \in SUBSET Term : IsFiniteSet(S)
  BY <1>1, FS_Subset
<1> QED  BY <1>1, <1>2, FS_Subset, FS_CardinalityType

LEMMA SlotFacts ==
  ASSUME TypeOK
  PROVE  /\ slot \in Nat /\ slot <= NTerm /\ (slot < NTerm => slot \in Term)
         /\ Cardinality(Taken) \in Nat /\ NullTerm \notin Term
<1>1. slot \in 0 .. NTerm /\ NTerm \in Nat
  BY ConstantFacts DEF TypeOK
<1>2. Taken \in SUBSET Term
  BY DEF Taken
<1> QED  BY <1>1, <1>2, TermFacts DEF Term, NullTerm

(* A terminal that has tasks has one that waits for no child, for they do  *)
(* not wait in a circle and children stay on the terminal of their parent. *)
LEMMA EmptyTerminal ==
  ASSUME IInv, Up, Lineage, KeysOK, NEW t \in Term, foreground_task[t] = Nobody
  PROVE  \A p \in Listed : terminal[p] # t
<1> SUFFICES ASSUME NEW a \in Listed, terminal[a] = t
             PROVE  FALSE
  OBVIOUS
<1> DEFINE S == {p \in Listed : terminal[p] = t}
<1>1. /\ Core /\ Listed \subseteq Pcb /\ t # NullTerm /\ Nobody \notin Pcb
  BY MakingFacts, ConstantFacts DEF IInv, NullTerm
<1>2. PICK p \in S : \A c \in S : parent[c] # p
  <2>1. S \in SUBSET Listed /\ S # {}
    OBVIOUS
  <2> HIDE DEF S
  <2> QED  BY <1>1, <2>1 DEF Core, FamilyOK, Grounded
<1>3. \A c \in Listed : parent[c] # p
  <2> SUFFICES ASSUME NEW c \in Listed, parent[c] = p
               PROVE  FALSE
    OBVIOUS
  <2>1. terminal[c] = t
    BY <1>1 DEF Lineage
  <2> QED  BY <1>2, <2>1
<1>4. ~having_child_running[p]
  BY <1>1, <1>3 DEF Core, FamilyOK, Family
<1>5. foreground_task[t] = p
  BY <1>1, <1>4 DEF KeysOK
<1> QED  BY <1>1, <1>5

LEMMA SlotForSetup ==
  ASSUME IInv, Up, Lineage, OwnersOK, KeysOK, SlotLeft, pc = "setup"
  PROVE  \E t \in Term : ~valid[t]
<1>1. TypeOK /\ slot < NTerm /\ slot \in Term
  <2>1. TypeOK /\ slot < NTerm
    BY SlotPcFacts DEF IInv, Locals, BeforeSlot
  <2> QED  BY <2>1, SlotFacts
<1>2. CASE all_terminal_is_on
  <2>1. foreground_task[slot] = Nobody
    BY <1>2 DEF SlotLeft, BeforeSlot
  <2>2. \A p \in Listed : terminal[p] # slot
    BY <1>1, <2>1, EmptyTerminal
  <2>3. Owners \subseteq Listed
    BY DEF Owners, SetUp, Unlisted, Building, BuildPc
  <2>4. ~valid[slot]
    BY <1>1, <2>2, <2>3 DEF OwnersOK
  <2> QED  BY <1>1, <2>4
<1>3. CASE ~all_terminal_is_on
  <2>1. Cardinality(Taken) <= slot
    BY <1>1, <1>3, SlotFacts, SlotPcFacts DEF SlotLeft, BeforeSlot
  <2>3. Cardinality(Taken) # NTerm
    BY <1>1, <2>1, SlotFacts, ConstantFacts
  <2>4. Taken # Term
    BY <2>3, TermFacts
  <2> QED  BY <2>4 DEF Taken
<1> QED  BY <1>2, <1>3

LEMMA SlotFrame ==
  ASSUME TypeOK, SlotLeft, Taken' \subseteq Taken,
         UNCHANGED <<slot, all_terminal_is_on>>,
         pc' = pc \/ (pc = "play" /\ pc' = "played"),
         all_terminal_is_on /\ pc \in BeforeSlot =>
           foreground_task'[slot] = Nobody
  PROVE  SlotLeft'
<1>1. Cardinality(Taken') <= Cardinality(Taken)
      /\ Cardinality(Taken) \in Nat /\ Cardinality(Taken') \in Nat
  <2>1. Taken \in SUBSET Term /\ Taken' \in SUBSET Taken
    BY DEF Taken
  <2>2. Taken' \in SUBSET Term
    BY <2>1
  <2> QED  BY <2>1, <2>2, TermFacts
<1>2. slot \in Nat
  BY SlotFacts
<1>3. /\ pc' \in LoopPc => pc \in LoopPc
      /\ pc' \in BeforeSlot => pc' = pc
      /\ pc' \in WithSlot <=> pc \in WithSlot
      /\ pc' # "boot" <=> pc # "boot"
  BY SlotPcFacts
<1>4. /\ pc' \in LoopPc => (all_terminal_is_on' <=> pc' # "boot")
      /\ all_terminal_is_on' /\ pc' \in BeforeSlot =>
           foreground_task'[slot'] = Nobody
  BY <1>3 DEF SlotLeft
<1>5. ~all_terminal_is_on' =>
        Cardinality(Taken') <= slot' + (IF pc' \in WithSlot THEN 1 ELSE 0)
  BY <1>1, <1>2, <1>3 DEF SlotLeft
<1> QED  BY <1>4, <1>5 DEF SlotLeft

(* The tasks that run beside init give keys only to tasks of terminals     *)
(* that have some.                                                         *)
LEMMA SlotUser ==
  ASSUME IInv, Up, Up', Lineage, KeysOK, SlotLeft,
         HaltRoot \/ HaltChild
         \/ \E nm \in {"shell", "program"}, ok \in BOOLEAN :
              SysExecute(nm, ok) /\ Calls
  PROVE  SlotLeft'
<1> DEFINE fg == foreground_task
<1>1. /\ TypeOK /\ NullTerm \notin Term /\ cpu # Nobody
      /\ (pc \in BeforeSlot => slot \in Term)
  <2>1. TypeOK /\ cpu \in Pcb /\ (pc \in BeforeSlot => slot < NTerm)
    BY KeyFacts, SlotPcFacts DEF IInv, Locals
  <2> QED  BY <2>1, SlotFacts, ConstantFacts
<1>2. \A s \in Term : fg[s] = Nobody => s # terminal[cpu]
  BY <1>1, KeyFacts
<1>3. CASE HaltRoot
  <2>1. /\ valid' = [valid EXCEPT ![terminal[cpu]] = FALSE]
        /\ fg' = [fg EXCEPT ![terminal[cpu]] = Nobody]
        /\ UNCHANGED <<pc, slot, all_terminal_is_on>>
    BY <1>3, HaltRootFacts DEF initVars, loopVars
  <2>2. Taken' \subseteq Taken
    BY <1>1, <2>1 DEF Taken, TypeOK
  <2>3. \A s \in Term : fg[s] = Nobody => fg'[s] = Nobody
    BY <1>1, <2>1 DEF TypeOK
  <2> QED  BY <1>1, <2>1, <2>2, <2>3, SlotFrame DEF SlotLeft
<1>4. CASE HaltChild
  <2>1. /\ valid' = valid /\ UNCHANGED <<pc, slot, all_terminal_is_on>>
        /\ fg' = TakenOver(terminal[parent[cpu]], parent[cpu])
        /\ cpu \in Listed /\ parent[cpu] # Nobody
    BY <1>4, HaltChildFacts DEF initVars, loopVars
  <2>2. terminal[parent[cpu]] = terminal[cpu]
    BY <2>1 DEF Lineage
  <2>3. \A s \in Term : fg[s] = Nobody => fg'[s] = Nobody
    <3>1. \A s \in Term : s # terminal[cpu] => fg'[s] = fg[s]
      BY <1>1, <2>1, <2>2 DEF TakenOver, TypeOK
    <3> QED  BY <1>2, <3>1
  <2>4. Taken' \subseteq Taken
    BY <2>1 DEF Taken
  <2> QED  BY <1>1, <2>1, <2>3, <2>4, SlotFrame DEF SlotLeft
<1>5. ASSUME NEW nm, NEW ok, SysExecute(nm, ok), Calls
      PROVE  SlotLeft'
  <2>1. /\ valid' = valid
        /\ \A s \in Term : s # terminal[cpu] => fg'[s] = fg[s]
    <3>1. CASE NoPcbFound \/ \E c \in Pcb : ExecuteFails(c)
      BY <3>1 DEF NoPcbFound, ExecuteFails, termVars
    <3>2. ASSUME NEW c \in Pcb, NEW g, ExecuteStarts(c, g, nm)
          PROVE  /\ valid' = valid
                 /\ \A s \in Term : s # terminal[cpu] => fg'[s] = fg[s]
      <4>1. /\ valid' = valid
            /\ fg' = IF terminal[cpu] # NullTerm
                     THEN [fg EXCEPT ![terminal[cpu]] = c] ELSE fg
        BY <3>2 DEF ExecuteStarts
      <4> QED  BY <1>1, <4>1 DEF TypeOK
    <3>3. CASE ExecuteFindsNoNode
      BY <3>3 DEF ExecuteFindsNoNode, Up
    <3> QED  BY <1>5, <3>1, <3>2, <3>3, ExecuteCases
  <2>2. Taken' \subseteq Taken
    BY <2>1 DEF Taken
  <2>3. \A s \in Term : fg[s] = Nobody => fg'[s] = Nobody
    BY <1>2, <2>1
  <2> QED  BY <1>1, <1>5, <2>2, <2>3, SlotFrame DEF Calls, SlotLeft
<1> QED  BY <1>3, <1>4, <1>5

LEMMA SlotLoop ==
  ASSUME IInv, Up, SlotLeft, LoopStep
  PROVE  SlotLeft'
<1> USE DEF SpawnAt, SpawnGoes, SpawnTakes, SpawnLoads, pcbVars, termVars, loopVars
<1>1. /\ slot \in Nat /\ slot <= NTerm /\ NTerm \in Nat \ {0}
      /\ Cardinality(Taken) \in Nat /\ Taken' = Taken
      /\ foreground_task' = foreground_task
  <2>1. TypeOK /\ UNCHANGED <<valid, foreground_task>>
    BY LoopFacts DEF IInv, OutsideStep
  <2> QED  BY <2>1, SlotFacts, ConstantFacts DEF Taken
<1>2. CASE InitBoot
  <2>1. /\ pc = "boot" /\ ~all_terminal_is_on /\ Cardinality(Taken) <= slot
        /\ slot' = slot % NTerm
    BY <1>1, <1>2, SlotPcFacts DEF InitBoot, SlotLeft
  <2>2. CASE slot < NTerm
    <3>1. pc' = "limit" /\ all_terminal_is_on' = all_terminal_is_on
      BY <1>2, <2>2 DEF InitBoot
    <3>2. slot' = slot
      BY <1>1, <2>1, <2>2
    <3> QED  BY <1>1, <2>1, <3>1, <3>2, SlotPcFacts DEF SlotLeft
  <2>3. CASE ~(slot < NTerm)
    <3>1. pc' = "play" /\ all_terminal_is_on' = TRUE
      BY <1>2, <2>3 DEF InitBoot
    <3> QED  BY <3>1, SlotPcFacts DEF SlotLeft
  <2> QED  BY <2>2, <2>3
<1>3. CASE \/ InitPlayed \/ InitScan
           \/ \E ok \in BOOLEAN : InitPlay(ok) /\ ~need_play
  <2>1. /\ all_terminal_is_on
        /\ all_terminal_is_on' = all_terminal_is_on
        /\ pc' \in {"scan", "play"}
           \/ /\ pc' = "limit" /\ slot' = slot
              /\ foreground_task[slot] = Nobody
    BY <1>1, <1>3 DEF InitPlayed, InitScan, InitPlay, SlotLeft, LoopPc
  <2> QED  BY <1>1, <2>1, SlotPcFacts DEF SlotLeft
<1>4. CASE SpawnLimit \/ SpawnLoadCount \/ SpawnStoreCount \/ SpawnFindPcb
  <2>1. /\ all_terminal_is_on' = all_terminal_is_on
        /\ pc \in BeforeSlot
        /\ \/ pc' \in BeforeSlot /\ slot' = slot
           \/ SpawnReturns
    BY <1>1, <1>4 DEF SpawnLimit, SpawnLoadCount, SpawnStoreCount,
       SpawnFindPcb, BeforeSlot, CountPc
  <2>2. CASE pc' \in BeforeSlot /\ slot' = slot
    BY <1>1, <2>1, <2>2, SlotPcFacts DEF SlotLeft
  <2>3. CASE SpawnReturns
    <3>1. /\ pc' = IF all_terminal_is_on THEN "scan" ELSE "boot"
          /\ slot' = slot + 1
      BY <2>3 DEF SpawnReturns
    <3> QED  BY <1>1, <2>1, <3>1, SlotPcFacts DEF SlotLeft
  <2> QED  BY <2>1, <2>2, <2>3
<1> QED  BY <1>2, <1>3, <1>4 DEF LoopStep

LEMMA SlotStep ==
  ASSUME IInv, [Next]_vars, Up', Lineage, ScansOK, OwnersOK, KeysOK, SlotLeft
  PROVE  SlotLeft'
<1> USE DEF pcbVars, termVars, loopVars, SpawnAt, SpawnGoes, SpawnTakes, SpawnLoads
<1>0. /\ Up /\ TypeOK /\ slot \in Nat
      /\ Cardinality(Taken) \in Nat
  BY StepCases, SlotFacts DEF IInv
<1>1. CASE Idle \/ TickCharge \/ TickPreempt
  <2>1. UNCHANGED <<valid, foreground_task, pc, slot, all_terminal_is_on>>
    BY <1>1 DEF Idle, TickCharge, TickPreempt, initVars
  <2>2. Taken' \subseteq Taken
    BY <2>1 DEF Taken
  <2> QED  BY <1>0, <2>1, <2>2, SlotFrame DEF SlotLeft
<1>2. CASE \/ HaltRoot \/ HaltChild
           \/ \E nm \in {"shell", "program"}, ok \in BOOLEAN :
                SysExecute(nm, ok) /\ Calls
  BY <1>0, <1>2, SlotUser
<1>3. CASE LoopStep
  BY <1>0, <1>3, SlotLoop
<1>4. CASE SpawnMarkPcb
  <2>1. UNCHANGED <<valid, foreground_task, slot, all_terminal_is_on>>
        /\ pc = "mark" /\ pc' = "setup"
    BY <1>4 DEF SpawnMarkPcb
  <2>2. Taken' = Taken
    BY <2>1 DEF Taken
  <2>3. pc \in BeforeSlot /\ pc' \in BeforeSlot
    BY <2>1 DEF BeforeSlot, CountPc
  <2> QED  BY <2>1, <2>2, <2>3, SlotPcFacts DEF SlotLeft
<1>5. CASE SpawnSetup \/ (SpawnAllocate /\ ~TerminalTaken)
  <2>1. /\ UNCHANGED <<valid, foreground_task, slot, all_terminal_is_on>>
        /\ pc \in {"setup", "term"} /\ pc' = "term"
    <3>1. CASE SpawnSetup
      BY <3>1 DEF SpawnSetup
    <3>2. CASE SpawnAllocate /\ ~TerminalTaken
      BY <3>2, AllocateFacts DEF SpawnAllocate
    <3> QED  BY <1>5, <3>1, <3>2
  <2>2. Taken' = Taken
    BY <2>1 DEF Taken
  <2>3. pc \in BeforeSlot /\ pc' \in BeforeSlot
    BY <2>1 DEF BeforeSlot
  <2> QED  BY <2>1, <2>2, <2>3, SlotPcFacts DEF SlotLeft
<1>6. CASE TerminalTaken
  <2>1. /\ UNCHANGED <<slot, all_terminal_is_on>> /\ pc = "term" /\ pc' = "page"
        /\ reg \in Term /\ ~valid[reg] /\ valid' = [valid EXCEPT ![reg] = TRUE]
    BY <1>6 DEF TerminalTaken
  <2>2. Taken' = Taken \cup {reg} /\ reg \notin Taken
    BY <1>0, <2>1 DEF Taken, TypeOK
  <2>3. Cardinality(Taken') = Cardinality(Taken) + 1
    BY <2>2, TermFacts, FS_AddElement DEF Taken
  <2>4. pc \in BeforeSlot /\ pc' \in WithSlot
    BY <2>1, PcFacts DEF BeforeSlot, WithSlot, MakingPc, BuildPc, PagePc
  <2> QED  BY <1>0, <2>1, <2>3, <2>4, SlotPcFacts DEF SlotLeft
<1>7. CASE \/ SpawnChoosePage \/ (MakeStep /\ ~SpawnAllocate)
           \/ SpawnJoin \/ SpawnArm \/ SpawnSetTss \/ SpawnEnter
  <2>1. UNCHANGED <<valid, all_terminal_is_on>>
    <3>1. CASE MakeStep /\ ~SpawnAllocate
      BY <3>1, MakeFrame, MakeRest DEF MakeStep, MakeTerm
    <3>2. CASE ~(MakeStep /\ ~SpawnAllocate)
      BY <1>7, <3>2 DEF SpawnChoosePage, SpawnJoin, SpawnArm, SpawnSetTss,
         SpawnEnter
    <3> QED  BY <3>1, <3>2
  <2>2. /\ pc \in WithSlot
        /\ \/ pc' \in WithSlot /\ slot' = slot
           \/ /\ pc' = IF all_terminal_is_on THEN "scan" ELSE "boot"
              /\ slot' = slot + 1
    <3>1. CASE MakeStep /\ ~SpawnAllocate
      BY <3>1, MakeFrame, MakeRest, PcFacts DEF MakeStep, MakeTerm, WithSlot
    <3>2. CASE SpawnChoosePage
      <4>1. /\ pc = "choose"
            /\ \/ pc' \in {"choose", "map"} /\ slot' = slot
               \/ SpawnReturns
        BY <3>2 DEF SpawnChoosePage
      <4>2. {"choose", "map"} \subseteq WithSlot
        BY PcFacts DEF WithSlot, MakingPc, BuildPc, PagePc
      <4> QED  BY <4>1, <4>2 DEF SpawnReturns
    <3>3. CASE SpawnJoin \/ SpawnArm \/ SpawnSetTss \/ SpawnEnter
      <4>1. /\ pc \in {"join"} \cup GoPc
            /\ \/ pc' \in GoPc /\ slot' = slot
               \/ SpawnReturns
        BY <3>3 DEF SpawnJoin, SpawnArm, SpawnSetTss, SpawnEnter, GoPc
      <4>2. {"join"} \cup GoPc \subseteq WithSlot
        BY PcFacts DEF WithSlot, MakingPc, BuildPc, ListPc, GoPc
      <4> QED  BY <4>1, <4>2 DEF SpawnReturns
    <3> QED  BY <1>7, <3>1, <3>2, <3>3
  <2>3. Taken' = Taken
    BY <2>1 DEF Taken
  <2> QED  BY <1>0, <2>1, <2>2, <2>3, SlotPcFacts DEF SlotLeft
<1> QED  BY <1>1, <1>2, <1>3, <1>4, <1>5, <1>6, <1>7, StepCases
         DEF MakeStep, MakeTerm

LEMMA TermStep ==
  ASSUME IInv, [Next]_vars, Up', Lineage, OwnersOK, KeysOK, SlotLeft, TermLeft
  PROVE  TermLeft'
<1> USE DEF pcbVars, termVars, loopVars, SpawnAt, SpawnGoes, SpawnTakes, SpawnLoads
<1>0. /\ Up /\ TypeOK /\ Term \subseteq Nat
  BY StepCases, ConstantFacts DEF IInv
<1>1. CASE \/ Idle \/ TickCharge \/ TickPreempt \/ HaltRoot \/ HaltChild
           \/ \E nm \in {"shell", "program"}, ok \in BOOLEAN :
                SysExecute(nm, ok) /\ Calls
  <2>1. /\ reg' = reg /\ (pc' = pc \/ pc' = "played")
        /\ \A t \in Term : ~valid[t] => ~valid'[t]
    <3>1. CASE Idle \/ TickCharge \/ TickPreempt
      BY <3>1 DEF Idle, TickCharge, TickPreempt, initVars
    <3>2. CASE HaltRoot \/ HaltChild
      <4>1. UNCHANGED <<pc, reg>>
        BY <3>2 DEF HaltRoot, HaltChild, initVars
      <4>2. valid' = valid \/ valid' = [valid EXCEPT ![terminal[cpu]] = FALSE]
        BY <1>0, <3>2, HaltRootFacts, HaltChildFacts DEF Up
      <4> QED  BY <1>0, <4>1, <4>2 DEF TypeOK
    <3>3. ASSUME NEW nm, NEW ok, SysExecute(nm, ok), Calls
          PROVE  /\ reg' = reg /\ (pc' = pc \/ pc' = "played")
                 /\ valid' = valid
      <4>1. valid' = valid
        BY <1>0, <3>3, ExecuteCases DEF NoPcbFound, ExecuteFails, ExecuteStarts,
           ExecuteFindsNoNode
      <4> QED  BY <3>3, <4>1 DEF Calls
    <3> QED  BY <1>1, <3>1, <3>2, <3>3
  <2> QED  BY <2>1 DEF TermLeft
<1>2. CASE LoopStep
  <2>1. pc' \in Outside /\ (pc' = "mark" => SpawnFindPcb)
    <3>1. OutsideStep
      BY <1>2, LoopFacts
    <3>2. pc' = "mark" => SpawnFindPcb
      BY <1>2 DEF LoopStep, InitBoot, InitPlayed, InitScan, InitPlay,
         SpawnLimit, SpawnLoadCount, SpawnStoreCount, SpawnReturns
    <3> QED  BY <3>1, <3>2 DEF OutsideStep
  <2>2. pc' # "setup" /\ pc' # "term"
    BY <2>1 DEF Outside, LoopPc, CountPc
  <2>3. pc' = "mark" => reg' = 0
    BY <2>1 DEF SpawnFindPcb, SpawnReturns
  <2> QED  BY <2>2, <2>3 DEF TermLeft
<1>3. CASE SpawnMarkPcb
  BY <1>3 DEF SpawnMarkPcb, TermLeft
<1>4. CASE SpawnSetup
  <2>1. pc = "setup" /\ pc' = "term" /\ reg' = reg /\ valid' = valid /\ reg = 0
    BY <1>4 DEF SpawnSetup, TermLeft
  <2>2. PICK t \in Term : ~valid[t]
    BY <1>0, <2>1, SlotForSetup
  <2> QED  BY <1>0, <2>1, <2>2 DEF TermLeft
<1>5. CASE TerminalTaken
  BY <1>5 DEF TerminalTaken, TermLeft
<1>6. CASE SpawnAllocate /\ ~TerminalTaken
  <2>1. /\ pc = "term" /\ pc' = "term" /\ reg \in Term /\ valid[reg]
        /\ reg' = reg + 1 /\ valid' = valid
    BY <1>6, AllocateFacts
  <2>2. PICK t \in Term : t >= reg /\ ~valid[t]
    BY <2>1 DEF TermLeft
  <2>3. t >= reg + 1
    BY <1>0, <2>1, <2>2
  <2> QED  BY <2>1, <2>2, <2>3 DEF TermLeft
<1>7. CASE \/ SpawnChoosePage \/ (MakeStep /\ ~SpawnAllocate)
           \/ SpawnJoin \/ SpawnArm \/ SpawnSetTss \/ SpawnEnter
  <2>1. pc' \notin {"mark", "setup", "term"}
    <3>1. CASE MakeStep /\ ~SpawnAllocate
      BY <3>1, MakeFrame, MakeRest, PcFacts DEF MakeStep, MakeTerm, CountPc,
         MakingPc
    <3>2. CASE ~(MakeStep /\ ~SpawnAllocate)
      BY <1>7, <3>2 DEF SpawnChoosePage, SpawnJoin, SpawnArm, SpawnSetTss,
         SpawnEnter, SpawnReturns
    <3> QED  BY <3>1, <3>2
  <2> QED  BY <2>1 DEF TermLeft
<1> QED  BY <1>1, <1>2, <1>3, <1>4, <1>5, <1>6, <1>7, StepCases
         DEF MakeStep, MakeTerm
-----------------------------------------------------------------------------
(* All of it together                                                      *)
More == /\ Lineage /\ TimeOK /\ PagesOK /\ InitBehind /\ ContextOK
        /\ NodesOK /\ ScansOK /\ CountOK /\ OwnersOK /\ KeysOK
        /\ SlotLeft /\ TermLeft

SInv == fault \notin {"no_terminal", "no_node"} /\ (Up => More)

LEMMA InitSInv == Init => SInv
<1> SUFFICES ASSUME Init  PROVE SInv
  OBVIOUS
<1>1. /\ queue = <<InitTask>> /\ pc = "boot" /\ slot = 0 /\ InitTask \in Pcb
      /\ fault = "none" /\ cpu = InitTask /\ all_terminal_is_on = FALSE
  BY ConstantFacts DEF Init
<1>2. Listed = {InitTask} /\ Unlisted = {} /\ SetUp = {InitTask}
  <2>1. pc \notin BuildPc
    BY <1>1, PcFacts, LoopPcFacts
  <2> QED  BY <1>1, <2>1 DEF Listed, ToSet, Unlisted, Building, SetUp
<1>3. /\ parent[InitTask] = Nobody /\ ~own_terminal[InitTask]
      /\ terminal[InitTask] = NullTerm /\ pid[InitTask] = NoPage
      /\ time[InitTask] = TimeInit /\ name[InitTask] = "program"
      /\ \A t \in Term : ~valid[t] /\ foreground_task[t] = Nobody
      /\ \A g \in Page : ~page_status[g]
  BY <1>1 DEF Init
<1>a. /\ pc \notin AfterSetup /\ pc \notin GoPc /\ pc \notin KeyedPc
      /\ pc \notin FocusPc /\ pc \notin MappedPc /\ pc \notin HoldPc
  BY <1>1, LoopPcFacts, PcFacts, KeyPcFacts, MappedFacts, HoldFacts
<1>4. Lineage
  BY <1>1, <1>2, <1>3, <1>a DEF Lineage
<1>5. TimeOK
  <2>1. Quantum(InitTask) = QuantumOf("program") /\ QuantumOf("program") = TimeInit
    BY <1>3 DEF Quantum, QuantumOf
  <2> QED  BY <1>2, <1>3, <2>1, ChargedFacts DEF TimeOK
<1>6. PagesOK
  <2>1. PageOwners = {} /\ n_page_in_use = 0
    BY <1>1, <1>2, <1>a DEF PageOwners, HoldPc, Init
  <2> QED  BY <1>1, <1>3, <2>1, FS_EmptySet DEF PagesOK, PageCount
<1>7. InitBehind /\ ContextOK
  BY <1>1, <1>a DEF InitBehind, ContextOK
<1>b. NodesOK /\ ScansOK /\ TermLeft
  <2>1. \A p \in Pcb : node[p] = IF p = InitTask THEN 1 ELSE NoNode
    BY DEF Init
  <2> QED  BY <1>1, <1>2, <2>1, ConstantFacts DEF NodesOK, ScansOK, TermLeft, NoNode
<1>8. CountOK
  <2>1. InUse = {InitTask} /\ n_present_pcb = 1
    BY <1>1 DEF Init, InUse
  <2>2. Cardinality({InitTask}) = 1
    BY FS_Singleton
  <2> QED  BY <1>1, <2>1, <2>2 DEF CountOK
<1>9. OwnersOK
  <2>1. Owners = {}
    BY <1>2, <1>3 DEF Owners
  <2> QED  BY <1>3, <2>1 DEF OwnersOK
<1>10. KeysOK
  BY <1>1, <1>2, <1>3, <1>a DEF KeysOK
<1>11. SlotLeft
  <2>1. Taken = {}
    BY <1>3 DEF Taken
  <2> QED  BY <1>1, <2>1, FS_EmptySet, SlotPcFacts DEF SlotLeft
<1> QED  BY <1>1, <1>b, <1>4, <1>5, <1>6, <1>7, <1>8, <1>9, <1>10, <1>11
         DEF SInv, More

(* add_task_to_list finds a node for the child of an execute ...           *)
LEMMA ExecuteFindsNode ==
  ASSUME IInv, Up, NodesOK, NEW nm, NEW ok, SysExecute(nm, ok)
  PROVE  Up'
<1>1. CASE \E c \in Pcb : Fresh(c) /\ FreeNodes = {}
  <2>1. PICK c \in Pcb : Fresh(c) /\ FreeNodes = {}
    BY <1>1
  <2>2. node[c] = NoNode
    <3>1. c \notin Listed /\ (pc \in AfterSetup => c # new)
      BY <2>1 DEF Fresh
    <3>2. {"last", "link", "join"} \subseteq AfterSetup
      BY DEF AfterSetup, MakingPc, BuildPc, ListPc
    <3> QED  BY <3>1, <3>2 DEF NodesOK
  <2>3. 1 \in Node
    BY NodeAssumption, PcbAssumption DEF Node
  <2>4. FreeNodes # {}
    BY <2>2, <2>3, SpareNode DEF IInv
  <2> QED  BY <2>1, <2>4
<1>2. CASE NoPcbFound \/ \E c \in Pcb : \/ ExecuteFails(c)
                                      \/ \E g : ExecuteStarts(c, g, nm)
  BY <1>2 DEF NoPcbFound, ExecuteFails, ExecuteStarts, Up
<1> QED  BY <1>1, <1>2, ExecuteCases

(* ... and so does init, which finds a terminal slot as well.              *)
LEMMA AlwaysRoom ==
  ASSUME IInv, SInv, [Next]_vars
  PROVE  fault' \notin {"no_terminal", "no_node"}
<1>0. fault \notin {"no_terminal", "no_node"}
  BY DEF SInv
<1>1. CASE UNCHANGED vars \/ Stopped
  BY <1>0, <1>1 DEF vars, Stopped
<1>2. CASE Interrupt
  <2>1. CASE TickPreempt
    BY <1>0, <2>1 DEF TickPreempt, Reschedule
  <2> QED  BY <1>0, <1>2, <2>1 DEF Interrupt, Tick, TickCharge, TickTears,
              KeyType, KeyFocus, MouseFocus, MousePlay
<1>3. ASSUME NEW nm, NEW ok, SysExecute(nm, ok), Up
      PROVE  fault' \notin {"no_terminal", "no_node"}
  BY <1>3, ExecuteFindsNode DEF SInv, More, Up
<1>4. CASE UserCall
  <2>1. CASE HaltRoot
    BY <1>0, <2>1 DEF HaltRoot, Reschedule
  <2>2. CASE HaltChild
    BY <1>0, <2>2 DEF HaltChild
  <2>3. CASE \E nm \in Command, ok \in BOOLEAN : Execute(nm, ok)
    BY <1>3, <2>3 DEF Execute
  <2> QED  BY <1>4, <2>1, <2>2, <2>3 DEF UserCall
<1>5. CASE SpawnAllocate
  <2>1. /\ Up /\ pc = "term" /\ reg \in Int /\ NTerm \in Int
        /\ \E t \in Term : t >= reg
    BY <1>5, ConstantFacts DEF SpawnAllocate, SpawnAt, SInv, More, TermLeft,
       IInv, TypeOK
  <2>2. reg # NTerm
    BY <2>1 DEF Term
  <2> QED  BY <1>0, <1>5, <2>2 DEF SpawnAllocate
<1>6. CASE SpawnFindNode
  <2>1. /\ Up /\ pc = "node" /\ reg \in Int /\ NNode \in Int
        /\ reg >= 1 /\ \E k \in Node : k >= reg
    BY <1>6, NodeAssumption DEF SpawnFindNode, SpawnAt, SInv, More, ScansOK,
       IInv, TypeOK, FreeNodes
  <2>2. reg \in Node
    BY <2>1 DEF Node
  <2> QED  BY <1>0, <1>6, <2>2 DEF SpawnFindNode
<1>7. CASE InitStep
  <2>1. CASE \E ok \in BOOLEAN : InitPlay(ok)
    BY <1>0, <1>3, <2>1 DEF InitPlay
  <2>2. CASE SpawnResetPages \/ SpawnMapPage \/ SpawnLoadPages
             \/ SpawnStorePages \/ SpawnMarkPage \/ SpawnSetPid
             \/ SpawnFocus \/ SpawnShow \/ SpawnAttach
             \/ SpawnTakeNode \/ SpawnLoadLast \/ SpawnLinkLast
    BY <1>0, <2>2 DEF SpawnResetPages, SpawnMapPage, SpawnLoadPages,
       SpawnStorePages, SpawnMarkPage, SpawnSetPid, SpawnFocus, SpawnShow,
       SpawnAttach, SpawnTakeNode, SpawnLoadLast, SpawnLinkLast
  <2>3. CASE InitBoot \/ InitPlayed \/ InitScan \/ SpawnLimit
             \/ SpawnLoadCount \/ SpawnStoreCount \/ SpawnFindPcb
             \/ SpawnMarkPcb \/ SpawnSetup \/ SpawnChoosePage
             \/ SpawnJoin \/ SpawnArm \/ SpawnSetTss \/ SpawnEnter
    BY <1>0, <2>3 DEF InitBoot, InitPlayed, InitScan, SpawnLimit,
       SpawnLoadCount, SpawnStoreCount, SpawnFindPcb, SpawnMarkPcb, SpawnSetup,
       SpawnChoosePage, SpawnJoin, SpawnArm, SpawnSetTss, SpawnEnter
  <2> QED  BY <1>5, <1>6, <1>7, <2>1, <2>2, <2>3 DEF InitStep
<1> QED  BY <1>1, <1>2, <1>4, <1>7 DEF Next

LEMMA NextSInv == IInv /\ SInv /\ [Next]_vars => SInv'
<1> SUFFICES ASSUME IInv, SInv, [Next]_vars, Up'
             PROVE  More'
  BY AlwaysRoom DEF SInv
<1>1. More
  BY StepCases DEF SInv
<1>2. Lineage' /\ TimeOK' /\ PagesOK' /\ CountOK'
  BY <1>1, LineageStep, TimeStep, PagesStep, CountStep DEF More
<1>3. InitBehind' /\ ContextOK' /\ NodesOK' /\ ScansOK'
  BY <1>1, BehindStep, ContextStep, NodesStep DEF More
<1>4. OwnersOK' /\ KeysOK' /\ SlotLeft' /\ TermLeft'
  BY <1>1, OwnersStep, KeysStep, SlotStep, TermStep DEF More
<1> QED  BY <1>2, <1>3, <1>4 DEF More

LEMMA MoreInductive == Spec => []SInv
BY Inductive, InitSInv, NextSInv, PTL DEF Spec

(* The unsigned time that is left never wraps, whatever the order of       *)
(* ticks, fresh quanta of parents and starts: a task that has started has  *)
(* at least one tick and at most its whole quantum.                        *)
THEOREM QuantumAlwaysBounded == Spec => []QuantumBounded
<1>1. IInv /\ SInv => QuantumBounded
  <2> SUFFICES ASSUME IInv, SInv, Up, NEW p \in Listed, ~(p = new /\ pc = "arm")
               PROVE  time[p] \in 1 .. Quantum(p)
    BY DEF QuantumBounded
  <2>1. Charged(time[p], Quantum(p)) /\ p \in Pcb /\ TypeOK
    BY MakingFacts DEF SInv, More, TimeOK, IInv
  <2>2. time[p] \in Nat /\ time[p] >= TimeDecrease /\ time[p] <= Quantum(p)
    BY <2>1, ChargedFacts DEF Charged
  <2>3. Quantum(p) \in Nat /\ TimeDecrease \in Nat \ {0}
    BY <2>1, TimeFacts, ConstantFacts, TimeAssumption
  <2> QED  BY <2>2, <2>3
<1> QED  BY <1>1, Inductive, MoreInductive, PTL

(* While the kernel is up the run queue holds every live task once, except *)
(* the one that init has not listed yet, through preemptions at any access *)
(* of init, executes and halts; and neither execute nor init ever finds    *)
(* the array of nodes full.                                                *)
THEOREM QueueAlwaysExact == Spec => []QueueExact
<1>1. IInv /\ SInv => QueueExact
  <2> SUFFICES ASSUME IInv, SInv, Up
               PROVE  IsInjective(queue) /\ Listed = {p \in Pcb : present[p]} \ Unlisted
    BY DEF QueueExact, SInv
  <2> QED  BY DEF IInv, Core, QueueOK
<1> QED  BY <1>1, Inductive, MoreInductive, PTL

(* While the kernel is up no two live programs share a page, a page is in  *)
(* use exactly while its owner lives, and the count that frees them all    *)
(* when it is 0 is exact: preemptions between the scan, the count, the     *)
(* mark and the PCB of init do harm only where init and a program update   *)
(* the count at once or take the same page, which stops the model.         *)
THEOREM PagesAlwaysOwned == Spec => []PageOwnership
<1>1. IInv /\ SInv => PageOwnership
  <2> SUFFICES ASSUME IInv, SInv, Up  PROVE PageOwnership
    BY DEF PageOwnership
  <2>1. PagesOK /\ n_page_in_use \in Int
    BY DEF SInv, More, IInv, TypeOK
  <2>2. Cardinality(PageOwners) \in Nat
    BY <2>1, OwnerFacts, FS_CardinalityType
  <2>3. n_page_in_use = Cardinality(PageOwners) + (IF pc = "status" THEN 1 ELSE 0)
    BY <2>1, <2>2 DEF PagesOK, PageCount
  <2> QED  BY <2>1, <2>3 DEF PagesOK, PageOwnership
<1> QED  BY <1>1, Inductive, MoreInductive, PTL

(* A program on the CPU sees its own page or, if init entered it after a   *)
(* preemption, none, but never the page of another; and it enters the      *)
(* kernel on its own stack.                                                *)
THEOREM RunnerAlwaysInContext == Spec => []RunnerContext
<1>1. SInv => RunnerContext
  BY DEF SInv, More, ContextOK, RunnerContext
<1> QED  BY <1>1, MoreInductive, PTL

(* The count of PCBs never falls below the PCBs in use, so create_process  *)
(* never takes a later task for the init task.                             *)
THEOREM CountAlwaysCovers == Spec => []CountCovers
<1>1. IInv /\ SInv => CountCovers
  <2> SUFFICES ASSUME IInv, SInv, Up
               PROVE  /\ n_present_pcb >= Cardinality({p \in Pcb : present[p]})
                            + (IF pc \in {"find", "mark"} THEN 1 ELSE 0)
                      /\ pc = "setup" => n_present_pcb # 1
    BY DEF CountCovers
  <2>1. CountOK /\ TypeOK
    BY DEF SInv, More, IInv
  <2>2. ASSUME pc = "setup"  PROVE n_present_pcb # 1
    <3>1. InitTask \in InUse /\ new \in InUse /\ new # InitTask
      BY <2>2, MakingFacts, ConstantFacts DEF InUse, BuildPc
    <3>2. Cardinality(InUse) # 1
      <4>1. ASSUME Cardinality(InUse) = 1  PROVE FALSE
        <5>1. PICK a : InUse = {a}
          BY <2>1, <4>1, InUseFacts, FS_Singleton
        <5> QED  BY <3>1, <5>1
      <4> QED  BY <4>1
    <3>3. Cardinality(InUse) # 0
      BY <2>1, <3>1, InUseFacts, FS_EmptySet
    <3> QED  BY <2>1, <2>2, <3>2, <3>3, InUseFacts DEF CountOK
  <2> QED  BY <2>1, <2>2 DEF CountOK, InUse
<1> QED  BY <1>1, Inductive, MoreInductive, PTL

(* The keys of a terminal always go to the one task there that waits for   *)
(* no child, through every nesting of executes and halts.                  *)
THEOREM KeysAlwaysToLeaf == Spec => []ForegroundIsLeaf
<1>1. IInv /\ SInv => ForegroundIsLeaf
  <2> SUFFICES ASSUME IInv, SInv, Up  PROVE ForegroundIsLeaf
    BY DEF ForegroundIsLeaf
  <2>1. KeysOK
    BY DEF SInv, More
  <2>2. \A p \in Keyed : present[p]
    BY MakingFacts, KeyPcFacts DEF Keyed
  <2> QED  BY <2>1, <2>2 DEF KeysOK, ForegroundIsLeaf
<1> QED  BY <1>1, Inductive, MoreInductive, PTL

(* A slot is taken exactly while the shell that owns it lives, and init    *)
(* always finds one when it starts a shell.                                *)
THEOREM SlotsAlwaysOwned == Spec => []TerminalSlots
<1>1. IInv /\ SInv => TerminalSlots
  <2>1. SInv => fault # "no_terminal"
    BY DEF SInv
  <2>2. ASSUME IInv, SInv, Up, NEW t \in Term
        PROVE  valid[t] <=> \E p \in Listed \cup (Unlisted \ {InitTask}) :
                              own_terminal[p] /\ terminal[p] = t /\
                              ~(p = new /\ pc = "setup")
    <3>1. Unlisted \ {InitTask} = Unlisted
      BY <2>2 DEF IInv, Core, QueueOK
    <3>2. \A p \in Listed \cup Unlisted :
            p \in SetUp <=> ~(p = new /\ pc = "setup")
      BY DEF SetUp, Unlisted, Building, BuildPc
    <3>3. OwnersOK
      BY <2>2 DEF SInv, More
    <3> QED  BY <3>1, <3>2, <3>3 DEF OwnersOK, Owners, SetUp
  <2> QED  BY <2>1, <2>2 DEF TerminalSlots
<1> QED  BY <1>1, Inductive, MoreInductive, PTL
-----------------------------------------------------------------------------
(* The order of the run queue, by positions                                *)
LEMMA OrderKept ==
  ASSUME IInv, Up, Next, NEW a \in Listed \ {cpu}, NEW b \in Listed \ {cpu},
         Ready(a), Before(queue, a, b)
  PROVE  queue' = queue \/ Ordered(queue', a, b)
<1>1. /\ TypeOK /\ queue \in Seq(Pcb) /\ IsInjective(queue)
      /\ cpu \in ToSet(queue) /\ cpu \in Pcb /\ ~having_child_running[a]
  BY DEF IInv, TypeOK, Core, QueueOK, RunnerOK, Ready, Listed
<1>2. Ordered(Unlinked(queue, cpu), a, b)
  BY <1>1, UnlinkedFacts, OrderUnlinked DEF Ordered
<1>3. \A c \in Pcb \ Listed : Ordered(Append(queue, c), a, b)
  BY <1>1, AppendFacts, OrderAppended DEF Ordered, Listed
<1>4. CASE TickPreempt
  <2>1. Before(ToEnd(queue, cpu), a, b)
    BY <1>1, <1>2, OrderAppended DEF ToEnd, Ordered
  <2>2. Ordered(ToEnd(queue, cpu), a, b)
    BY <1>4, <2>1, PreemptFacts DEF Ordered
  <2> QED  BY <1>1, <1>4, <2>2, PreemptFacts, OrderRescheduled
<1>5. CASE HaltRoot
  BY <1>1, <1>2, <1>5, OrderRescheduled DEF HaltRoot
<1>6. CASE HaltChild
  BY <1>2, <1>6 DEF HaltChild
<1>7. ASSUME NEW nm, NEW ok, SysExecute(nm, ok)
      PROVE  queue' = queue \/ Ordered(queue', a, b)
  <2>1. queue' = queue \/ \E c \in Pcb \ Listed : queue' = Append(queue, c)
    BY <1>7, ExecuteCases DEF NoPcbFound, ExecuteFails, ExecuteStarts,
       ExecuteFindsNoNode, Fresh
  <2> QED  BY <1>3, <2>1
<1>8. CASE SpawnJoin
  BY <1>3, <1>8, JoinFacts
<1>9. CASE UserCall
  BY <1>5, <1>6, <1>7, <1>9 DEF UserCall, Execute
<1>10. CASE Interrupt
  BY <1>4, <1>10 DEF Interrupt, Tick, TickCharge, TickTears, KeyType,
     KeyFocus, MouseFocus, MousePlay
<1>11. CASE InitStep
  <2>1. CASE MakeStep
    BY <2>1, MakeFrame
  <2>2. CASE ~MakeStep
    BY <1>7, <1>8, <1>11, <2>2 DEF InitStep, MakeStep, MakeTerm, MakePage,
       MakeShow, MakeNode, InitBoot, InitPlay, InitPlayed, InitScan,
       SpawnLimit, SpawnLoadCount, SpawnStoreCount, SpawnFindPcb,
       SpawnMarkPcb, SpawnSetup, SpawnChoosePage, SpawnArm, SpawnSetTss,
       SpawnEnter
  <2> QED  BY <2>1, <2>2
<1> QED  BY <1>9, <1>10, <1>11 DEF Next, Stopped

(* No step lets one ready task that is off the CPU overtake another: a     *)
(* preemption, a halt and the loop that skips waiting tasks move only the  *)
(* task that had the CPU and tasks that wait.                              *)
THEOREM NeverOvertaken == Spec => NoOvertaking
<1>1. ASSUME IInv, [Next]_vars, NEW a \in Listed \cap Listed',
             NEW b \in Listed \cap Listed', a # cpu, b # cpu, Ready(a), Ready(b),
             IndexOf(queue, a) < IndexOf(queue, b)
      PROVE  IndexOf(queue', a) < IndexOf(queue', b)
  <2>1. CASE queue' = queue
    BY <1>1, <2>1
  <2>2. CASE queue' # queue
    <3>1. Next /\ Up
      <4>1. Next
        BY <1>1, <2>2 DEF vars
      <4>2. CASE MakeStep
        BY <4>1, <4>2, MakeFrame
      <4>3. CASE ~MakeStep
        BY <2>2, <4>1, <4>3 DEF Next, Interrupt, Tick, TickCharge, TickPreempt,
           TickTears, KeyType, KeyFocus, MouseFocus, MousePlay, UserCall,
           Execute, HaltRoot, HaltChild, InitStep, MakeStep, MakeTerm,
           MakePage, MakeShow, MakeNode, InitBoot, InitPlay, InitPlayed,
           InitScan, SpawnAt, SpawnLimit, SpawnLoadCount, SpawnStoreCount,
           SpawnFindPcb, SpawnMarkPcb, SpawnSetup, SpawnChoosePage, SpawnJoin,
           SpawnArm, SpawnSetTss, SpawnEnter, Stopped, vars
      <4> QED  BY <4>2, <4>3
    <3>2. queue \in Seq(Pcb) /\ IsInjective(queue)
      BY <1>1, <3>1 DEF IInv, TypeOK, Core, QueueOK
    <3>3. Before(queue, a, b)
      BY <1>1, <3>2, BeforeFacts DEF Listed
    <3>4. Ordered(queue', a, b)
      BY <1>1, <2>2, <3>1, <3>3, OrderKept
    <3> QED  BY <1>1, <3>4, BeforeFacts DEF Ordered, Listed
  <2> QED  BY <2>1, <2>2
<1>2. IInv /\ [Next]_vars =>
        [\A p, q \in Listed \cap Listed' :
           /\ p # cpu /\ q # cpu
           /\ Ready(p) /\ Ready(q)
           /\ IndexOf(queue, p) < IndexOf(queue, q)
           => IndexOf(queue, p)' < IndexOf(queue, q)']_vars
  BY <1>1
<1> QED  BY <1>2, Inductive, PTL DEF Spec, NoOvertaking
=============================================================================

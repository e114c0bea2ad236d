--------------------------- MODULE TerminalProofs ---------------------------
(***************************************************************************)
(* The safety properties of Terminal for every size of the line buffer,    *)
(* every number of terminals and of nested keyboard handlers. The one      *)
(* addition to the properties themselves is that a read which has left its *)
(* busy loop no longer asks for input.                                     *)
(***************************************************************************)
EXTENDS Terminal, SequenceTheorems, WellFoundedInduction, TLAPS

CopyAsksNothing == \A t \in Term : pc[t] = "copy" => user_ask[t] = 0

IInv == TypeOK /\ ReadWellFormed /\ CopyAsksNothing /\ NoEnterAhead

LEMMA SizeFacts == Size \in Nat /\ Size >= 2
  BY SizeAssumption
-----------------------------------------------------------------------------
(* The stack of handlers under the innermost one.                          *)
LEMMA FrameFacts ==
  ASSUME NEW f \in Seq(Key), f # << >>
  PROVE  Front(f) \in Seq(Key) /\ Last(f) \in Key
<1>1. Len(f) \in Nat \ {0}
  BY EmptySeq
<1>2. \A i \in 1 .. Len(f) - 1 : f[i] \in Key
  BY <1>1, ElementOfSeq
<1>3. Last(f) \in Key
  BY <1>1, ElementOfSeq DEF Last
<1>4. SubSeq(f, 1, Len(f) - 1) \in Seq(Key)
  BY <1>1, <1>2, SubSeqProperties
<1> QED  BY <1>3, <1>4 DEF Front

(* What terminal_read copies out is as long as the line was cut.           *)
LEMMA LineFacts ==
  ASSUME TypeOK, NEW t \in Term, NEW cut \in 0 .. Size - 1
  PROVE  /\ Line(t, cut) \in Seq(Byte)
         /\ Len(Line(t, cut)) = cut
         /\ \A i \in 1 .. cut : Line(t, cut)[i] = buf[t][i - 1]
<1> USE SizeFacts
<1> DEFINE e(i) == buf[t][i - 1]
<1>1. \A i \in 1 .. cut : e(i) \in Byte
  <2>1. buf[t] \in [Index -> Byte]
    BY DEF TypeOK
  <2>2. \A i \in 1 .. cut : i - 1 \in Index
    BY DEF Index
  <2> QED  BY <2>1, <2>2
<1>2. cut \in Nat
  OBVIOUS
<1>3. Line(t, cut) = [i \in 1 .. cut |-> e(i)]
  BY DEF Line
<1> HIDE DEF e
<1>4. [i \in 1 .. cut |-> e(i)] \in Seq(Byte)
  <2>1. [i \in 1 .. cut |-> e(i)] \in [1 .. cut -> Byte]
    BY <1>1
  <2> QED  BY <1>2, <2>1, SeqDef
<1>5. Len(Line(t, cut)) = cut
  BY <1>2, <1>3, <1>4, LenProperties
<1> QED  BY <1>3, <1>4, <1>5 DEF e

(* handle_input keeps the line buffer in shape: it never leaves a newline  *)
(* in the buffer of a terminal that nobody reads.                          *)
LEMMA InputFacts ==
  ASSUME TypeOK, Up, NEW k \in Key, HandleInput(k),
         UNCHANGED <<user_ask, pc>>
  PROVE  /\ buf' \in [Term -> [Index -> Byte]]
         /\ buf_cnt' \in [Term -> 0 .. Size]
         /\ showing' \in Term
         /\ fault' \in {"none", "overflow"}
         /\ NoEnterAhead => NoEnterAhead'
<1> USE SizeFacts
<1> DEFINE Quiet(t) == Newlines(t) = {} /\ buf_cnt[t] <= Size - 1
<1>0. PICK s \in Term : s = showing
  BY DEF TypeOK
<1>1. /\ showing \in Term /\ buf \in [Term -> [Index -> Byte]]
      /\ buf_cnt \in [Term -> 0 .. Size] /\ fault \in {"none", "overflow"}
  BY DEF TypeOK
<1>2. SUFFICES /\ buf' \in [Term -> [Index -> Byte]]
               /\ buf_cnt' \in [Term -> 0 .. Size]
               /\ showing' \in Term
               /\ fault' \in {"none", "overflow"}
               /\ \A t \in Term \ {s} : buf'[t] = buf[t] /\ buf_cnt'[t] = buf_cnt[t]
               /\ user_ask[s] = 0 /\ Quiet(s) => Quiet(s)'
  <2>1. \A t \in Term \ {s} : Quiet(t) => Quiet(t)'
    BY <1>2 DEF Newlines
  <2>2. ASSUME NoEnterAhead, Up', NEW t \in Term, pc'[t] = "user"
        PROVE  user_ask'[t] = 0 /\ Quiet(t)'
    <3>1. user_ask[t] = 0 /\ Quiet(t)
      BY <2>2 DEF NoEnterAhead
    <3> QED  BY <1>2, <2>1, <3>1
  <2>3. NoEnterAhead => NoEnterAhead'
    BY <2>2 DEF NoEnterAhead
  <2> QED  BY <1>2, <2>3
<1>3. CASE \E c \in Char : TypeChar(s, c)
  <2>1. PICK c \in Char : TypeChar(s, c)
    BY <1>3
  <2>2. c \in Byte /\ c # NL
    BY CharAssumption DEF Byte
  <2>3. CASE Fits(s)
    <3>1. /\ buf_cnt[s] \in Index /\ buf_cnt[s] + 1 \in 0 .. Size - 1
          /\ buf' = [buf EXCEPT ![s][buf_cnt[s]] = c]
          /\ buf_cnt' = [buf_cnt EXCEPT ![s] = buf_cnt[s] + 1]
          /\ UNCHANGED <<showing, fault>>
      BY <1>1, <2>1, <2>3 DEF TypeChar, BufAfter, CountAfter, Fits, Index
    <3>2. Newlines(s) = {} => Newlines(s)' = {}
      BY <1>1, <2>2, <3>1 DEF Newlines, Index
    <3> QED  BY <1>1, <2>2, <3>1, <3>2
  <2>4. CASE ~ Fits(s)
    <3>1. UNCHANGED <<buf, buf_cnt, showing, fault>>
      BY <1>1, <2>1, <2>4 DEF TypeChar, BufAfter, CountAfter
    <3> QED  BY <1>1, <3>1 DEF Newlines
  <2> QED  BY <2>3, <2>4
<1>4. CASE TypeEnter(s)
  <2>1. BufAfter(s, NL) \in [Term -> [Index -> Byte]]
    BY <1>1 DEF BufAfter, Fits, Index, Byte
  <2>2. \A t \in Term \ {s} : BufAfter(s, NL)[t] = buf[t]
    BY <1>1 DEF BufAfter
  <2>3. CASE CountAfter(s) \in Index
    <3>1. /\ buf' = [BufAfter(s, NL) EXCEPT ![s][CountAfter(s)] = NL]
          /\ buf_cnt' = [buf_cnt EXCEPT ![s] = CountAfter(s) + 1]
          /\ UNCHANGED <<fault, showing>> /\ user_ask[s] # 0
      BY <1>4, <2>3 DEF TypeEnter
    <3>2. CountAfter(s) + 1 \in 0 .. Size
      BY <2>3 DEF Index
    <3> QED  BY <1>1, <2>1, <2>2, <2>3, <3>1, <3>2 DEF Byte
  <2>4. CASE CountAfter(s) \notin Index
    BY <1>1, <1>4, <2>4 DEF TypeEnter
  <2> QED  BY <2>3, <2>4
<1>5. CASE DropLine(s)
  <2>1. BufAfter(s, NL) \in [Term -> [Index -> Byte]]
    BY <1>1 DEF BufAfter, Fits, Index, Byte
  <2>2. \A t \in Term \ {s} : BufAfter(s, NL)[t] = buf[t]
    BY <1>1 DEF BufAfter
  <2>3. buf_cnt' = [buf_cnt EXCEPT ![s] = 0] /\ buf' = BufAfter(s, NL)
        /\ UNCHANGED <<showing, fault>>
    BY <1>5 DEF DropLine
  <2> QED  BY <1>1, <2>1, <2>2, <2>3 DEF Newlines, Index
<1>6. CASE Erase(s) \/ Interrupt(s)
  <2>1. PICK n \in 0 .. Size :
          /\ n <= buf_cnt[s] /\ buf_cnt' = [buf_cnt EXCEPT ![s] = n]
          /\ UNCHANGED <<buf, showing, fault>>
    BY <1>1, <1>6 DEF Erase, Interrupt
  <2>2. buf_cnt'[s] = n
    BY <1>1, <2>1
  <2>3. Newlines(s)' \subseteq Newlines(s)
    BY <1>1, <2>1, <2>2 DEF Newlines, Index
  <2> QED  BY <1>1, <2>1, <2>2, <2>3
<1>7. CASE k.type = "focus" /\ Focus(k.to)
  <2>1. k.to \in Term
    BY <1>7, EditsAssumption DEF Key
  <2>2. showing' \in Term /\ UNCHANGED <<buf, buf_cnt, fault>>
    BY <1>7, <2>1 DEF Focus
  <2>3. Newlines(s)' = Newlines(s)
    BY <2>2 DEF Newlines
  <2> QED  BY <1>1, <2>2, <2>3
<1> QED
  BY <1>0, <1>3, <1>4, <1>5, <1>6, <1>7 DEF HandleInput, TypeChar
-----------------------------------------------------------------------------
LEMMA InitIInv == Init => IInv
<1> SUFFICES ASSUME Init  PROVE IInv
  OBVIOUS
<1> USE SizeFacts
<1>1. (CHOOSE c \in Char : TRUE) \in Byte
  BY CharAssumption DEF Byte
<1>2. << >> \in Seq(Key) /\ << >> \in Seq(Byte)
  BY EmptySeq
<1>3. TypeOK
  <2>1. buf \in [Term -> [Index -> Byte]]
    BY <1>1 DEF Init
  <2>2. /\ buf_cnt \in [Term -> 0 .. Size]
        /\ user_ask \in [Term -> 0 .. Size - 1]
        /\ nbytes \in [Term -> 0 .. Size - 1]
        /\ j \in [Term -> Index]
    BY DEF Init, Index
  <2>3. /\ frames \in [Term -> Seq(Key)] /\ got \in [Term -> Seq(Byte)]
        /\ pc \in [Term -> {"user", "scan", "found", "copy"}]
    BY <1>2 DEF Init
  <2> QED  BY <2>1, <2>2, <2>3 DEF Init, TypeOK
<1>4. ReadWellFormed /\ CopyAsksNothing
  BY DEF Init, ReadWellFormed, CopyAsksNothing
<1>5. NoEnterAhead
  <2>1. \A t \in Term : buf_cnt[t] = 0 /\ user_ask[t] = 0
    BY DEF Init
  <2> QED  BY <2>1 DEF NoEnterAhead, Newlines, Index
<1> QED  BY <1>3, <1>4, <1>5 DEF IInv

LEMMA KeyArrivesIInv ==
  ASSUME IInv, NEW k \in Key, KeyArrives(k)
  PROVE  IInv'
<1>1. frames' \in [Term -> Seq(Key)]
  <2>1. Append(frames[cpu], k) \in Seq(Key)
    BY AppendProperties DEF IInv, TypeOK
  <2> QED  BY <2>1 DEF IInv, TypeOK, KeyArrives
<1>2. UNCHANGED <<termVars, showing, cpu, readVars, fault>>
  BY DEF KeyArrives
<1>3. TypeOK'
  BY <1>1, <1>2 DEF IInv, TypeOK, termVars, readVars
<1>4. ReadWellFormed' /\ CopyAsksNothing' /\ NoEnterAhead'
  BY <1>2 DEF IInv, ReadWellFormed, CopyAsksNothing, NoEnterAhead, Newlines,
              Up, termVars, readVars
<1> QED  BY <1>3, <1>4 DEF IInv

LEMMA KeyHandledIInv ==
  ASSUME IInv, KeyHandled
  PROVE  IInv'
<1> DEFINE f == frames[cpu]
<1>1. cpu \in Term /\ f \in Seq(Key) /\ f # << >>
  BY DEF IInv, TypeOK, KeyHandled
<1>2. Front(f) \in Seq(Key) /\ Last(f) \in Key
  BY <1>1, FrameFacts
<1>3. frames' \in [Term -> Seq(Key)]
  <2>1. frames' = [frames EXCEPT ![cpu] = Front(f)]
    BY DEF KeyHandled
  <2> HIDE DEF f
  <2> QED  BY <1>2, <2>1 DEF IInv, TypeOK
<1>4. UNCHANGED <<user_ask, cpu, readVars>> /\ HandleInput(Last(f)) /\ Up
  BY DEF KeyHandled
<1>5. /\ buf' \in [Term -> [Index -> Byte]]
      /\ buf_cnt' \in [Term -> 0 .. Size]
      /\ showing' \in Term
      /\ fault' \in {"none", "overflow"}
      /\ NoEnterAhead'
  <2> HIDE DEF f
  <2> QED  BY <1>2, <1>4, InputFacts DEF IInv, readVars
<1>6. TypeOK'
  BY <1>3, <1>4, <1>5 DEF IInv, TypeOK, readVars
<1>7. ReadWellFormed' /\ CopyAsksNothing'
  BY <1>4 DEF IInv, ReadWellFormed, CopyAsksNothing, readVars
<1> QED  BY <1>5, <1>6, <1>7 DEF IInv

LEMMA ReadAskIInv ==
  ASSUME IInv, NEW t \in Term, NEW n \in Asks, ReadAsk(t, n)
  PROVE  IInv'
<1> USE SizeFacts
<1> DEFINE m == IF n >= Size THEN Size - 1 ELSE n
<1>1. m \in 0 .. Size - 1
  BY AsksAssumption
<1>2. /\ pc' = [pc EXCEPT ![t] = "scan"]
      /\ nbytes' = [nbytes EXCEPT ![t] = m]
      /\ user_ask' = [user_ask EXCEPT ![t] = nbytes'[t]]
      /\ got' = [got EXCEPT ![t] = << >>]
      /\ UNCHANGED <<buf, buf_cnt, showing, cpu, frames, j, fault>>
  BY DEF ReadAsk
<1> HIDE DEF m
<1>3. user_ask' = [user_ask EXCEPT ![t] = m]
  BY <1>2 DEF IInv, TypeOK
<1>4. << >> \in Seq(Byte)
  BY EmptySeq
<1>5. TypeOK'
  <2>1. /\ user_ask' \in [Term -> 0 .. Size - 1]
        /\ nbytes' \in [Term -> 0 .. Size - 1]
    BY <1>1, <1>2, <1>3 DEF IInv, TypeOK
  <2>2. pc' \in [Term -> {"user", "scan", "found", "copy"}]
    BY <1>2 DEF IInv, TypeOK
  <2>3. got' \in [Term -> Seq(Byte)]
    BY <1>2, <1>4 DEF IInv, TypeOK
  <2> QED  BY <1>2, <2>1, <2>2, <2>3 DEF IInv, TypeOK
<1>6. ReadWellFormed'
  BY <1>2 DEF IInv, TypeOK, ReadWellFormed
<1>7. \A u \in Term : pc'[u] \in {"user", "copy"} =>
        pc[u] = pc'[u] /\ user_ask'[u] = user_ask[u]
  BY <1>2, <1>3 DEF IInv, TypeOK
<1>8. CopyAsksNothing' /\ NoEnterAhead'
  <2>1. \A u \in Term : Newlines(u)' = Newlines(u)
    BY <1>2 DEF Newlines
  <2> QED  BY <1>2, <1>7, <2>1 DEF IInv, CopyAsksNothing, NoEnterAhead, Up
<1> QED  BY <1>5, <1>6, <1>8 DEF IInv

(* There is a first newline among the typed characters if there is any.    *)
LEMMA FirstNewline ==
  ASSUME NEW t \in Term, Newlines(t) # {}
  PROVE  Min(Newlines(t)) \in Index
<1> DEFINE R == {xy \in Nat \X Nat : xy[1] < xy[2]}
<1>1. IsWellFoundedOn(R, Nat)
  BY NatLessThanWellFounded DEF OpToRel
<1>2. /\ Newlines(t) \subseteq Index /\ Newlines(t) \subseteq Nat
      /\ \A x, y \in Nat : x < y => <<x, y>> \in R
  BY DEF Newlines, Index
<1> HIDE DEF R
<1>3. PICK m \in Newlines(t) : \A x \in Newlines(t) : ~ (<<x, m>> \in R)
  BY <1>1, <1>2, WFMin
<1>4. \A x \in Newlines(t) : m \in Nat /\ x \in Nat /\ ~ (x < m)
  BY <1>2, <1>3
<1>5. \A x \in Newlines(t) : m <= x
  BY <1>4
<1>6. Min(Newlines(t)) \in Newlines(t)
  BY <1>5 DEF Min
<1> QED  BY <1>2, <1>6

LEMMA ReadScanIInv ==
  ASSUME IInv, NEW t \in Term, ReadScan(t)
  PROVE  IInv'
<1>1. Min(Newlines(t)) \in Index
  BY FirstNewline DEF ReadScan
<1>2. /\ pc' = [pc EXCEPT ![t] = "found"]
      /\ j' = [j EXCEPT ![t] = Min(Newlines(t))]
      /\ UNCHANGED <<termVars, showing, cpu, frames, nbytes, got, fault>>
  BY DEF ReadScan
<1>3. TypeOK'
  BY <1>1, <1>2 DEF IInv, TypeOK, termVars
<1>4. ReadWellFormed' /\ CopyAsksNothing' /\ NoEnterAhead'
  BY <1>2 DEF IInv, TypeOK, ReadWellFormed, CopyAsksNothing, NoEnterAhead,
              Newlines, Up, termVars
<1> QED  BY <1>3, <1>4 DEF IInv

LEMMA ReadDoneIInv ==
  ASSUME IInv, NEW t \in Term, ReadDone(t)
  PROVE  IInv'
<1> USE SizeFacts
<1>1. TypeOK'
  <2>1. user_ask' \in [Term -> 0 .. Size - 1]
    BY DEF IInv, TypeOK, ReadDone
  <2>2. pc' \in [Term -> {"user", "scan", "found", "copy"}]
    BY DEF IInv, TypeOK, ReadDone
  <2> QED  BY <2>1, <2>2 DEF IInv, TypeOK, ReadDone
<1>2. ReadWellFormed' /\ CopyAsksNothing' /\ NoEnterAhead'
  BY DEF IInv, TypeOK, ReadDone, ReadWellFormed, CopyAsksNothing,
         NoEnterAhead, Newlines, Up
<1> QED  BY <1>1, <1>2 DEF IInv

LEMMA ReadCopyIInv ==
  ASSUME IInv, NEW t \in Term, ReadCopy(t)
  PROVE  IInv'
<1> USE SizeFacts
<1> DEFINE cut == CutAt(t)
<1>1. cut \in 0 .. Size - 1 /\ cut \in Index /\ cut <= nbytes[t]
  <2>1. j[t] \in Index /\ nbytes[t] \in 0 .. Size - 1
    BY DEF IInv, TypeOK
  <2> QED  BY <2>1 DEF CutAt, Index
<1>2. /\ Line(t, cut) \in Seq(Byte) /\ Len(Line(t, cut)) = cut
      /\ \A i \in 1 .. cut : Line(t, cut)[i] = buf[t][i - 1]
  BY <1>1, LineFacts DEF IInv
<1>3. /\ pc' = [pc EXCEPT ![t] = "user"]
      /\ buf_cnt' = [buf_cnt EXCEPT ![t] = 0]
      /\ UNCHANGED <<user_ask, showing, cpu, frames, nbytes, j, fault>>
      /\ user_ask[t] = 0
  BY DEF ReadCopy, IInv, CopyAsksNothing
<1>4. /\ buf' \in [Term -> [Index -> Byte]]
      /\ \A u \in Term \ {t} : buf'[u] = buf[u]
  <2>1. buf \in [Term -> [Index -> Byte]] /\ NL \in Byte
    BY DEF IInv, TypeOK, Byte
  <2>2. buf' = buf \/ buf' = [buf EXCEPT ![t][cut] = NL]
    BY DEF ReadCopy
  <2> HIDE DEF cut
  <2> QED  BY <1>1, <2>1, <2>2
<1>5. PICK line \in Seq(Byte) :
        /\ got' = [got EXCEPT ![t] = line]
        /\ line[Len(line)] = NL /\ Len(line) <= cut + 1
  <2>1. CASE EndsWithNewline(t, cut)
    <3>1. got' = [got EXCEPT ![t] = Line(t, cut)]
      BY <2>1 DEF ReadCopy
    <3>2. cut # 0 /\ buf[t][cut - 1] = NL
      BY <2>1 DEF EndsWithNewline
    <3> HIDE DEF cut
    <3>3. cut \in 1 .. cut /\ cut <= cut + 1
      BY <1>1, <3>2
    <3>4. Line(t, cut)[Len(Line(t, cut))] = NL /\ Len(Line(t, cut)) <= cut + 1
      BY <1>2, <3>2, <3>3
    <3> QED  BY <1>2, <3>1, <3>4
  <2>2. CASE ~ EndsWithNewline(t, cut)
    <3>1. got' = [got EXCEPT ![t] = Append(Line(t, cut), NL)]
      BY <2>2 DEF ReadCopy
    <3>2. NL \in Byte
      BY DEF Byte
    <3> HIDE DEF cut
    <3>3. /\ Append(Line(t, cut), NL) \in Seq(Byte)
          /\ Len(Append(Line(t, cut), NL)) = cut + 1
          /\ Append(Line(t, cut), NL)[cut + 1] = NL
      BY <1>1, <1>2, <3>2, AppendProperties
    <3> DEFINE l == Append(Line(t, cut), NL)
    <3>4. l[Len(l)] = NL /\ Len(l) <= cut + 1 /\ l \in Seq(Byte)
      BY <1>1, <3>3
    <3>5. got' = [got EXCEPT ![t] = l]
      BY <3>1
    <3> HIDE DEF l
    <3> QED  BY <3>4, <3>5
  <2> QED  BY <2>1, <2>2
<1> HIDE DEF cut
<1>6. TypeOK'
  <2>1. pc' \in [Term -> {"user", "scan", "found", "copy"}]
    BY <1>3 DEF IInv, TypeOK
  <2>2. buf_cnt' \in [Term -> 0 .. Size]
    BY <1>3 DEF IInv, TypeOK
  <2>3. got' \in [Term -> Seq(Byte)]
    BY <1>5 DEF IInv, TypeOK
  <2> QED  BY <1>3, <1>4, <2>1, <2>2, <2>3 DEF IInv, TypeOK
<1>7. ReadWellFormed'
  <2>1. Len(line) \in Nat /\ nbytes[t] \in 0 .. Size - 1
    BY LenProperties DEF IInv, TypeOK
  <2>2. Len(line) <= nbytes[t] + 1 /\ Len(line) <= Size
    BY <1>1, <1>5, <2>1
  <2> QED  BY <1>3, <1>5, <2>2 DEF IInv, TypeOK, ReadWellFormed
<1>8. CopyAsksNothing'
  BY <1>3 DEF IInv, TypeOK, CopyAsksNothing
<1>9. NoEnterAhead'
  <2>1. SUFFICES ASSUME NEW u \in Term, pc'[u] = "user"
                 PROVE  /\ user_ask'[u] = 0
                        /\ Newlines(u)' = {} /\ buf_cnt'[u] <= Size - 1
    BY DEF NoEnterAhead
  <2>2. CASE u = t
    <3>1. buf_cnt'[t] = 0
      BY <1>3 DEF IInv, TypeOK
    <3> QED  BY <1>3, <2>2, <3>1 DEF Newlines, Index
  <2>3. CASE u # t
    <3>1. buf_cnt'[u] = buf_cnt[u] /\ buf'[u] = buf[u] /\ pc[u] = "user"
      BY <1>3, <1>4, <2>1, <2>3 DEF IInv, TypeOK
    <3>2. Newlines(u)' = Newlines(u)
      BY <3>1 DEF Newlines
    <3>3. Up
      BY DEF ReadCopy, Runs
    <3> QED  BY <1>3, <3>1, <3>2, <3>3 DEF IInv, NoEnterAhead
  <2> QED  BY <2>2, <2>3
<1> QED  BY <1>6, <1>7, <1>8, <1>9 DEF IInv

LEMMA ReallocateIInv ==
  ASSUME IInv, NEW t \in Term, Reallocate(t)
  PROVE  IInv'
<1> USE SizeFacts
<1>1. /\ Up /\ buf_cnt' = [buf_cnt EXCEPT ![t] = 0]
      /\ UNCHANGED <<buf, user_ask, showing, cpu, frames, readVars, fault>>
  BY DEF Reallocate
<1>2. buf_cnt' \in [Term -> 0 .. Size]
  BY <1>1 DEF IInv, TypeOK
<1>3. TypeOK'
  BY <1>1, <1>2 DEF IInv, TypeOK, readVars
<1>4. ReadWellFormed' /\ CopyAsksNothing'
  BY <1>1 DEF IInv, ReadWellFormed, CopyAsksNothing, readVars
<1>5. NoEnterAhead'
  <2>1. \A u \in Term : buf_cnt'[u] \in {0, buf_cnt[u]}
    BY <1>1 DEF IInv, TypeOK
  <2>2. \A u \in Term : Newlines(u)' \subseteq Newlines(u)
    BY <1>1, <2>1 DEF Newlines, Index
  <2> QED  BY <1>1, <2>1, <2>2 DEF IInv, NoEnterAhead, readVars
<1> QED  BY <1>3, <1>4, <1>5 DEF IInv

(* Steps that leave everything but the CPU as it is.                       *)
LEMMA IdleIInv ==
  ASSUME IInv, UNCHANGED vars \/ \E t \in Term : Preempt(t)
  PROVE  IInv'
<1>1. cpu' \in Term /\ UNCHANGED <<termVars, showing, frames, readVars, fault>>
  BY DEF IInv, TypeOK, vars, Preempt
<1>2. TypeOK'
  BY <1>1 DEF IInv, TypeOK, termVars, readVars
<1>3. ReadWellFormed' /\ CopyAsksNothing' /\ NoEnterAhead'
  BY <1>1 DEF IInv, ReadWellFormed, CopyAsksNothing, NoEnterAhead, Newlines,
              Up, termVars, readVars
<1> QED  BY <1>2, <1>3 DEF IInv

LEMMA NextIInv == IInv /\ [Next]_vars => IInv'
  BY KeyArrivesIInv, KeyHandledIInv, ReadAskIInv, ReadScanIInv, ReadDoneIInv,
     ReadCopyIInv, ReallocateIInv, IdleIInv DEF Next, Stopped

LEMMA Inductive == Spec => []IInv
  BY InitIInv, NextIInv, PTL DEF Spec
-----------------------------------------------------------------------------
(* Every variable has its type: in particular the keyboard handler never   *)
(* counts more characters than the buffer holds, and terminal_read never   *)
(* finds or asks for more (terminal.c:98-131, 225-259).                    *)
THEOREM TerminalTypes == Spec => []TypeOK
<1>1. IInv => TypeOK
  BY DEF IInv
<1> QED  BY <1>1, Inductive, PTL

(* What terminal_read returns ends in a newline and exceeds the request by *)
(* at most that newline (terminal.c:252-263), whatever the keyboard does   *)
(* between the detection of the newline and the copy.                      *)
THEOREM ReadsAreWellFormed == Spec => []ReadWellFormed
<1>1. IInv => ReadWellFormed
  BY DEF IInv
<1> QED  BY <1>1, Inductive, PTL

(* No Enter typed while nobody reads is kept for the next read             *)
(* (terminal.c:125-129), at whatever point of terminal_read it arrives.    *)
THEOREM NeverEnterAhead == Spec => []NoEnterAhead
<1>1. IInv => NoEnterAhead
  BY DEF IInv
<1> QED  BY <1>1, Inductive, PTL
=============================================================================

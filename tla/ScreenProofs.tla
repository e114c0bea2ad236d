---------------------------- MODULE ScreenProofs ----------------------------
(***************************************************************************)
(* Theorems about Screen, for any number of terminals and any size of the  *)
(* screens: a task draws on no other terminal's page, what it writes goes  *)
(* to its own screen, and the one cursor and the buffers are for each      *)
(* terminal the screen of its own that Lines describes.                    *)
(*                                                                         *)
(* The abstraction reads a buffer up to the cursor only. So it needs that  *)
(* nothing is left behind the cursor (Clean), or a newline would bring     *)
(* old characters into a line; that is kept by putc, by delete_last and by *)
(* every switch, on all screens that are not spoilt.                       *)
(***************************************************************************)
EXTENDS Screen, SequenceTheorems, WellFoundedInduction, TLAPS

Glyph == Char \cup {Blank}
Text == [Row -> [Col -> Glyph]]

(* A buffer and a cursor, which may be just behind the end of its line.    *)
Pad == [b : Text, x : 0 .. Cols, y : Row]

(* Behind the cursor everything is blank.                                  *)
Clean(s) ==
  \A r \in Row, c \in Col : (r > s.y \/ (r = s.y /\ c >= s.x)) => s.b[r][c] = Blank

OnPad(s) == s \in Pad /\ s.x \in Col

(* The page that is mapped for users is that of the task or init's, none.  *)
PageOK == user_page \in {cpu, NullTerminal}

(* A task that was interrupted once runs on its own terminal.              *)
AtHome == cpu \in Term /\ ~first => running = cpu

Opens == opening # "no" => opens \in Term

IInv ==
  /\ TypeOK /\ PageOK /\ AtHome /\ Opens
  /\ \A t \in Term \ spoilt : Clean(Screen(t))
-----------------------------------------------------------------------------
(* The operations on a screen                                              *)

LEMMA Sizes ==
  /\ NTerm \in Nat /\ NTerm >= 2 /\ Rows \in Nat /\ Rows >= 2
  /\ Cols \in Nat /\ Cols >= 2
  /\ 0 \in Term /\ Term \subseteq Nat
  /\ NullTerminal \notin Term /\ Nobody \notin Term /\ Nobody # NullTerminal
BY SizeAssumption DEF Term, NullTerminal, Nobody

LEMMA ScrolledText ==
  ASSUME NEW b \in Text
  PROVE  /\ Scrolled(b) \in Text
         /\ \A r \in Row, c \in Col :
              Scrolled(b)[r][c] = IF r = Rows - 1 THEN Blank ELSE b[r + 1][c]
<1>1. [c \in Col |-> Blank] \in [Col -> Glyph]
  BY DEF Glyph
<1>2. \A r \in Row : r = Rows - 1 \/ r + 1 \in Row
  BY Sizes DEF Row
<1>3. Scrolled(b) \in Text
  BY <1>1, <1>2 DEF Scrolled, Text
<1>4. ASSUME NEW r \in Row, NEW c \in Col
      PROVE  Scrolled(b)[r][c] = IF r = Rows - 1 THEN Blank ELSE b[r + 1][c]
  BY <1>2 DEF Scrolled
<1> QED  BY <1>3, <1>4

(* A newline, from anywhere on a line.                                     *)
LEMMA NewlinePad ==
  ASSUME NEW s \in Pad
  PROVE  OnPad(Newline(s)) /\ (Clean(s) => Clean(Newline(s)))
<1> DEFINE n == Newline(s)
<1>1. s.b \in Text /\ s.y \in Row /\ s.x \in 0 .. Cols /\ s.y \in Nat
  BY DEF Pad, Row
<1>2. CASE s.y + 1 = Rows
  <2>1. n = [b |-> Scrolled(s.b), x |-> 0, y |-> s.y]
    BY <1>2 DEF Newline
  <2>2. OnPad(n)
    BY <1>1, <2>1, ScrolledText, Sizes DEF OnPad, Pad, Col
  <2>3. ASSUME Clean(s)  PROVE Clean(n)
    <3>1. \A r \in Row : ~ (r > s.y) /\ (r = s.y <=> r = Rows - 1)
      BY <1>1, <1>2, Sizes DEF Row
    <3>2. \A r \in Row, c \in Col : r = s.y => n.b[r][c] = Blank
      BY <1>1, <2>1, <3>1, ScrolledText
    <3> QED  BY <2>1, <3>1, <3>2 DEF Clean
  <2> QED  BY <2>2, <2>3
<1>3. CASE s.y + 1 # Rows
  <2>1. n = [b |-> s.b, x |-> 0, y |-> s.y + 1]
    BY <1>3 DEF Newline
  <2>2. s.y + 1 \in Row
    BY <1>1, <1>3, Sizes DEF Row
  <2>3. OnPad(n)
    BY <1>1, <2>1, <2>2, Sizes DEF OnPad, Pad, Col
  <2>4. ASSUME Clean(s)  PROVE Clean(n)
    <3>1. \A r \in Row : r >= s.y + 1 => r > s.y
      BY <1>1, Sizes DEF Row
    <3>2. \A r \in Row : r > s.y + 1 \/ r = s.y + 1 => r >= s.y + 1
      BY <2>2 DEF Row
    <3> QED  BY <2>1, <3>1, <3>2, <2>4 DEF Clean
  <2> QED  BY <2>3, <2>4
<1> QED  BY <1>2, <1>3

(* putc puts the character and, at the end of the line, begins another.    *)
Put1(s, c) == [b |-> [s.b EXCEPT ![s.y][s.x] = c], x |-> s.x + 1, y |-> s.y]

LEMMA PutIs ==
  ASSUME NEW s, OnPad(s), NEW c \in Char
  PROVE  /\ Put1(s, c) \in Pad
         /\ Clean(s) => Clean(Put1(s, c))
         /\ PutChar(s, c) =
              IF s.x + 1 = Cols THEN Newline(Put1(s, c)) ELSE Put1(s, c)
<1>1. s.b \in Text /\ s.y \in Row /\ s.x \in Col /\ s.y \in Nat /\ s.x \in Nat
  BY DEF OnPad, Pad, Row, Col
<1>2. Put1(s, c).b \in Text
  BY <1>1 DEF Put1, Text, Glyph
<1>3. s.x + 1 \in 0 .. Cols
  BY <1>1, Sizes DEF Col
<1>4. Put1(s, c) \in Pad
  BY <1>1, <1>2, <1>3 DEF Put1, Pad
<1>5. ASSUME Clean(s), NEW r \in Row, NEW d \in Col,
             r > s.y \/ (r = s.y /\ d >= s.x + 1)
      PROVE  Put1(s, c).b[r][d] = Blank
  <2>1. r # s.y \/ d # s.x
    BY <1>1, <1>5 DEF Row, Col
  <2>2. Put1(s, c).b[r][d] = s.b[r][d]
    BY <1>1, <2>1 DEF Put1, Text
  <2>3. r > s.y \/ (r = s.y /\ d >= s.x)
    BY <1>1, <1>5 DEF Col
  <2> QED  BY <1>5, <2>2, <2>3 DEF Clean
<1>6. PutChar(s, c) = IF s.x + 1 = Cols THEN Newline(Put1(s, c)) ELSE Put1(s, c)
  <2>1. s.y - 1 + 1 = s.y
    BY <1>1
  <2> QED  BY <2>1 DEF PutChar, Newline, Put1
<1> QED  BY <1>4, <1>5, <1>6 DEF Clean, Put1

LEMMA PutPad ==
  ASSUME NEW s, OnPad(s), NEW c \in Char
  PROVE  OnPad(PutChar(s, c)) /\ (Clean(s) => Clean(PutChar(s, c)))
<1>1. s.x + 1 # Cols => Put1(s, c).x \in Col
  BY Sizes DEF OnPad, Put1, Col
<1> QED  BY <1>1, PutIs, NewlinePad DEF OnPad

(* delete_last: the cursor goes back by one place, which becomes blank.    *)
Erased(s, x, y) == [b |-> [s.b EXCEPT ![y][x] = Blank], x |-> x, y |-> y]

LEMMA DeleteIs ==
  ASSUME NEW s, OnPad(s)
  PROVE  /\ s.x > 0 => s.x - 1 \in Col /\ DeleteLast(s) = Erased(s, s.x - 1, s.y)
         /\ s.x = 0 /\ s.y > 0 =>
              s.y - 1 \in Row /\ DeleteLast(s) = Erased(s, Cols - 1, s.y - 1)
         /\ s.x = 0 /\ s.y = 0 => DeleteLast(s) = s
         /\ Cols - 1 \in Col
<1>1. s.y \in Row /\ s.x \in Col /\ s.y \in Nat /\ s.x \in Nat
  BY DEF OnPad, Pad, Row, Col
<1>2. CASE s.x > 0
  BY <1>1, <1>2, Sizes DEF DeleteLast, Erased, Col
<1>3. CASE s.x = 0 /\ s.y > 0
  BY <1>1, <1>3, Sizes DEF DeleteLast, Erased, Col, Row
<1>4. CASE s.x = 0 /\ s.y = 0
  BY <1>1, <1>4, Sizes DEF DeleteLast, Col
<1> QED  BY <1>1, <1>2, <1>3, <1>4

LEMMA ErasedPad ==
  ASSUME NEW s, OnPad(s), NEW x \in Col, NEW y \in Row
  PROVE  /\ OnPad(Erased(s, x, y))
         /\ \A r \in Row, d \in Col :
              Erased(s, x, y).b[r][d] =
                IF r = y /\ d = x THEN Blank ELSE s.b[r][d]
<1>1. s.b \in Text
  BY DEF OnPad, Pad
<1>2. Erased(s, x, y).b \in Text
  BY <1>1 DEF Erased, Text, Glyph
<1>3. x \in 0 .. Cols
  BY Sizes DEF Col
<1>4. OnPad(Erased(s, x, y))
  BY <1>2, <1>3 DEF Erased, OnPad, Pad
<1>5. ASSUME NEW r \in Row, NEW d \in Col
      PROVE  Erased(s, x, y).b[r][d] = IF r = y /\ d = x THEN Blank ELSE s.b[r][d]
  BY <1>1 DEF Erased, Text
<1> QED  BY <1>4, <1>5

LEMMA DeletePad ==
  ASSUME NEW s, OnPad(s)
  PROVE  OnPad(DeleteLast(s)) /\ (Clean(s) => Clean(DeleteLast(s)))
<1>1. s.y \in Row /\ s.x \in Col /\ s.y \in Nat /\ s.x \in Nat
  BY DEF OnPad, Pad, Row, Col
<1>2. ASSUME NEW x \in Col, NEW y \in Row, Clean(s), DeleteLast(s) = Erased(s, x, y),
             \A r \in Row, d \in Col :
               r > y \/ (r = y /\ d >= x) =>
                 (r = y /\ d = x) \/ r > s.y \/ (r = s.y /\ d >= s.x)
      PROVE  Clean(DeleteLast(s))
  <2>1. DeleteLast(s).x = x /\ DeleteLast(s).y = y
    BY <1>2 DEF Erased
  <2>2. \A r \in Row, d \in Col :
          DeleteLast(s).b[r][d] = IF r = y /\ d = x THEN Blank ELSE s.b[r][d]
    BY <1>2, ErasedPad
  <2> QED  BY <1>2, <2>1, <2>2 DEF Clean
<1>3. CASE s.x > 0
  <2>1. s.x - 1 \in Col /\ DeleteLast(s) = Erased(s, s.x - 1, s.y)
    BY <1>3, DeleteIs
  <2>2. \A r \in Row, d \in Col :
          r > s.y \/ (r = s.y /\ d >= s.x - 1) =>
            (r = s.y /\ d = s.x - 1) \/ r > s.y \/ (r = s.y /\ d >= s.x)
    BY <1>1 DEF Col, Row
  <2> QED  BY <1>1, <1>2, <2>1, <2>2, ErasedPad
<1>4. CASE s.x = 0 /\ s.y > 0
  <2>1. s.y - 1 \in Row /\ Cols - 1 \in Col
        /\ DeleteLast(s) = Erased(s, Cols - 1, s.y - 1)
    BY <1>4, DeleteIs
  <2>2. \A r \in Row, d \in Col :
          r > s.y - 1 \/ (r = s.y - 1 /\ d >= Cols - 1) =>
            (r = s.y - 1 /\ d = Cols - 1) \/ r > s.y \/ (r = s.y /\ d >= s.x)
    BY <1>1, <1>4, Sizes DEF Col, Row
  <2> QED  BY <1>2, <2>1, <2>2, ErasedPad
<1>5. CASE s.x = 0 /\ s.y = 0
  BY <1>5, DeleteIs
<1> QED  BY <1>1, <1>3, <1>4, <1>5

LEMMA HomePad ==
  ASSUME NEW s, OnPad(s)
  PROVE  /\ OnPad(Cleared(s)) /\ Clean(Cleared(s))
         /\ OnPad(Home(s)) /\ Clean(Home(Cleared(s))) /\ OnPad(Home(Cleared(s)))
<1>1. [r \in Row |-> [c \in Col |-> Blank]] \in Text
  BY DEF Text, Glyph
<1>2. 0 \in Col /\ 0 \in 0 .. Cols /\ 0 \in Row
  BY Sizes DEF Col, Row
<1>3. OnPad(Cleared(s)) /\ OnPad(Home(s)) /\ OnPad(Home(Cleared(s)))
  BY <1>1, <1>2 DEF OnPad, Pad, Cleared, Home
<1>4. Clean(Cleared(s)) /\ Clean(Home(Cleared(s)))
  BY DEF Clean, Cleared, Home
<1> QED  BY <1>3, <1>4
-----------------------------------------------------------------------------
(* Lines                                                                   *)

Str == Seq(Glyph)

LEMMA FunSeq ==
  ASSUME NEW S, NEW n \in Nat, NEW f \in [1 .. n -> S]
  PROVE  f \in Seq(S) /\ Len(f) = n
<1>1. f \in Seq(S)
  BY SeqDef
<1> QED  BY <1>1, LenProperties

LEMMA Prefix ==
  ASSUME NEW S, NEW q \in Seq(S), NEW n \in 0 .. Len(q)
  PROVE  /\ SubSeq(q, 1, n) \in Seq(S) /\ Len(SubSeq(q, 1, n)) = n
         /\ \A k \in 1 .. n : SubSeq(q, 1, n)[k] = q[k]
<1>1. n \in Nat /\ Len(q) \in Nat /\ \A k \in 1 .. n : q[k] \in S
  BY LenProperties, ElementOfSeq
<1> QED  BY <1>1, SubSeqProperties

(* Where a line ends: all behind is blank, and the last place is not.      *)
IsEnd(q, e) ==
  /\ e \in 0 .. Len(q)
  /\ \A k \in e + 1 .. Len(q) : q[k] = Blank
  /\ e > 0 => q[e] # Blank

LEMMA EndExists ==
  ASSUME NEW q \in Str
  PROVE  \E e : IsEnd(q, e)
<1> DEFINE R == {xy \in Nat \X Nat : xy[1] < xy[2]}
           Ends == {n \in 0 .. Len(q) : \A k \in n + 1 .. Len(q) : q[k] = Blank}
<1>1. IsWellFoundedOn(R, Nat)
  BY NatLessThanWellFounded DEF OpToRel
<1>2. Len(q) \in Nat
  BY LenProperties DEF Str
<1>3. Ends \subseteq Nat /\ Len(q) \in Ends
  BY <1>2
<1>4. PICK e \in Ends : \A n \in Ends : ~ (<<n, e>> \in R)
  <2> HIDE DEF Ends, R
  <2> QED  BY <1>1, <1>3, WFMin
<1>5. ASSUME e > 0, q[e] = Blank  PROVE FALSE
  <2>1. e \in Nat /\ e <= Len(q) /\ e - 1 \in 0 .. Len(q)
    BY <1>2, <1>3, <1>5
  <2>2. \A k \in e - 1 + 1 .. Len(q) : k = e \/ k \in e + 1 .. Len(q)
    BY <1>2, <2>1
  <2>3. e - 1 \in Ends
    BY <1>5, <2>1, <2>2
  <2>4. <<e - 1, e>> \in R
    BY <2>1
  <2> QED  BY <1>4, <2>3, <2>4
<1> QED  BY <1>4, <1>5 DEF IsEnd

LEMMA EndUnique ==
  ASSUME NEW q \in Str, NEW d, NEW e, IsEnd(q, d), IsEnd(q, e)
  PROVE  d = e
<1>1. Len(q) \in Nat
  BY LenProperties DEF Str
<1>2. ASSUME NEW m, NEW n, IsEnd(q, m), IsEnd(q, n), m < n  PROVE FALSE
  <2>1. n \in m + 1 .. Len(q) /\ n > 0
    BY <1>1, <1>2 DEF IsEnd
  <2> QED  BY <1>2, <2>1 DEF IsEnd
<1>3. d \in Nat /\ e \in Nat
  BY <1>1 DEF IsEnd
<1> QED  BY <1>2, <1>3

LEMMA TrimIs ==
  ASSUME NEW q \in Str, NEW e, IsEnd(q, e)
  PROVE  Lines!Trim(q) = SubSeq(q, 1, e)
<1> DEFINE ends == {n \in 0 .. Len(q) : \A k \in n + 1 .. Len(q) : q[k] = Blank}
           n1 == CHOOSE n \in ends : \A m \in ends : n <= m
<1>1. Len(q) \in Nat
  BY LenProperties DEF Str
<1>2. e \in ends /\ e \in Nat /\ ends \subseteq Nat
  BY <1>1 DEF IsEnd
<1>3. ASSUME NEW m \in ends  PROVE e <= m
  <2>1. SUFFICES ASSUME m < e  PROVE FALSE
    BY <1>2
  <2>2. e \in m + 1 .. Len(q) /\ e > 0
    BY <1>1, <1>2, <2>1
  <2> QED  BY <1>3, <2>2 DEF IsEnd
<1>4. n1 \in ends /\ \A m \in ends : n1 <= m
  <2> HIDE DEF ends
  <2> QED  BY <1>2, <1>3
<1>5. Lines!Trim(q) = SubSeq(q, 1, n1)
  BY DEF Lines!Trim, Lines!Blank, Blank
<1>6. n1 = e
  <2> HIDE DEF n1, ends
  <2>1. n1 \in Nat /\ n1 <= e /\ e <= n1
    BY <1>2, <1>3, <1>4
  <2> QED  BY <1>2, <2>1
<1> QED  BY <1>5, <1>6

LEMMA TrimStr ==
  ASSUME NEW q \in Str
  PROVE  /\ Lines!Trim(q) \in Str /\ Len(Lines!Trim(q)) <= Len(q)
         /\ \A k \in 1 .. Len(q) :
              q[k] = IF k <= Len(Lines!Trim(q)) THEN Lines!Trim(q)[k] ELSE Blank
<1>1. PICK e : IsEnd(q, e)
  BY EndExists
<1>2. Lines!Trim(q) = SubSeq(q, 1, e) /\ e \in 0 .. Len(q) /\ Len(q) \in Nat
  BY <1>1, TrimIs, LenProperties DEF IsEnd, Str
<1>3. /\ Lines!Trim(q) \in Str /\ Len(Lines!Trim(q)) = e
      /\ \A k \in 1 .. e : Lines!Trim(q)[k] = q[k]
  BY <1>2, Prefix DEF Str
<1>4. \A k \in 1 .. Len(q) : k \in 1 .. e \/ k \in e + 1 .. Len(q)
  BY <1>2
<1> QED  BY <1>1, <1>2, <1>3, <1>4 DEF IsEnd

(* Blanks behind a line make no difference to its trimmed form.            *)
LEMMA TrimPrefix ==
  ASSUME NEW q \in Str, NEW n \in 0 .. Len(q),
         \A k \in n + 1 .. Len(q) : q[k] = Blank
  PROVE  Lines!Trim(SubSeq(q, 1, n)) = Lines!Trim(q)
<1> DEFINE p == SubSeq(q, 1, n)
<1>1. /\ p \in Str /\ Len(p) = n /\ Len(q) \in Nat
      /\ \A k \in 1 .. n : p[k] = q[k]
  BY Prefix, LenProperties DEF Str
<1> HIDE DEF p
<1>2. PICK e : IsEnd(p, e)
  BY <1>1, EndExists
<1>3. e \in 0 .. n /\ \A k \in e + 1 .. Len(q) : k \in e + 1 .. n \/ k \in n + 1 .. Len(q)
  BY <1>1, <1>2 DEF IsEnd
<1>4. IsEnd(q, e)
  <2>1. e \in 0 .. Len(q) /\ (e > 0 => e \in 1 .. n)
    BY <1>1, <1>3
  <2>2. \A k \in e + 1 .. n : k \in 1 .. n /\ p[k] = Blank
    BY <1>1, <1>2, <1>3 DEF IsEnd
  <2> QED  BY <1>1, <1>2, <1>3, <2>1, <2>2 DEF IsEnd
<1>5. Lines!Trim(p) = SubSeq(p, 1, e) /\ Lines!Trim(q) = SubSeq(q, 1, e)
  BY <1>1, <1>2, <1>4, TrimIs
<1>6. /\ SubSeq(p, 1, e) \in Str /\ Len(SubSeq(p, 1, e)) = e
      /\ \A k \in 1 .. e : SubSeq(p, 1, e)[k] = p[k]
  BY <1>1, <1>3, Prefix DEF Str
<1>7. /\ SubSeq(q, 1, e) \in Str /\ Len(SubSeq(q, 1, e)) = e
      /\ \A k \in 1 .. e : SubSeq(q, 1, e)[k] = q[k]
  BY <1>1, <1>3, Prefix DEF Str
<1>8. SubSeq(p, 1, e) = SubSeq(q, 1, e)
  <2>1. \A k \in 1 .. e : k \in 1 .. n
    BY <1>3
  <2> QED  BY <1>1, <1>6, <1>7, <2>1, SeqEqual DEF Str
<1> QED  BY <1>5, <1>8 DEF p
-----------------------------------------------------------------------------
(* What the lines of a screen are                                          *)

Line(b, r) == [k \in 1 .. Cols |-> b[r][k - 1]]

LEMMA LineStr ==
  ASSUME NEW b \in Text, NEW r \in Row
  PROVE  /\ Line(b, r) \in Str /\ Len(Line(b, r)) = Cols
         /\ \A k \in 1 .. Cols : k - 1 \in Col /\ Line(b, r)[k] = b[r][k - 1]
<1>1. \A k \in 1 .. Cols : k - 1 \in Col
  BY Sizes DEF Col
<1>2. Line(b, r) \in [1 .. Cols -> Glyph]
  BY <1>1 DEF Line, Text
<1> QED  BY <1>1, <1>2, Sizes, FunSeq DEF Line, Str

(* A line that is the same in two buffers.                                 *)
LEMMA SameLine ==
  ASSUME NEW b, NEW d, NEW q, NEW r, \A c \in Col : b[q][c] = d[r][c]
  PROVE  Line(b, q) = Line(d, r)
<1>1. \A k \in 1 .. Cols : k - 1 \in Col
  BY Sizes DEF Col
<1> QED  BY <1>1 DEF Line

LEMMA LinesFacts ==
  ASSUME NEW s \in Pad
  PROVE  /\ LinesOf(s) \in Seq(Str) /\ Len(LinesOf(s)) = s.y + 1
         /\ LinesOf(s)[s.y + 1] = SubSeq(Line(s.b, s.y), 1, s.x)
         /\ \A n \in 1 .. s.y : n - 1 \in Row /\ LinesOf(s)[n] = Lines!Trim(Line(s.b, n - 1))
<1>1. s.b \in Text /\ s.y \in Row /\ s.x \in 0 .. Cols /\ s.y \in Nat
  BY DEF Pad, Row
<1>2. \A n \in 1 .. s.y + 1 : n - 1 \in Row
  BY <1>1, Sizes DEF Row
<1> DEFINE end(line) == CHOOSE m \in 0 .. Cols :
               /\ \A k \in m + 1 .. Cols : line[k] = Blank
               /\ m > 0 => line[m] # Blank
           shows(n) == IF n = s.y + 1 THEN SubSeq(Line(s.b, n - 1), 1, s.x)
                       ELSE SubSeq(Line(s.b, n - 1), 1, end(Line(s.b, n - 1)))
<1>3. LinesOf(s) = [n \in 1 .. s.y + 1 |-> shows(n)]
  BY DEF LinesOf, Line
<1>4. ASSUME NEW r \in Row
      PROVE  SubSeq(Line(s.b, r), 1, end(Line(s.b, r))) = Lines!Trim(Line(s.b, r))
  <2> DEFINE q == Line(s.b, r)
  <2>1. q \in Str /\ Len(q) = Cols
    BY <1>1, LineStr
  <2> HIDE DEF q
  <2>2. PICK e : IsEnd(q, e)
    BY <2>1, EndExists
  <2>3. /\ e \in 0 .. Cols /\ \A k \in e + 1 .. Cols : q[k] = Blank
        /\ e > 0 => q[e] # Blank
    BY <2>1, <2>2 DEF IsEnd
  <2>4. /\ end(q) \in 0 .. Cols /\ \A k \in end(q) + 1 .. Cols : q[k] = Blank
        /\ end(q) > 0 => q[end(q)] # Blank
    BY <2>3
  <2>5. IsEnd(q, end(q))
    BY <2>1, <2>4 DEF IsEnd
  <2>6. end(q) = e
    BY <2>1, <2>2, <2>5, EndUnique
  <2>7. Lines!Trim(q) = SubSeq(q, 1, e)
    BY <2>1, <2>2, TrimIs
  <2> QED  BY <2>6, <2>7 DEF q
<1>5. SubSeq(Line(s.b, s.y), 1, s.x) \in Str
  BY <1>1, LineStr, Prefix DEF Str
<1>6. shows(s.y + 1) = SubSeq(Line(s.b, s.y), 1, s.x)
  BY <1>1
<1>7. ASSUME NEW n \in 1 .. s.y
      PROVE  n \in 1 .. s.y + 1 /\ n - 1 \in Row
             /\ shows(n) = Lines!Trim(Line(s.b, n - 1))
  <2>1. n \in 1 .. s.y + 1 /\ n # s.y + 1 /\ n - 1 \in Row
    BY <1>1, <1>2
  <2>2. shows(n) = SubSeq(Line(s.b, n - 1), 1, end(Line(s.b, n - 1)))
    BY <2>1
  <2> QED  BY <1>4, <2>1, <2>2
<1> HIDE DEF shows
<1>8. ASSUME NEW n \in 1 .. s.y + 1  PROVE shows(n) \in Str
  <2>1. CASE n = s.y + 1
    BY <1>5, <1>6, <2>1
  <2>2. CASE n # s.y + 1
    <3>1. n \in 1 .. s.y
      BY <1>1, <2>2
    <3>2. Line(s.b, n - 1) \in Str /\ shows(n) = Lines!Trim(Line(s.b, n - 1))
      BY <1>1, <1>7, <3>1, LineStr
    <3> QED  BY <3>2, TrimStr
  <2> QED  BY <2>1, <2>2
<1>9. LinesOf(s) \in [1 .. s.y + 1 -> Str] /\ s.y + 1 \in Nat /\ s.y + 1 \in 1 .. s.y + 1
  BY <1>1, <1>3, <1>8
<1>10. LinesOf(s) \in Seq(Str) /\ Len(LinesOf(s)) = s.y + 1
  BY <1>9, FunSeq
<1> QED  BY <1>3, <1>6, <1>7, <1>9, <1>10
-----------------------------------------------------------------------------
(* Each operation on a screen is that of Lines on its lines.               *)

LEMMA SameOperators ==
  \A q : Lines!Front(q) = Front(q) /\ Lines!Last(q) = Last(q)
BY DEF Lines!Front, Front, Lines!Last, Last

LEMMA WithLastFacts ==
  ASSUME NEW ls \in Seq(Str), Len(ls) > 0, NEW q \in Str
  PROVE  /\ Front(ls) \in Seq(Str) /\ Len(Front(ls)) = Len(ls) - 1
         /\ \A k \in 1 .. Len(ls) - 1 : Front(ls)[k] = ls[k]
         /\ Last(ls) = ls[Len(ls)] /\ Last(ls) \in Str
         /\ Lines!WithLast(ls, q) \in Seq(Str)
         /\ Len(Lines!WithLast(ls, q)) = Len(ls)
         /\ \A k \in 1 .. Len(ls) - 1 : Lines!WithLast(ls, q)[k] = ls[k]
         /\ Lines!WithLast(ls, q)[Len(ls)] = q
<1> DEFINE n == Len(ls) - 1
<1>1. n \in 0 .. Len(ls) /\ n + 1 = Len(ls) /\ Len(ls) \in 1 .. Len(ls)
  BY LenProperties
<1>2. Front(ls) = SubSeq(ls, 1, n)
  BY DEF Front
<1>3. /\ Front(ls) \in Seq(Str) /\ Len(Front(ls)) = n
      /\ \A k \in 1 .. n : Front(ls)[k] = ls[k]
  BY <1>1, <1>2, Prefix
<1>4. Last(ls) = ls[Len(ls)] /\ Last(ls) \in Str
  BY <1>1, ElementOfSeq DEF Last
<1>5. Lines!WithLast(ls, q) = Append(Front(ls), q)
  BY SameOperators DEF Lines!WithLast
<1> HIDE DEF n
<1>6. /\ Append(Front(ls), q) \in Seq(Str) /\ Len(Append(Front(ls), q)) = n + 1
      /\ \A k \in 1 .. n : Append(Front(ls), q)[k] = Front(ls)[k]
      /\ Append(Front(ls), q)[n + 1] = q
  BY <1>3, AppendProperties
<1> QED  BY <1>1, <1>3, <1>4, <1>5, <1>6 DEF n

LEMMA LinesEqual ==
  ASSUME NEW s \in Pad, NEW w \in Seq(Str), Len(w) = s.y + 1,
         w[s.y + 1] = SubSeq(Line(s.b, s.y), 1, s.x),
         \A n \in 1 .. s.y : w[n] = Lines!Trim(Line(s.b, n - 1))
  PROVE  LinesOf(s) = w
<1>1. s.y \in Nat
  BY DEF Pad, Row
<1>2. \A n \in 1 .. s.y + 1 : n = s.y + 1 \/ n \in 1 .. s.y
  BY <1>1
<1>3. \A n \in 1 .. s.y + 1 : LinesOf(s)[n] = w[n]
  BY <1>2, LinesFacts
<1> QED  BY <1>3, LinesFacts, SeqEqual

LEMMA NoneShown == \A q : SubSeq(q, 1, 0) = << >>
<1>1. 0 \in Int /\ 1 \in Int /\ 0 < 1
  OBVIOUS
<1> QED  BY <1>1, SubSeqEmpty

LEMMA NewlineLines ==
  ASSUME NEW s \in Pad, Clean(s)
  PROVE  LinesOf(Newline(s)) = Lines!NextLine(LinesOf(s))
<1> DEFINE ls == LinesOf(s)
           trimmed == Lines!Trim(Last(ls))
           w == Lines!WithLast(ls, trimmed)
           all == Append(w, << >>)
           n == Newline(s)
<1>1. s.b \in Text /\ s.y \in Row /\ s.x \in 0 .. Cols /\ s.y \in Nat /\ s.y < Rows
  BY Sizes DEF Pad, Row
<1>2. ls \in Seq(Str) /\ Len(ls) = s.y + 1 /\ ls[s.y + 1] = SubSeq(Line(s.b, s.y), 1, s.x)
      /\ \A k \in 1 .. s.y : k - 1 \in Row /\ ls[k] = Lines!Trim(Line(s.b, k - 1))
  BY LinesFacts
<1>3. trimmed = Lines!Trim(Line(s.b, s.y)) /\ trimmed \in Str
  <2>1. Line(s.b, s.y) \in Str /\ Len(Line(s.b, s.y)) = Cols
    BY <1>1, LineStr
  <2>2. ASSUME NEW k \in s.x + 1 .. Cols  PROVE Line(s.b, s.y)[k] = Blank
    <3>1. k \in 1 .. Cols /\ k - 1 >= s.x
      BY <1>1, <2>2, Sizes
    <3>2. k - 1 \in Col /\ Line(s.b, s.y)[k] = s.b[s.y][k - 1]
      BY <1>1, <3>1, LineStr
    <3> QED  BY <1>1, <3>1, <3>2 DEF Clean
  <2>3. Last(ls) = SubSeq(Line(s.b, s.y), 1, s.x)
    BY <1>2 DEF Last
  <2> HIDE DEF ls
  <2>4. trimmed = Lines!Trim(Line(s.b, s.y))
    BY <1>1, <2>1, <2>2, <2>3, TrimPrefix
  <2> QED  BY <2>1, <2>4, TrimStr
<1> HIDE DEF ls, trimmed
<1>4. /\ w \in Seq(Str) /\ Len(w) = s.y + 1
      /\ \A k \in 1 .. s.y + 1 : w[k] = Lines!Trim(Line(s.b, k - 1))
  <2>1. /\ w \in Seq(Str) /\ Len(w) = s.y + 1
        /\ \A k \in 1 .. s.y : w[k] = ls[k]
        /\ w[s.y + 1] = trimmed
    <3>1. ls \in Seq(Str) /\ Len(ls) = s.y + 1 /\ trimmed \in Str
      BY <1>2, <1>3
    <3>2. Len(ls) > 0 /\ Len(ls) - 1 = s.y
      BY <1>1, <3>1
    <3>3. /\ w \in Seq(Str) /\ Len(w) = Len(ls) /\ w[Len(ls)] = trimmed
          /\ \A k \in 1 .. Len(ls) - 1 : w[k] = ls[k]
      BY <3>1, <3>2, WithLastFacts
    <3> QED  BY <3>1, <3>2, <3>3
  <2>2. \A k \in 1 .. s.y + 1 : k = s.y + 1 \/ k \in 1 .. s.y
    BY <1>1
  <2>3. s.y + 1 - 1 = s.y
    BY <1>1
  <2> HIDE DEF w
  <2>4. ASSUME NEW k \in 1 .. s.y + 1  PROVE w[k] = Lines!Trim(Line(s.b, k - 1))
    <3>1. CASE k = s.y + 1
      <4>1. k - 1 = s.y /\ w[k] = trimmed
        BY <1>1, <2>1, <3>1
      <4> QED  BY <1>3, <4>1
    <3>2. CASE k \in 1 .. s.y
      BY <1>2, <2>1, <3>2
    <3> QED  BY <2>2, <3>1, <3>2
  <2> QED  BY <2>1, <2>4
<1> HIDE DEF w
<1>5. << >> \in Str /\ Len(<< >>) = 0
  BY EmptySeq DEF Str
<1>6. /\ all \in Seq(Str) /\ Len(all) = s.y + 2 /\ all # << >>
      /\ \A k \in 1 .. s.y + 1 : all[k] = Lines!Trim(Line(s.b, k - 1))
      /\ all[s.y + 2] = << >>
  <2>1. /\ all \in Seq(Str) /\ Len(all) = s.y + 1 + 1 /\ all # << >>
        /\ \A k \in 1 .. s.y + 1 : all[k] = w[k]
        /\ all[s.y + 1 + 1] = << >>
    BY <1>4, <1>5, AppendProperties
  <2>2. s.y + 1 + 1 = s.y + 2
    BY <1>1
  <2> QED  BY <1>4, <2>1, <2>2
<1>7. Lines!NextLine(ls) = IF Len(all) > Rows THEN Tail(all) ELSE all
  BY SameOperators DEF Lines!NextLine, w, trimmed
<1> HIDE DEF all
<1>8. n \in Pad
  BY NewlinePad DEF OnPad
<1>9. CASE s.y + 1 = Rows
  <2>1. n = [b |-> Scrolled(s.b), x |-> 0, y |-> s.y]
    BY <1>9 DEF Newline
  <2>2. Lines!NextLine(ls) = Tail(all)
    BY <1>1, <1>6, <1>7, <1>9
  <2>3. /\ Tail(all) \in Seq(Str) /\ Len(Tail(all)) = s.y + 1
        /\ \A k \in 1 .. s.y + 1 : Tail(all)[k] = all[k + 1]
    BY <1>1, <1>6, HeadTailProperties
  <2>4. Tail(all)[s.y + 1] = SubSeq(Line(n.b, n.y), 1, n.x)
    <3>1. s.y + 1 \in 1 .. s.y + 1 /\ s.y + 1 + 1 = s.y + 2
      BY <1>1
    <3>2. Tail(all)[s.y + 1] = << >>
      BY <1>6, <2>3, <3>1
    <3>3. n.x = 0
      BY <2>1
    <3> QED  BY <3>2, <3>3, NoneShown
  <2>5. ASSUME NEW k \in 1 .. s.y
        PROVE  Tail(all)[k] = Lines!Trim(Line(n.b, k - 1))
    <3>1. /\ k \in 1 .. s.y + 1 /\ k + 1 \in 1 .. s.y + 1 /\ k + 1 - 1 = k
          /\ k - 1 \in Row /\ k - 1 # Rows - 1 /\ k - 1 + 1 = k
      BY <1>1, <1>9, Sizes DEF Row
    <3>2. Line(n.b, k - 1) = Line(s.b, k)
      BY <1>1, <2>1, <3>1, ScrolledText, SameLine
    <3> QED  BY <1>6, <2>3, <3>1, <3>2
  <2>6. n.y = s.y
    BY <2>1
  <2> QED  BY <1>8, <2>2, <2>3, <2>4, <2>5, <2>6, LinesEqual DEF ls
<1>10. CASE s.y + 1 # Rows
  <2>1. n = [b |-> s.b, x |-> 0, y |-> s.y + 1]
    BY <1>10 DEF Newline
  <2>2. Lines!NextLine(ls) = all
    BY <1>1, <1>6, <1>7, <1>10, Sizes
  <2>3. n.y = s.y + 1 /\ n.y + 1 = s.y + 2 /\ n.b = s.b /\ n.x = 0
    BY <1>1, <2>1
  <2>4. all[n.y + 1] = SubSeq(Line(n.b, n.y), 1, n.x)
    BY <1>6, <2>3, NoneShown
  <2> QED  BY <1>6, <1>8, <2>2, <2>3, <2>4, LinesEqual DEF ls
<1> QED  BY <1>9, <1>10

LEMMA PutLines ==
  ASSUME NEW s, OnPad(s), Clean(s), NEW c \in Char
  PROVE  LinesOf(PutChar(s, c)) = Lines!Put(LinesOf(s), c)
<1> DEFINE ls == LinesOf(s)
           q == Append(Last(ls), c)
           w == Lines!WithLast(ls, q)
           p == Put1(s, c)
<1>1. /\ s \in Pad /\ s.b \in Text /\ s.y \in Row /\ s.x \in Col
      /\ s.y \in Nat /\ s.x \in Nat /\ s.x \in 0 .. Cols /\ s.x < Cols
  BY Sizes DEF OnPad, Pad, Row, Col
<1>2. p \in Pad /\ Clean(p) /\ p.y = s.y /\ p.x = s.x + 1 /\ p.b \in Text
  BY PutIs DEF Pad, Put1
<1>3. \A r \in Row, d \in Col :
        p.b[r][d] = IF r = s.y /\ d = s.x THEN c ELSE s.b[r][d]
  BY <1>1 DEF Put1, Text
<1> HIDE DEF p
<1>4. ls \in Seq(Str) /\ Len(ls) = s.y + 1 /\ ls[s.y + 1] = SubSeq(Line(s.b, s.y), 1, s.x)
      /\ \A k \in 1 .. s.y : k - 1 \in Row /\ ls[k] = Lines!Trim(Line(s.b, k - 1))
  BY <1>1, LinesFacts
<1>5. /\ Line(s.b, s.y) \in Str /\ Len(Line(s.b, s.y)) = Cols
      /\ Line(p.b, s.y) \in Str /\ Len(Line(p.b, s.y)) = Cols
      /\ \A k \in 1 .. Cols : /\ k - 1 \in Col
                              /\ Line(s.b, s.y)[k] = s.b[s.y][k - 1]
                              /\ Line(p.b, s.y)[k] = p.b[s.y][k - 1]
  BY <1>1, <1>2, LineStr
<1>6. q = SubSeq(Line(p.b, s.y), 1, s.x + 1) /\ q \in Str /\ Len(q) = s.x + 1
  <2>1. Last(ls) = SubSeq(Line(s.b, s.y), 1, s.x)
    BY <1>4 DEF Last
  <2>2. /\ Last(ls) \in Str /\ Len(Last(ls)) = s.x
        /\ \A k \in 1 .. s.x : Last(ls)[k] = Line(s.b, s.y)[k]
    BY <1>1, <1>5, <2>1, Prefix DEF Str
  <2>3. c \in Glyph
    BY DEF Glyph
  <2>4. /\ q \in Str /\ Len(q) = s.x + 1 /\ q[s.x + 1] = c
        /\ \A k \in 1 .. s.x : q[k] = Line(s.b, s.y)[k]
    BY <2>2, <2>3, AppendProperties DEF Str
  <2> DEFINE u == SubSeq(Line(p.b, s.y), 1, s.x + 1)
  <2>5. /\ u \in Str /\ Len(u) = s.x + 1
        /\ \A k \in 1 .. s.x + 1 : u[k] = Line(p.b, s.y)[k]
    BY <1>1, <1>5, Prefix DEF Str
  <2> HIDE DEF q, u
  <2>6. ASSUME NEW k \in 1 .. s.x + 1  PROVE q[k] = u[k]
    <3>1. k \in 1 .. Cols /\ k - 1 \in Col
      BY <1>1, <1>5, <2>6
    <3>2. u[k] = p.b[s.y][k - 1]
      BY <1>5, <2>5, <3>1
    <3>4. p.b[s.y][k - 1] = IF k - 1 = s.x THEN c ELSE s.b[s.y][k - 1]
      BY <1>1, <1>3, <3>1
    <3>3. k = s.x + 1 \/ (k \in 1 .. s.x /\ k - 1 # s.x)
      BY <1>1
    <3>5. CASE k = s.x + 1
      BY <1>1, <2>4, <3>2, <3>4, <3>5
    <3>6. CASE k \in 1 .. s.x /\ k - 1 # s.x
      <4>1. q[k] = Line(s.b, s.y)[k] /\ Line(s.b, s.y)[k] = s.b[s.y][k - 1]
        BY <1>5, <2>4, <3>1, <3>6
      <4> QED  BY <3>2, <3>4, <3>6, <4>1
    <3> QED  BY <3>3, <3>5, <3>6
  <2>7. q = u
    BY <2>4, <2>5, <2>6, SeqEqual DEF Str
  <2> QED  BY <2>4, <2>7 DEF u
<1> HIDE DEF ls, q
<1>7. /\ w \in Seq(Str) /\ Len(w) = s.y + 1 /\ w[s.y + 1] = q
      /\ \A k \in 1 .. s.y : w[k] = ls[k]
  <2>1. ls \in Seq(Str) /\ Len(ls) = s.y + 1 /\ q \in Str
    BY <1>4, <1>6
  <2>2. Len(ls) > 0 /\ Len(ls) - 1 = s.y
    BY <1>1, <2>1
  <2>3. /\ w \in Seq(Str) /\ Len(w) = Len(ls) /\ w[Len(ls)] = q
        /\ \A k \in 1 .. Len(ls) - 1 : w[k] = ls[k]
    BY <2>1, <2>2, WithLastFacts
  <2> QED  BY <2>1, <2>2, <2>3
<1>8. Last(w) = q
  BY <1>7 DEF Last
<1> HIDE DEF w
<1>9. LinesOf(p) = w
  <2>1. ASSUME NEW k \in 1 .. s.y  PROVE w[k] = Lines!Trim(Line(p.b, k - 1))
    <3>1. k - 1 \in Row /\ k - 1 # s.y
      BY <1>1, <1>4
    <3>2. Line(p.b, k - 1) = Line(s.b, k - 1)
      BY <1>3, <3>1, SameLine
    <3> QED  BY <1>4, <1>7, <3>2
  <2> QED  BY <1>2, <1>6, <1>7, <2>1, LinesEqual
<1>10. Lines!Put(LinesOf(s), c) =
         IF Len(Last(w)) = Cols THEN Lines!NextLine(w) ELSE w
  BY SameOperators DEF Lines!Put, w, q, ls
<1>11. PutChar(s, c) = IF s.x + 1 = Cols THEN Newline(p) ELSE p
  BY PutIs DEF p
<1> QED  BY <1>2, <1>6, <1>8, <1>9, <1>10, <1>11, NewlineLines
LEMMA FrontFacts ==
  ASSUME NEW S, NEW q \in Seq(S), Len(q) > 0
  PROVE  /\ Front(q) \in Seq(S) /\ Len(Front(q)) = Len(q) - 1
         /\ \A k \in 1 .. Len(q) - 1 : Front(q)[k] = q[k]
<1>1. Len(q) - 1 \in 0 .. Len(q)
  BY LenProperties
<1>2. Front(q) = SubSeq(q, 1, Len(q) - 1)
  BY DEF Front
<1> QED  BY <1>1, <1>2, Prefix

LEMMA EraseLines ==
  ASSUME NEW s, OnPad(s)
  PROVE  LinesOf(DeleteLast(s)) = Lines!Erase(LinesOf(s))
<1> DEFINE ls == LinesOf(s)
           above == Last(Front(ls))
           e == DeleteLast(s)
           padded == [k \in 1 .. Cols - 1 |->
                        IF k <= Len(above) THEN above[k] ELSE Blank]
<1>1. /\ s \in Pad /\ s.b \in Text /\ s.y \in Row /\ s.x \in Col
      /\ s.y \in Nat /\ s.x \in Nat /\ s.x \in 0 .. Cols /\ s.x < Cols
  BY Sizes DEF OnPad, Pad, Row, Col
<1>2. ls \in Seq(Str) /\ Len(ls) = s.y + 1 /\ ls[s.y + 1] = SubSeq(Line(s.b, s.y), 1, s.x)
      /\ \A k \in 1 .. s.y : k - 1 \in Row /\ ls[k] = Lines!Trim(Line(s.b, k - 1))
  BY <1>1, LinesFacts
<1>3. /\ Line(s.b, s.y) \in Str /\ Len(Line(s.b, s.y)) = Cols
      /\ \A k \in 1 .. Cols : k - 1 \in Col /\ Line(s.b, s.y)[k] = s.b[s.y][k - 1]
  BY <1>1, LineStr
<1>4. /\ Last(ls) = SubSeq(Line(s.b, s.y), 1, s.x)
      /\ Last(ls) \in Str /\ Len(Last(ls)) = s.x
      /\ \A k \in 1 .. s.x : Last(ls)[k] = Line(s.b, s.y)[k]
  BY <1>1, <1>2, <1>3, Prefix DEF Last, Str
<1>5. Len(<< >>) = 0
  BY EmptySeq
<1>6. e \in Pad /\ e.b \in Text
  BY DeletePad DEF OnPad, Pad
<1>7. Lines!Erase(ls) =
        IF Last(ls) # << >> THEN Lines!WithLast(ls, Front(Last(ls)))
        ELSE IF Len(ls) = 1 THEN ls ELSE Lines!WithLast(Front(ls), padded)
  BY SameOperators DEF Lines!Erase, Lines!Blank, Blank
<1> HIDE DEF ls
<1>8. Len(ls) > 0 /\ Len(ls) - 1 = s.y
  BY <1>1, <1>2
<1>9. CASE s.x > 0
  <2>1. s.x - 1 \in Col /\ s.x - 1 \in Nat /\ e = Erased(s, s.x - 1, s.y)
    BY <1>1, <1>9, DeleteIs
  <2>2. e.x = s.x - 1 /\ e.y = s.y
    BY <2>1 DEF Erased
  <2>3. \A r \in Row, d \in Col :
          e.b[r][d] = IF r = s.y /\ d = s.x - 1 THEN Blank ELSE s.b[r][d]
    BY <1>1, <2>1, ErasedPad
  <2> HIDE DEF e
  <2> DEFINE f == Front(Last(ls))
             u == SubSeq(Line(e.b, s.y), 1, s.x - 1)
  <2>4. f \in Str /\ Len(f) = s.x - 1 /\ \A k \in 1 .. s.x - 1 : f[k] = Last(ls)[k]
    BY <1>4, <1>9, FrontFacts DEF Str
  <2>5. /\ Line(e.b, s.y) \in Str /\ Len(Line(e.b, s.y)) = Cols
        /\ \A k \in 1 .. Cols : Line(e.b, s.y)[k] = e.b[s.y][k - 1]
    BY <1>1, <1>6, LineStr
  <2>6. u \in Str /\ Len(u) = s.x - 1 /\ \A k \in 1 .. s.x - 1 : u[k] = Line(e.b, s.y)[k]
    <3>1. s.x - 1 \in 0 .. Cols
      BY <1>1, <2>1, Sizes
    <3> QED  BY <2>5, <3>1, Prefix DEF Str
  <2> HIDE DEF f, u
  <2>7. ASSUME NEW k \in 1 .. s.x - 1  PROVE f[k] = u[k]
    <3>1. k \in 1 .. Cols /\ k \in 1 .. s.x /\ k - 1 \in Col /\ k - 1 # s.x - 1
      BY <1>1, <1>3, <2>1
    <3>2. f[k] = s.b[s.y][k - 1]
      BY <1>3, <1>4, <2>4, <3>1
    <3>3. u[k] = e.b[s.y][k - 1]
      BY <2>5, <2>6, <3>1
    <3> QED  BY <1>1, <2>3, <3>1, <3>2, <3>3
  <2>8. f = u
    BY <2>4, <2>6, <2>7, SeqEqual DEF Str
  <2> DEFINE w == Lines!WithLast(ls, f)
  <2>9. /\ w \in Seq(Str) /\ Len(w) = Len(ls) /\ w[Len(ls)] = f
        /\ \A k \in 1 .. Len(ls) - 1 : w[k] = ls[k]
    BY <1>2, <1>8, <2>4, WithLastFacts
  <2>10. Lines!Erase(ls) = w
    <3>1. Last(ls) = << >> => s.x = 0
      BY <1>4, <1>5
    <3>2. s.x # 0
      BY <1>1, <1>9
    <3> QED  BY <1>7, <3>1, <3>2 DEF f
  <2> HIDE DEF w
  <2>11. ASSUME NEW k \in 1 .. s.y  PROVE w[k] = Lines!Trim(Line(e.b, k - 1))
    <3>1. k - 1 \in Row /\ k - 1 # s.y
      BY <1>1, <1>2
    <3>2. Line(e.b, k - 1) = Line(s.b, k - 1)
      BY <2>3, <3>1, SameLine
    <3> QED  BY <1>2, <1>8, <2>9, <3>2
  <2>12. Len(w) = e.y + 1 /\ w[e.y + 1] = SubSeq(Line(e.b, e.y), 1, e.x)
    BY <1>2, <2>2, <2>8, <2>9 DEF u
  <2>13. LinesOf(e) = w
    BY <1>6, <2>2, <2>9, <2>11, <2>12, LinesEqual
  <2> QED  BY <2>10, <2>13 DEF ls, e
<1>10. CASE s.x = 0 /\ s.y > 0
  <2>1. /\ s.y - 1 \in Row /\ Cols - 1 \in Col /\ s.y - 1 \in Nat
        /\ e = Erased(s, Cols - 1, s.y - 1)
    BY <1>1, <1>10, DeleteIs
  <2>2. e.x = Cols - 1 /\ e.y = s.y - 1 /\ e.y + 1 = s.y
    BY <1>1, <2>1 DEF Erased
  <2>3. \A r \in Row, d \in Col :
          e.b[r][d] = IF r = s.y - 1 /\ d = Cols - 1 THEN Blank ELSE s.b[r][d]
    BY <2>1, ErasedPad
  <2> HIDE DEF e
  <2> DEFINE L == Line(s.b, s.y - 1)
             u == SubSeq(Line(e.b, s.y - 1), 1, Cols - 1)
  <2>4. /\ L \in Str /\ Len(L) = Cols
        /\ \A k \in 1 .. Cols : k - 1 \in Col /\ L[k] = s.b[s.y - 1][k - 1]
        /\ Line(e.b, s.y - 1) \in Str /\ Len(Line(e.b, s.y - 1)) = Cols
        /\ \A k \in 1 .. Cols : Line(e.b, s.y - 1)[k] = e.b[s.y - 1][k - 1]
    BY <1>1, <1>6, <2>1, LineStr
  <2>5. /\ Front(ls) \in Seq(Str) /\ Len(Front(ls)) = s.y
        /\ \A k \in 1 .. s.y : Front(ls)[k] = ls[k]
    BY <1>2, <1>8, FrontFacts
  <2>6. above = Lines!Trim(L)
    <3>1. s.y \in 1 .. s.y
      BY <1>1, <1>10
    <3> QED  BY <1>2, <2>5, <3>1 DEF Last
  <2>7. /\ padded \in Str /\ Len(padded) = Cols - 1
        /\ \A k \in 1 .. Cols - 1 : padded[k] = L[k]
    <3>1. \A k \in 1 .. Cols - 1 : k \in 1 .. Cols
      BY Sizes
    <3> HIDE DEF above, L
    <3>2. \A k \in 1 .. Cols - 1 : padded[k] = L[k]
      BY <2>4, <2>6, <3>1, TrimStr
    <3>3. \A k \in 1 .. Cols - 1 : L[k] \in Glyph
      BY <2>4, <3>1, ElementOfSeq DEF Str
    <3>4. padded \in [1 .. Cols - 1 -> Glyph]
      BY <3>2, <3>3
    <3>5. Cols - 1 \in Nat
      BY Sizes
    <3> HIDE DEF padded
    <3> QED  BY <3>2, <3>4, <3>5, FunSeq DEF Str
  <2>8. /\ u \in Str /\ Len(u) = Cols - 1
        /\ \A k \in 1 .. Cols - 1 : u[k] = Line(e.b, s.y - 1)[k]
    <3>1. Cols - 1 \in 0 .. Cols
      BY Sizes
    <3> QED  BY <2>4, <3>1, Prefix DEF Str
  <2> HIDE DEF padded, u, L, above
  <2>9. ASSUME NEW k \in 1 .. Cols - 1  PROVE padded[k] = u[k]
    <3>1. k \in 1 .. Cols /\ k - 1 # Cols - 1
      BY Sizes
    <3>2. padded[k] = s.b[s.y - 1][k - 1] /\ k - 1 \in Col
      BY <2>4, <2>7, <3>1
    <3>3. u[k] = e.b[s.y - 1][k - 1]
      BY <2>4, <2>8, <3>1
    <3> QED  BY <2>1, <2>3, <3>1, <3>2, <3>3
  <2>10. padded = u
    BY <2>7, <2>8, <2>9, SeqEqual DEF Str
  <2> DEFINE w == Lines!WithLast(Front(ls), padded)
  <2>11. /\ w \in Seq(Str) /\ Len(w) = s.y /\ w[s.y] = padded
         /\ \A k \in 1 .. s.y - 1 : w[k] = Front(ls)[k]
    <3> DEFINE front == Front(ls)
    <3>1. front \in Seq(Str) /\ Len(front) = s.y /\ Len(front) > 0
      BY <1>10, <2>5
    <3> HIDE DEF front
    <3>2. LET v == Lines!WithLast(front, padded)
          IN /\ v \in Seq(Str) /\ Len(v) = Len(front) /\ v[Len(front)] = padded
             /\ \A k \in 1 .. Len(front) - 1 : v[k] = front[k]
      BY <2>7, <3>1, WithLastFacts
    <3> QED  BY <3>1, <3>2 DEF front
  <2>12. Lines!Erase(ls) = w
    <3>1. Last(ls) = << >>
      BY <1>4, <1>10, NoneShown
    <3>2. Len(ls) # 1
      BY <1>1, <1>2, <1>10
    <3> QED  BY <1>7, <3>1, <3>2
  <2> HIDE DEF w
  <2>13. ASSUME NEW k \in 1 .. e.y  PROVE w[k] = Lines!Trim(Line(e.b, k - 1))
    <3>1. k \in 1 .. s.y - 1 /\ k \in 1 .. s.y /\ k - 1 # s.y - 1
      BY <1>1, <2>2
    <3>2. k - 1 \in Row
      BY <1>2, <3>1
    <3>3. Line(e.b, k - 1) = Line(s.b, k - 1)
      BY <2>3, <3>1, <3>2, SameLine
    <3> QED  BY <1>2, <2>5, <2>11, <3>1, <3>3
  <2>14. Len(w) = e.y + 1 /\ w[e.y + 1] = SubSeq(Line(e.b, e.y), 1, e.x)
    BY <2>2, <2>10, <2>11 DEF u
  <2>15. LinesOf(e) = w
    BY <1>6, <2>11, <2>13, <2>14, LinesEqual
  <2> QED  BY <2>12, <2>15 DEF ls, e
<1>11. CASE s.x = 0 /\ s.y = 0
  <2>1. Last(ls) = << >> /\ Len(ls) = 1
    BY <1>2, <1>4, <1>11, NoneShown
  <2>2. e = s
    BY <1>11, DeleteIs
  <2> QED  BY <1>7, <2>1, <2>2 DEF ls
<1> QED  BY <1>1, <1>9, <1>10, <1>11

LEMMA EmptyLines ==
  ASSUME NEW s, OnPad(s)
  PROVE  LinesOf(Home(s)) = << << >> >>
<1> DEFINE h == Home(s)
           w == << << >> >>
<1>1. h \in Pad /\ h.x = 0 /\ h.y = 0
  BY HomePad DEF OnPad, Home
<1>2. << >> \in Str
  BY EmptySeq DEF Str
<1>3. w \in Seq(Str) /\ Len(w) = 1 /\ w[1] = << >>
  BY <1>2
<1> HIDE DEF h, w
<1>4. w[h.y + 1] = SubSeq(Line(h.b, h.y), 1, h.x) /\ Len(w) = h.y + 1
  <2>1. h.y + 1 = 1
    BY <1>1
  <2> QED  BY <1>1, <1>3, <2>1, NoneShown
<1>5. \A n \in 1 .. h.y : FALSE
  BY <1>1
<1>6. LinesOf(h) = w
  BY <1>1, <1>3, <1>4, <1>5, LinesEqual
<1> QED  BY <1>6 DEF h, w
-----------------------------------------------------------------------------
(* The screens of the terminals                                            *)

LEMMA Buffers ==
  ASSUME NEW t \in Task
  PROVE  Buffer(t) \in Term /\ (t # NullTerminal => Buffer(t) = t /\ t \in Term)
BY Sizes DEF Task, Buffer

LEMMA ScreenOnPad ==
  ASSUME TypeOK, NEW t \in Task
  PROVE  OnPad(Screen(t))
<1>1. text[Buffer(t)] \in Text
  BY Buffers DEF TypeOK, Text, Glyph
<1>2. /\ screen_x \in Col /\ screen_y \in Row
      /\ saved_x[t] \in Col /\ saved_y[t] \in Row
  BY DEF TypeOK
<1>3. Col \subseteq 0 .. Cols
  BY Sizes DEF Col
<1> QED  BY <1>1, <1>2, <1>3 DEF Screen, OnPad, Pad

(* terminal_set_running moves the cursor and nothing on a screen.          *)
LEMMA RunningMoves ==
  ASSUME TypeOK, NEW t \in Task, SetRunning(t), text' = text
  PROVE  /\ screen_x' \in Col /\ screen_y' \in Row /\ running' = t
         /\ saved_x' \in [Task -> Col] /\ saved_y' \in [Task -> Row]
         /\ \A u \in Task : Screen(u)' = Screen(u)
<1>1. running' = t
      /\ saved_x' = [saved_x EXCEPT ![running] = screen_x]
      /\ saved_y' = [saved_y EXCEPT ![running] = screen_y]
      /\ screen_x' = Screen(t).x /\ screen_y' = Screen(t).y
  BY DEF SetRunning
<1>2. /\ saved_x \in [Task -> Col] /\ saved_y \in [Task -> Row]
      /\ screen_x \in Col /\ screen_y \in Row /\ running \in Task
  BY DEF TypeOK
<1>3. screen_x' \in Col /\ screen_y' \in Row
  BY <1>1, ScreenOnPad DEF OnPad, Pad
<1>4. ASSUME NEW u \in Task  PROVE Screen(u)' = Screen(u)
  BY <1>1, <1>2 DEF Screen
<1> QED  BY <1>1, <1>2, <1>3, <1>4

(* What is written appears on the screen of the running terminal, or on    *)
(* that of terminal 0 if it is init's.                                     *)
LEMMA ShowsOn ==
  ASSUME TypeOK, NEW s, OnPad(s), Shows(s)
  PROVE  /\ text' \in [Term -> Text] /\ screen_x' \in Col /\ screen_y' \in Row
         /\ Screen(running)' = s
         /\ \A u \in Term \ {Buffer(running)} : Screen(u)' = Screen(u)
         /\ UNCHANGED <<saved_x, saved_y, running>>
<1>1. /\ text' = [text EXCEPT ![Buffer(running)] = s.b]
      /\ screen_x' = s.x /\ screen_y' = s.y
      /\ UNCHANGED <<saved_x, saved_y, running>>
  BY DEF Shows
<1>2. running \in Task /\ Buffer(running) \in Term
  BY Buffers DEF TypeOK
<1>3. text \in [Term -> Text]
  BY DEF TypeOK, Text, Glyph
<1>4. s.b \in Text /\ s.x \in Col /\ s.y \in Row /\ s = [b |-> s.b, x |-> s.x, y |-> s.y]
  BY DEF OnPad, Pad
<1>5. text' \in [Term -> Text] /\ text'[Buffer(running)] = s.b
  BY <1>1, <1>2, <1>3, <1>4
<1>6. Screen(running)' = s
  BY <1>1, <1>4, <1>5 DEF Screen, Buffer
<1>7. ASSUME NEW u \in Term \ {Buffer(running)}  PROVE Screen(u)' = Screen(u)
  <2>1. u # running /\ Buffer(u) = u
    BY <1>2, Sizes, Buffers DEF Task
  <2>2. text'[u] = text[u]
    BY <1>1, <1>3
  <2> QED  BY <1>1, <2>1, <2>2 DEF Screen, Buffer
<1> QED  BY <1>1, <1>4, <1>5, <1>6, <1>7

(* A key appears on the screen that is shown, whichever terminal ran.      *)
LEMMA KeyShowsOn ==
  ASSUME TypeOK, NEW s, OnPad(s), KeyOn(s)
  PROVE  /\ showing \in Term
         /\ text' \in [Term -> Text] /\ screen_x' \in Col /\ screen_y' \in Row
         /\ saved_x' \in [Task -> Col] /\ saved_y' \in [Task -> Row]
         /\ Screen(showing)' = s
         /\ \A u \in Term \ {showing} : Screen(u)' = Screen(u)
<1> DEFINE X == [saved_x EXCEPT ![running] = screen_x, ![showing] = s.x]
           Y == [saved_y EXCEPT ![running] = screen_y, ![showing] = s.y]
<1>1. /\ showing \in Term /\ text' = [text EXCEPT ![showing] = s.b]
      /\ saved_x' = X /\ saved_y' = Y
      /\ screen_x' = X[cpu] /\ screen_y' = Y[cpu] /\ running' = cpu
      /\ showing' = showing
  BY DEF KeyOn
<1>2. /\ running \in Task /\ cpu \in Task /\ showing \in Task /\ text \in [Term -> Text]
      /\ screen_x \in Col /\ screen_y \in Row
      /\ saved_x \in [Task -> Col] /\ saved_y \in [Task -> Row]
  BY <1>1 DEF TypeOK, Text, Glyph, Task
<1>3. s.b \in Text /\ s.x \in Col /\ s.y \in Row /\ s = [b |-> s.b, x |-> s.x, y |-> s.y]
  BY DEF OnPad, Pad
<1>4. /\ X \in [Task -> Col] /\ X[showing] = s.x
      /\ \A u \in Task \ {showing} : X[u] = Screen(u).x
  BY <1>2, <1>3 DEF Screen
<1>5. /\ Y \in [Task -> Row] /\ Y[showing] = s.y
      /\ \A u \in Task \ {showing} : Y[u] = Screen(u).y
  BY <1>2, <1>3 DEF Screen
<1> HIDE DEF X, Y
<1>6. ASSUME NEW u \in Term
      PROVE  Screen(u)' = [b |-> text'[u], x |-> X[u], y |-> Y[u]]
  <2>1. Buffer(u) = u
    BY Sizes, Buffers DEF Task
  <2> QED  BY <1>1, <2>1 DEF Screen, Buffer
<1>7. text' \in [Term -> Text] /\ text'[showing] = s.b
      /\ \A u \in Term \ {showing} : text'[u] = text[u]
  BY <1>1, <1>2, <1>3
<1>8. ASSUME NEW u \in Term \ {showing}  PROVE Screen(u)' = Screen(u)
  <2>1. u \in Task /\ Buffer(u) = u
    BY Sizes, Buffers DEF Task
  <2>2. Screen(u) = [b |-> text[u], x |-> Screen(u).x, y |-> Screen(u).y]
    BY <2>1 DEF Screen
  <2> QED  BY <1>4, <1>5, <1>6, <1>7, <2>1, <2>2
<1>9. Screen(showing)' = s
  <2>1. /\ Screen(showing)' = [b |-> text'[showing], x |-> X[showing], y |-> Y[showing]]
    BY <1>1, <1>6
  <2> QED  BY <1>3, <1>4, <1>5, <1>7, <2>1
<1> QED  BY <1>1, <1>2, <1>4, <1>5, <1>7, <1>8, <1>9
-----------------------------------------------------------------------------
(* What the steps do to the screens: nothing to one that is not spoilt, or *)
(* an operation of Lines on one, or they clear one, or they spoil one.     *)
Still(t) ==
  \A u \in Term \ {t} : Screen(u)' = Screen(u) /\ (u \in spoilt' <=> u \in spoilt)

Nothing == spoilt' = spoilt /\ \A u \in Term \ spoilt : Screen(u)' = Screen(u)

Edit(t) ==
  /\ t \notin spoilt /\ spoilt' = spoilt /\ Still(t)
  /\ \/ \E c \in Char : Screen(t)' = PutChar(Screen(t), c)
     \/ Screen(t)' = Newline(Screen(t))
     \/ Screen(t)' = DeleteLast(Screen(t))

Clearing(t) ==
  spoilt' = spoilt \ {t} /\ Still(t) /\ Screen(t)' = Home(Cleared(Screen(t)))

Spoiling(t) == spoilt' = spoilt \cup {t} /\ Still(t)

Settling(t) == spoilt' = spoilt \ {t} /\ Still(t) /\ Screen(t)' = Titled(Screen(t))

Effect ==
  Nothing \/ \E t \in Term : Edit(t) \/ Clearing(t) \/ Spoiling(t) \/ Settling(t)

(* An access of the kernel's own printing.                                 *)
LEMMA TouchEffect ==
  ASSUME TypeOK, Touch, UNCHANGED <<showing, cpu, user_page, alive, first>>,
         opens' \in Term \cup {Nobody},
         opening' \in {"no", "show", "run", "draw", "enter"}
  PROVE  Effect /\ TypeOK'
<1>1. Buffer(running) \in Term
  BY Buffers DEF TypeOK
<1>2. Spoiling(Buffer(running))
  BY DEF Touch, cursors, Spoiling, Still, Screen
<1>3. spoilt' \subseteq Term
  BY <1>1 DEF Touch, TypeOK
<1>4. TypeOK'
  BY <1>3 DEF Touch, cursors, TypeOK
<1> QED  BY <1>1, <1>2, <1>4 DEF Effect

LEMMA WriteEffect ==
  ASSUME TypeOK, NEW s, Writes(s),
         (\E c \in Char : s = PutChar(Screen(running), c)) \/ s = Newline(Screen(running))
  PROVE  Effect /\ OnPad(s)
<1>1. running \in Term \ spoilt /\ running \in Task /\ Shows(s) /\ spoilt' = spoilt
  BY DEF Writes, Task
<1>2. OnPad(Screen(running)) /\ Screen(running) \in Pad
  BY <1>1, ScreenOnPad DEF OnPad
<1>3. OnPad(s)
  BY <1>2, PutPad, NewlinePad
<1>4. /\ Screen(running)' = s
      /\ \A u \in Term \ {Buffer(running)} : Screen(u)' = Screen(u)
  BY <1>1, <1>3, ShowsOn
<1>5. Buffer(running) = running
  BY <1>1, Sizes DEF Buffer
<1>6. running' = running
  BY <1>1 DEF Shows
<1>7. Edit(running)
  BY <1>1, <1>4, <1>5, <1>6 DEF Edit, Still
<1> QED  BY <1>1, <1>3, <1>7 DEF Effect

LEMMA KeyEffect ==
  ASSUME TypeOK, Key
  PROVE  Effect /\ TypeOK'
<1> DEFINE p == Screen(showing)
<1>1. showing \in Term
  BY DEF Key, KeyOn
<1>2. OnPad(p) /\ p \in Pad
  BY <1>1, ScreenOnPad DEF Task, OnPad
<1>3. ASSUME NEW s, OnPad(s), KeyOn(s), spoilt' \subseteq Term  PROVE TypeOK'
  BY <1>3, KeyShowsOn DEF KeyOn, TypeOK, Text, Glyph
<1>4. showing' = showing
  BY DEF Key, KeyOn
<1> HIDE DEF p
<1>5. ASSUME NEW s, KeyOn(s), OnPad(s), showing \notin spoilt, spoilt' = spoilt,
             (\E c \in Char : s = PutChar(p, c)) \/ s = Newline(p) \/ s = DeleteLast(p)
      PROVE  Effect /\ TypeOK'
  <2>1. /\ Screen(showing)' = s
        /\ \A u \in Term \ {showing} : Screen(u)' = Screen(u)
    BY <1>5, KeyShowsOn
  <2>2. Edit(showing)
    BY <1>4, <1>5, <2>1 DEF Edit, Still, p
  <2>3. spoilt' \subseteq Term
    BY <1>5 DEF TypeOK
  <2> QED  BY <1>1, <1>3, <1>5, <2>2, <2>3 DEF Effect
<1>6. CASE \E c \in Char : KeyOn(PutChar(p, c)) /\ showing \notin spoilt /\ spoilt' = spoilt
  BY <1>2, <1>5, <1>6, PutPad
<1>7. CASE KeyOn(Newline(p)) /\ showing \notin spoilt /\ spoilt' = spoilt
  BY <1>2, <1>5, <1>7, NewlinePad
<1>8. CASE KeyOn(DeleteLast(p)) /\ showing \notin spoilt /\ spoilt' = spoilt
  BY <1>2, <1>5, <1>8, DeletePad
<1>9. CASE KeyOn(Home(Cleared(p))) /\ spoilt' = spoilt \ {showing}
  <2>1. OnPad(Home(Cleared(p)))
    BY <1>2, HomePad
  <2>2. /\ Screen(showing)' = Home(Cleared(p))
        /\ \A u \in Term \ {showing} : Screen(u)' = Screen(u)
    BY <1>9, <2>1, KeyShowsOn
  <2>3. Clearing(showing)
    BY <1>4, <1>9, <2>2 DEF Clearing, Still, p
  <2>4. spoilt' \subseteq Term
    BY <1>9 DEF TypeOK
  <2> QED  BY <1>1, <1>3, <1>9, <2>1, <2>3, <2>4 DEF Effect
<1>10. CASE KeyOn(p) /\ showing \in spoilt /\ spoilt' = spoilt
  <2>1. \A u \in Term \ {showing} : Screen(u)' = Screen(u)
    BY <1>2, <1>10, KeyShowsOn
  <2>2. Nothing
    BY <1>10, <2>1 DEF Nothing
  <2>3. spoilt' \subseteq Term
    BY <1>10 DEF TypeOK
  <2> QED  BY <1>2, <1>3, <1>10, <2>2, <2>3 DEF Effect
<1> QED  BY <1>6, <1>7, <1>8, <1>9, <1>10 DEF Key, p

LEMMA RunningEffect ==
  ASSUME TypeOK, NEW t \in Task, SetRunning(t), UNCHANGED <<text, spoilt>>,
         cpu' \in Task, user_page' \in Task, showing' \in Term \cup {Nobody},
         opens' \in Term \cup {Nobody}, alive' \subseteq Term, first' \in BOOLEAN,
         opening' \in {"no", "show", "run", "draw", "enter"}
  PROVE  Effect /\ TypeOK'
<1>1. /\ screen_x' \in Col /\ screen_y' \in Row /\ running' = t
      /\ saved_x' \in [Task -> Col] /\ saved_y' \in [Task -> Row]
      /\ \A u \in Task : Screen(u)' = Screen(u)
  BY RunningMoves
<1>2. Nothing
  BY <1>1 DEF Nothing, Task
<1>3. TypeOK'
  BY <1>1 DEF TypeOK
<1> QED  BY <1>2, <1>3 DEF Effect

(* The steps that change neither a buffer nor a cursor.                    *)
LEMMA NoneEffect ==
  ASSUME TypeOK, UNCHANGED <<text, cursors, running, spoilt>>,
         cpu' \in Task, user_page' \in Task, showing' \in Term \cup {Nobody},
         opens' \in Term \cup {Nobody}, alive' \subseteq Term, first' \in BOOLEAN,
         opening' \in {"no", "show", "run", "draw", "enter"}
  PROVE  Effect /\ TypeOK'
<1>1. \A u \in Task : Screen(u)' = Screen(u)
  BY DEF Screen, cursors
<1>2. Nothing
  BY <1>1 DEF Nothing, Task
<1>3. TypeOK'
  BY DEF TypeOK, cursors
<1> QED  BY <1>2, <1>3 DEF Effect

LEMMA ShowsTypes ==
  ASSUME TypeOK, NEW s, OnPad(s), Shows(s), spoilt' \subseteq Term,
         UNCHANGED <<showing, cpu, user_page, alive, opens, first>>,
         opening' \in {"no", "show", "run", "draw", "enter"}
  PROVE  TypeOK'
BY ShowsOn DEF TypeOK, Text, Glyph

(* terminal_allocate finds the lowest terminal that is free.               *)
LEMMA AllocateEffect ==
  ASSUME TypeOK, Allocate
  PROVE  Effect /\ TypeOK' /\ opens' \in Term
<1> DEFINE Free == Term \ alive
           R == {xy \in Nat \X Nat : xy[1] < xy[2]}
<1>1. IsWellFoundedOn(R, Nat)
  BY NatLessThanWellFounded DEF OpToRel
<1>2. Free # {} /\ Free \subseteq Nat
  BY Sizes DEF Allocate, TypeOK
<1>3. PICK t \in Free : \A u \in Free : ~ (<<u, t>> \in R)
  <2> HIDE DEF Free, R
  <2> QED  BY <1>1, <1>2, WFMin
<1>4. \A u \in Free : t <= u
  <2> SUFFICES ASSUME NEW u \in Free  PROVE t <= u
    OBVIOUS
  <2>1. t \in Nat /\ u \in Nat
    BY <1>2
  <2>2. ~ (u < t)
    BY <1>3, <2>1
  <2> QED  BY <2>1, <2>2
<1>5. opens' \in Term
  <2>1. opens' = CHOOSE t1 \in Free : \A u \in Free : t1 <= u
    BY DEF Allocate
  <2> HIDE DEF Free
  <2>2. opens' \in Free
    BY <1>4, <2>1
  <2> QED  BY <2>2 DEF Free
<1>6. /\ saved_x' = [saved_x EXCEPT ![opens'] = 0]
      /\ saved_y' = [saved_y EXCEPT ![opens'] = 0]
      /\ spoilt' = spoilt \cup {opens'} /\ opening' = "show"
      /\ UNCHANGED <<text, screen_x, screen_y, running, showing, user_page, cpu,
                     alive, first>>
  BY DEF Allocate, Opening
<1>7. 0 \in Col /\ 0 \in Row /\ opens' \in Task
  BY <1>5, Sizes DEF Col, Row, Task
<1>8. saved_x' \in [Task -> Col] /\ saved_y' \in [Task -> Row]
      /\ \A u \in Task \ {opens'} : saved_x'[u] = saved_x[u] /\ saved_y'[u] = saved_y[u]
  BY <1>6, <1>7 DEF TypeOK
<1>9. \A u \in Task \ {opens'} : Screen(u)' = Screen(u)
  BY <1>6, <1>8 DEF Screen
<1>10. \E t1 \in Term : Spoiling(t1)
  <2>1. PICK t1 \in Term : t1 = opens'
    BY <1>5
  <2>2. Spoiling(t1)
    BY <1>6, <1>9, <2>1 DEF Spoiling, Still, Task
  <2> QED  BY <2>2
<1>11. TypeOK'
  BY <1>5, <1>6, <1>8 DEF TypeOK
<1> QED  BY <1>5, <1>10, <1>11 DEF Effect

(* The end of an opening that nothing has disturbed.                       *)
LEMMA TitleEffect ==
  ASSUME TypeOK, Title
  PROVE  Effect /\ TypeOK'
<1>1. UNCHANGED <<showing, cpu, user_page, alive, opens, first>>
      /\ opening' = "enter" /\ opens \in Term \cup {Nobody}
  BY DEF Title, Opening, TypeOK
<1>2. CASE running # opens /\ Touch
  BY <1>1, <1>2, TouchEffect
<1>3. CASE running = opens /\ Shows(Titled(Screen(opens))) /\ spoilt' = spoilt \ {opens}
  <2>1. running \in Term /\ running \in Task
    BY <1>1, <1>3, Sizes DEF TypeOK, Task
  <2>2. OnPad(Titled(Screen(running)))
    <3>1. OnPad(Home(Cleared(Screen(running))))
      BY <2>1, ScreenOnPad, HomePad
    <3> QED  BY <3>1, NewlinePad DEF Titled, OnPad
  <2>3. Buffer(running) = running /\ running' = running
    BY <1>3, <2>1, Sizes DEF Buffer, Shows
  <2>4. /\ Screen(running)' = Titled(Screen(running))
        /\ \A u \in Term \ {running} : Screen(u)' = Screen(u)
    BY <1>3, <2>1, <2>2, <2>3, ShowsOn
  <2>5. Settling(running)
    BY <1>3, <2>3, <2>4 DEF Settling, Still
  <2>6. spoilt' \subseteq Term
    BY <1>3 DEF TypeOK
  <2>7. TypeOK'
    BY <1>1, <1>3, <2>2, <2>6, ShowsTypes
  <2> QED  BY <2>1, <2>5, <2>7 DEF Effect
<1> QED  BY <1>2, <1>3 DEF Title

LEMMA StepEffect ==
  ASSUME IInv, Next
  PROVE  Effect /\ TypeOK'
<1>1. TypeOK /\ cpu \in Task /\ user_page \in Task /\ Opens
  BY DEF IInv, TypeOK
<1>2. CASE Write
  <2>1. CASE Printf
    <3>1. Touch /\ UNCHANGED tasks /\ opens' = opens /\ opening' = opening
      BY <2>1 DEF Printf, tasks
    <3> QED  BY <1>1, <3>1, TouchEffect DEF tasks, TypeOK
  <2>2. ASSUME NEW s, Writes(s),
               (\E c \in Char : s = PutChar(Screen(running), c))
                 \/ s = Newline(Screen(running))
        PROVE  Effect /\ TypeOK'
    <3>1. Effect /\ OnPad(s)
      BY <1>1, <2>2, WriteEffect
    <3>2. Shows(s) /\ spoilt' = spoilt /\ UNCHANGED tasks
      BY <2>2 DEF Writes
    <3>3. TypeOK'
      BY <1>1, <3>1, <3>2, ShowsTypes DEF tasks, TypeOK
    <3> QED  BY <3>1, <3>3
  <2> QED  BY <1>2, <2>1, <2>2 DEF Write
<1>3. CASE Key
  BY <1>1, <1>3, KeyEffect
<1>4. CASE \E t \in Term : Focus(t)
  BY <1>1, <1>4, RunningEffect DEF Focus, UserVidmap, TypeOK
<1>5. CASE Vidmap \/ \E t \in Term : Click(t)
  <2>1. CASE Vidmap
    BY <1>1, <2>1, NoneEffect DEF Vidmap, TypeOK
  <2>2. CASE \E t \in Term : Click(t)
    BY <1>1, <2>2, NoneEffect DEF Click, UserVidmap, TypeOK
  <2> QED  BY <1>5, <2>1, <2>2
<1>6. CASE \E next \in Task : Reschedule(next)
  BY <1>1, <1>6, RunningEffect DEF Reschedule, TypeOK
<1>7. CASE \E next \in Task : Halt(next)
  BY <1>1, <1>7, RunningEffect DEF Halt, TypeOK
<1>8. CASE Allocate
  BY <1>1, <1>8, AllocateEffect
<1>9. CASE Show
  <2>1. opens \in Term
    BY <1>1, <1>9 DEF Show, At, Opens
  <2> QED  BY <1>1, <1>9, <2>1, NoneEffect DEF Show, UserVidmap, Opening, TypeOK
<1>10. CASE Run
  <2>1. opens \in Term /\ opens \in Task
    BY <1>1, <1>10 DEF Run, At, Opens, Task
  <2> QED  BY <1>1, <1>10, <2>1, RunningEffect DEF Run, Opening, TypeOK
<1>11. CASE Draw \/ Title
  <2>1. CASE Draw
    <3>1. Touch /\ UNCHANGED tasks /\ opens' = opens /\ opening' = opening
      BY <2>1 DEF Draw, tasks
    <3> QED  BY <1>1, <3>1, TouchEffect DEF tasks, TypeOK
  <2> QED  BY <1>1, <1>11, <2>1, TitleEffect
<1>12. CASE Enter
  <2>1. opens \in Term
    BY <1>1, <1>12 DEF Enter, At, Opens
  <2> QED  BY <1>1, <1>12, <2>1, NoneEffect DEF Enter, TypeOK, Task
<1> QED  BY <1>2, <1>3, <1>4, <1>5, <1>6, <1>7, <1>8, <1>9, <1>10, <1>11, <1>12
            DEF Next, Task
-----------------------------------------------------------------------------
(* The invariant                                                           *)

LEMMA CleanPrime ==
  ASSUME NEW t, NEW s, Screen(t)' = s, Clean(s)
  PROVE  Clean(Screen(t))'
BY DEF Clean

LEMMA EffectClean ==
  ASSUME IInv, Effect
  PROVE  (\A t \in Term \ spoilt : Clean(Screen(t)))'
<1>1. \A t \in Term : OnPad(Screen(t)) /\ Screen(t) \in Pad
  BY ScreenOnPad DEF IInv, Task, OnPad
<1>2. \A t \in Term \ spoilt : Clean(Screen(t))
  BY DEF IInv
<1> SUFFICES ASSUME NEW t \in Term, t \notin spoilt'
             PROVE  Clean(Screen(t))'
  OBVIOUS
<1>3. ASSUME Screen(t)' = Screen(t), t \notin spoilt  PROVE Clean(Screen(t))'
  BY <1>2, <1>3, CleanPrime
<1>4. CASE Nothing
  BY <1>3, <1>4 DEF Nothing
<1>5. ASSUME NEW u \in Term, u # t, Still(u)  PROVE Clean(Screen(t))'
  BY <1>3, <1>5 DEF Still
<1>6. ASSUME Edit(t)  PROVE Clean(Screen(t))'
  <2>1. Clean(Screen(t)) /\ OnPad(Screen(t)) /\ Screen(t) \in Pad
    BY <1>1, <1>2, <1>6 DEF Edit
  <2>2. CASE \E c \in Char : Screen(t)' = PutChar(Screen(t), c)
    BY <2>1, <2>2, PutPad, CleanPrime
  <2>3. CASE Screen(t)' = Newline(Screen(t))
    BY <2>1, <2>3, NewlinePad, CleanPrime
  <2>4. CASE Screen(t)' = DeleteLast(Screen(t))
    BY <2>1, <2>4, DeletePad, CleanPrime
  <2> QED  BY <1>6, <2>2, <2>3, <2>4 DEF Edit
<1>7. ASSUME Clearing(t)  PROVE Clean(Screen(t))'
  BY <1>1, <1>7, HomePad, CleanPrime DEF Clearing
<1>8. ~ Spoiling(t)
  BY DEF Spoiling
<1>9. ASSUME Settling(t)  PROVE Clean(Screen(t))'
  <2>1. OnPad(Home(Cleared(Screen(t)))) /\ Clean(Home(Cleared(Screen(t))))
    BY <1>1, HomePad
  <2>2. Clean(Titled(Screen(t)))
    BY <2>1, NewlinePad DEF Titled, OnPad
  <2> QED  BY <1>9, <2>2, CleanPrime DEF Settling
<1> QED  BY <1>4, <1>5, <1>6, <1>7, <1>8, <1>9
            DEF Effect, Edit, Clearing, Spoiling, Settling

LEMMA InitIInv == Init => IInv
<1> SUFFICES ASSUME Init  PROVE IInv
  OBVIOUS
<1>1. 0 \in Col /\ 0 \in Row /\ NullTerminal \in Task
  BY Sizes DEF Col, Row, Task
<1>2. TypeOK
  BY <1>1 DEF Init, TypeOK, Task
<1>3. ASSUME NEW t \in Term  PROVE Clean(Screen(t))
  <2>1. Buffer(t) \in Term
    BY Buffers DEF Task
  <2>2. Screen(t).b = [r \in Row |-> [c \in Col |-> Blank]]
    BY <2>1 DEF Init, Screen
  <2> QED  BY <2>2 DEF Clean
<1> QED  BY <1>2, <1>3 DEF Init, IInv, PageOK, AtHome, Opens

LEMMA PlaceStep ==
  ASSUME IInv, Next
  PROVE  PageOK' /\ AtHome' /\ Opens'
<1>1. PageOK /\ AtHome /\ Opens /\ TypeOK
  BY DEF IInv
<1>2. CASE Write
  BY <1>1, <1>2 DEF Write, Writes, Printf, Touch, Shows, tasks, PageOK, AtHome, Opens
<1>3. CASE Key
  BY <1>1, <1>3 DEF Key, KeyOn, PageOK, AtHome, Opens
<1>4. CASE \E t \in Term : Focus(t)
  BY <1>1, <1>4 DEF Focus, UserVidmap, SetRunning, PageOK, AtHome, Opens
<1>5. CASE Vidmap \/ \E t \in Term : Click(t)
  BY <1>1, <1>5 DEF Vidmap, Click, UserVidmap, cursors, PageOK, AtHome, Opens
<1>6. CASE \E next \in Task : Reschedule(next) \/ Halt(next)
  BY <1>1, <1>6 DEF Reschedule, Halt, SetRunning, PageOK, AtHome, Opens
<1>7. CASE Allocate
  BY <1>1, <1>7, AllocateEffect DEF Allocate, At, Opening, PageOK, AtHome, Opens
<1>8. CASE Show \/ Run
  BY <1>1, <1>8, Sizes
     DEF Show, Run, UserVidmap, At, Opening, cursors, PageOK, AtHome, Opens
<1>9. CASE Draw \/ Title
  BY <1>1, <1>9, Sizes
     DEF Draw, Title, Touch, tasks, At, Opening, PageOK, AtHome, Opens
<1>10. CASE Enter
  BY <1>1, <1>10 DEF Enter, At, cursors, PageOK, AtHome, Opens
<1> QED  BY <1>2, <1>3, <1>4, <1>5, <1>6, <1>7, <1>8, <1>9, <1>10 DEF Next, Task

LEMMA NextIInv == IInv /\ [Next]_vars => IInv'
<1> SUFFICES ASSUME IInv, [Next]_vars  PROVE IInv'
  OBVIOUS
<1>1. CASE Next
  BY <1>1, StepEffect, EffectClean, PlaceStep DEF IInv
<1>2. CASE UNCHANGED vars
  BY <1>2 DEF vars, cursors, tasks, IInv, TypeOK, PageOK, AtHome, Opens, Clean,
              Screen
<1> QED  BY <1>1, <1>2

LEMMA Invariance == Spec => []IInv
BY InitIInv, NextIInv, PTL DEF Spec

(* The cursor stays on the screen, whatever is written, wrapped, scrolled  *)
(* and erased, and whoever interrupts whom.                                *)
THEOREM ScreenTypes == Spec => []TypeOK
<1>1. IInv => TypeOK
  BY DEF IInv
<1> QED  BY <1>1, Invariance, PTL

(* The page a program draws on is never another terminal's.                *)
THEOREM UserPageAlwaysOwn == Spec => []UserPageOwn
<1>1. IInv => UserPageOwn
  BY DEF IInv, PageOK, UserPageOwn
<1> QED  BY <1>1, Invariance, PTL

(* What a task writes, and what the kernel prints for it, is drawn on its  *)
(* own terminal's buffer and no other, once its shell has been interrupted *)
(* for the first time.                                                     *)
THEOREM OutputAlwaysHome == Spec => OutputStaysHome
<1>1. ASSUME IInv, [Next]_vars
      PROVE  [Write /\ cpu \in Term /\ ~first
                => \A t \in Term \ {cpu} :
                     text'[t] = text[t] /\ (t \in spoilt' => t \in spoilt)]_vars
  <2> SUFFICES ASSUME Write, cpu \in Term, ~first, NEW t \in Term \ {cpu}
               PROVE  text'[t] = text[t] /\ (t \in spoilt' => t \in spoilt)
    OBVIOUS
  <2>1. running = cpu /\ running \in Task /\ text \in [Term -> Text]
    BY <1>1 DEF IInv, AtHome, TypeOK, Text, Glyph
  <2>2. Buffer(running) = cpu
    BY <2>1, Sizes DEF Buffer
  <2>3. \/ spoilt' = spoilt \cup {Buffer(running)} /\ text' = text
        \/ spoilt' = spoilt /\ \E b : text' = [text EXCEPT ![Buffer(running)] = b]
    BY DEF Write, Writes, Printf, Touch, Shows
  <2> QED  BY <2>1, <2>2, <2>3
<1> QED  BY <1>1, Invariance, PTL DEF Spec, OutputStaysHome
-----------------------------------------------------------------------------
(* The refinement of Lines                                                 *)

Mapped(t) == IF t \in spoilt THEN << << >> >> ELSE LinesOf(Screen(t))

LEMMA MappedPrime ==
  ASSUME NEW t \in Term, NEW s, Screen(t)' = s, t \notin spoilt'
  PROVE  Mapped(t)' = LinesOf(s)
BY DEF Mapped, LinesOf

LEMMA MappedSame ==
  ASSUME NEW t \in Term, t \in spoilt' <=> t \in spoilt,
         t \in spoilt \/ Screen(t)' = Screen(t)
  PROVE  Mapped(t)' = Mapped(t)
<1>1. CASE t \in spoilt
  BY <1>1 DEF Mapped
<1>2. CASE t \notin spoilt
  BY <1>2, MappedPrime DEF Mapped
<1> QED  BY <1>1, <1>2

LEMMA BecomesIs ==
  ASSUME NEW t \in Term, NEW ls, Still(t), Mapped(t)' = ls
  PROVE  Lines!Becomes(t, ls)
<1>1. \A u \in Term \ {t} : Mapped(u)' = Mapped(u)
  BY MappedSame DEF Still
<1>2. [u \in Term |-> Mapped(u)]' = [[u \in Term |-> Mapped(u)] EXCEPT ![t] = ls]
  BY <1>1
<1> QED  BY <1>2 DEF Lines!Becomes, Mapped

LEMMA InitLines == Init => Lines!Init
<1> SUFFICES ASSUME Init  PROVE Lines!Init
  OBVIOUS
<1>1. ASSUME NEW t \in Term  PROVE Mapped(t) = << << >> >>
  <2>1. OnPad(Screen(t)) /\ Screen(t).x = 0 /\ Screen(t).y = 0
    BY InitIInv, ScreenOnPad DEF IInv, Init, Screen, Task
  <2>2. Home(Screen(t)) = Screen(t)
    BY <2>1 DEF Home, Screen
  <2> QED  BY <2>1, <2>2, EmptyLines DEF Mapped, Init
<1>2. [t \in Term |-> Mapped(t)] = [t \in Term |-> << << >> >>]
  BY <1>1
<1> QED  BY <1>2 DEF Lines!Init, Lines!Empty, Init, Mapped

LEMMA EditLines ==
  ASSUME IInv, NEW t \in Term, Edit(t)
  PROVE  Lines!Change(t)
<1> DEFINE s == Screen(t)
           ls == LinesOf(s)
<1>1. OnPad(s) /\ s \in Pad /\ Clean(s) /\ t \notin spoilt /\ spoilt' = spoilt /\ Still(t)
  BY ScreenOnPad DEF IInv, Edit, Task, OnPad
<1>2. ls = [u \in Term |-> Mapped(u)][t]
  BY <1>1 DEF Mapped
<1>3. PICK w : /\ Mapped(t)' = w
               /\ \/ \E c \in Char : w = Lines!Put(ls, c)
                  \/ w = Lines!NextLine(ls)
                  \/ w = Lines!Erase(ls)
  <2>1. CASE \E c \in Char : Screen(t)' = PutChar(s, c)
    BY <1>1, <2>1, MappedPrime, PutLines
  <2>2. CASE Screen(t)' = Newline(s)
    BY <1>1, <2>2, MappedPrime, NewlineLines
  <2>3. CASE Screen(t)' = DeleteLast(s)
    BY <1>1, <2>3, MappedPrime, EraseLines
  <2> QED  BY <2>1, <2>2, <2>3 DEF Edit
<1>4. Lines!Becomes(t, w)
  BY <1>1, <1>3, BecomesIs
<1> HIDE DEF ls
<1> QED  BY <1>1, <1>2, <1>3, <1>4 DEF Lines!Change, Lines!Becomes, Mapped

LEMMA StepLines == IInv /\ [Next]_vars => [Lines!Next]_(Lines!vars)
<1> SUFFICES ASSUME IInv, [Next]_vars  PROVE [Lines!Next]_(Lines!vars)
  OBVIOUS
<1>1. ASSUME Nothing  PROVE UNCHANGED Lines!vars
  <2>1. \A t \in Term : Mapped(t)' = Mapped(t)
    BY <1>1, MappedSame DEF Nothing
  <2>2. [t \in Term |-> Mapped(t)]' = [t \in Term |-> Mapped(t)]
    BY <2>1
  <2> QED  BY <1>1, <2>2 DEF Lines!vars, Mapped, Nothing
<1>2. CASE UNCHANGED vars
  <2>1. Nothing
    BY <1>2 DEF vars, cursors, Nothing, Screen
  <2> QED  BY <1>1, <2>1
<1>3. ASSUME NEW t \in Term, Clearing(t)  PROVE Lines!Clear(t)
  <2>1. OnPad(Cleared(Screen(t)))
    BY ScreenOnPad, HomePad DEF IInv, Task
  <2>2. Mapped(t)' = << << >> >>
    BY <1>3, <2>1, EmptyLines, MappedPrime DEF Clearing
  <2> QED  BY <1>3, <2>2, BecomesIs DEF Clearing, Lines!Clear, Lines!Empty
<1>4. ASSUME NEW t \in Term, Spoiling(t)  PROVE Lines!Spoil(t)
  <2>1. Mapped(t)' = << << >> >>
    BY <1>4 DEF Spoiling, Mapped
  <2> QED  BY <1>4, <2>1, BecomesIs DEF Spoiling, Lines!Spoil, Lines!Empty
<1>5. ASSUME NEW t \in Term, Settling(t)  PROVE Lines!Open(t)
  <2> DEFINE h == Home(Cleared(Screen(t)))
  <2>1. OnPad(Cleared(Screen(t))) /\ OnPad(h) /\ h \in Pad /\ Clean(h)
    BY ScreenOnPad, HomePad DEF IInv, Task, OnPad
  <2>2. LinesOf(h) = << << >> >>
    BY <2>1, EmptyLines
  <2>3. LinesOf(Newline(h)) = Lines!NextLine(LinesOf(h))
    BY <2>1, NewlineLines
  <2>4. Screen(t)' = Newline(h) /\ t \notin spoilt'
    BY <1>5 DEF Settling, Titled
  <2>5. Mapped(t)' = Lines!NextLine(<< << >> >>)
    BY <2>2, <2>3, <2>4, MappedPrime
  <2> QED  BY <1>5, <2>5, BecomesIs DEF Settling, Lines!Open, Lines!Empty
<1>6. CASE Next
  <2>1. Effect
    BY <1>6, StepEffect
  <2> QED  BY <1>1, <1>3, <1>4, <1>5, <2>1, EditLines DEF Effect, Lines!Next
<1> QED  BY <1>2, <1>6

(* With one cursor and whatever the timer and the keyboard interrupt, each *)
(* terminal has a screen of its own: every step of the kernel is one of    *)
(* Lines on one terminal, or changes nothing that is seen.                 *)
THEOREM LinesImplemented == Spec => ImplementsLines
BY InitLines, StepLines, Invariance, PTL DEF Spec, ImplementsLines, Lines!Spec
=============================================================================

------------------------------- MODULE Lines --------------------------------
(***************************************************************************)
(* What a terminal of HEROS promises on its screen: each terminal has a    *)
(* screen of its own, the last lines of what was written to it, with the   *)
(* cursor at the end. Lines wrap when they are full. Once the kernel has   *)
(* written over it a screen is spoilt, until it is cleared, or opened with *)
(* a title, whose line is left blank here, above.                          *)
(***************************************************************************)
EXTENDS Integers, Sequences, SequencesExt

CONSTANTS Term, Char, Rows, Cols

VARIABLES
  lines,    \* lines[t]: the lines of t, the last one that of the cursor
  spoilt    \* the terminals whose screen shows something else

vars == <<lines, spoilt>>

Blank == " "
Empty == << << >> >>

(* The end of a line that is not written to does not show.                 *)
Trim(line) ==
  LET ends == {n \in 0 .. Len(line) : \A k \in n + 1 .. Len(line) : line[k] = Blank}
  IN SubSeq(line, 1, CHOOSE n \in ends : \A m \in ends : n <= m)

(* The last line becomes this one.                                         *)
WithLast(ls, line) == Append(Front(ls), line)

NextLine(ls) ==
  LET all == Append(WithLast(ls, Trim(Last(ls))), << >>)
  IN IF Len(all) > Rows THEN Tail(all) ELSE all

Put(ls, c) ==
  LET longer == WithLast(ls, Append(Last(ls), c))
  IN IF Len(Last(longer)) = Cols THEN NextLine(longer) ELSE longer

(* At the beginning of a line the last place of the line above is erased.  *)
Erase(ls) ==
  LET above == Last(Front(ls))
  IN IF Last(ls) # << >> THEN WithLast(ls, Front(Last(ls)))
     ELSE IF Len(ls) = 1 THEN ls
     ELSE WithLast(Front(ls),
            [k \in 1 .. Cols - 1 |-> IF k <= Len(above) THEN above[k] ELSE Blank])

Becomes(t, ls) == lines' = [lines EXCEPT ![t] = ls]

(* What a write, a newline or a key makes of the screen.                   *)
Change(t) ==
  /\ t \notin spoilt /\ UNCHANGED spoilt
  /\ \/ \E c \in Char : Becomes(t, Put(lines[t], c))
     \/ Becomes(t, NextLine(lines[t]))
     \/ Becomes(t, Erase(lines[t]))

Clear(t) == spoilt' = spoilt \ {t} /\ Becomes(t, Empty)
Open(t) == spoilt' = spoilt \ {t} /\ Becomes(t, NextLine(Empty))
Spoil(t) == spoilt' = spoilt \cup {t} /\ Becomes(t, Empty)

Init == lines = [t \in Term |-> Empty] /\ spoilt = {}

Next == \E t \in Term : Change(t) \/ Clear(t) \/ Open(t) \/ Spoil(t)

Spec == Init /\ [][Next]_vars
=============================================================================

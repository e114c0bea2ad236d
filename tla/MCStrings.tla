----------------------------- MODULE MCStrings ------------------------------
(* What the routines of Strings promise, over every small block and string. *)
EXTENDS Strings

(* A memory in which no two bytes are the same.                            *)
Distinct == [i \in 1 .. 24 |-> i]
Blank(n) == [i \in 1 .. n |-> 99]

(* memcpy copies, whatever the alignment, when the blocks are apart or the *)
(* destination is the lower one.                                           *)
ASSUME MemcpyCopies ==
  \A dest, src \in 0 .. 11, n \in 0 .. 11 :
    dest <= src \/ src + n <= dest =>
      memcpy(Distinct, dest, src, n) = Store(Distinct, dest, Bytes(Distinct, src, n))

(* memmove copies whatever the overlap.                                    *)
ASSUME MemmoveCopies ==
  \A dest, src \in 0 .. 9, n \in 0 .. 11 :
    memmove(Distinct, dest, src, n) = Store(Distinct, dest, Bytes(Distinct, src, n))

(* memset writes n bytes and no other, whatever the alignment.             *)
ASSUME MemsetFills ==
  \A s \in 0 .. 7, n \in 0 .. 13 :
    memset(Distinct, s, 256 + 77, n) = Store(Distinct, s, [i \in 1 .. n |-> 77])

(* A word or dword of equal bytes is memset of as many units.              *)
ASSUME MemsetUnits ==
  \A n \in 0 .. 4 :
    /\ memset_word(Distinct, 1, 7 * 257, n) = memset(Distinct, 1, 7, 2 * n)
    /\ memset_dword(Distinct, 1, 7 * 16843009, n) = memset(Distinct, 1, 7, 4 * n)

(* Two strings of at most 3 characters, each in 4 bytes, one high and one  *)
(* low: the kernel takes the high one for a negative number.               *)
Char == {65, 66, 200}
Text == SeqOf(Char, 3)
Pair(a, b) == a \o [i \in 1 .. 4 - Len(a) |-> NUL] \o b \o [i \in 1 .. 4 - Len(b) |-> NUL]

(* The comparisons agree on which strings are the same; over 7-bit         *)
(* characters they also agree on the order.                                *)
ASSUME ComparisonsAgree ==
  \A a, b \in Text :
    /\ (strcmp(Pair(a, b), 0, 4) = 1) <=> a = b
    /\ (ece391_strcmp(Pair(a, b), 0, 4) = 0) <=> a = b
    /\ \A n \in 0 .. 4 :
         LET kernel == strncmp(Pair(a, b), 0, 4, n)
             user   == ece391_strncmp(Pair(a, b), 0, 4, n)
         IN /\ (kernel = 0) <=> SubSeq(a, 1, min(n, Len(a))) = SubSeq(b, 1, min(n, Len(b)))
            /\ (kernel = 0) <=> (user = 0)
            /\ 200 \notin Range(a) \union Range(b) => (kernel < 0) <=> (user < 0)

(* A string is copied with its terminator, onto a lower overlapping place  *)
(* too: do_one_file of ece391grep.c moves a partial line down in place.    *)
ASSUME StringsCopied ==
  \A a \in Text, d \in 0 .. 3 :
    /\ StringAt(strcpy(Blank(d) \o Pair(a, << >>), 0, d), 0) = a
    /\ \A n \in 0 .. 4 : Bytes(strncpy(Pair(a, << >>), 4, 0, n), 4, n) =
                           Bytes(Pair(a, << >>), 0, n)

ASSUME StringsReversed ==
  \A a \in Text : StringAt(strrev(Pair(a, << >>), 0), 0) = Reverse(a)

(* The digits that itoa writes give the number back, without a leading     *)
(* zero.                                                                   *)
DigitOf(c) == IF c < 58 THEN c - 48 ELSE c - 55
ASSUME ItoaReads ==
  \A value \in 0 .. 130 \union {4095, 65535}, radix \in {2, 10, 16, 36} :
    LET s == StringAt(itoa(Blank(20), value, 1, radix), 1)
    IN /\ FoldLeft(LAMBDA n, c : n * radix + DigitOf(c), 0, s) = value
       /\ s[1] = lookup(0) => s = << lookup(0) >>
=============================================================================

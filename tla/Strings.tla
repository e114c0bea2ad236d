------------------------------ MODULE Strings -------------------------------
(* The memory and string routines of the kernel library (lib.c) and of the *)
(* user library (ece391support.c). A memory is a sequence of bytes, an     *)
(* address an offset from 0 into it, aligned as the processor's: the word  *)
(* at an address a multiple of 4 is aligned. User routines that do what    *)
(* their kernel namesake does are the same operator.                       *)
EXTENDS Integers, SequencesExt

NUL == 0
At(m, a) == m[a + 1]
Bytes(m, a, n) == SubSeq(m, a + 1, a + n)
Store(m, a, bytes) ==
  SubSeq(m, 1, a) \o bytes \o SubSeq(m, a + Len(bytes) + 1, Len(m))

(* A byte as the kernel's int8_t.                                          *)
Signed(c) == IF c >= 128 THEN c - 256 ELSE c

min(a, b) == IF a < b THEN a ELSE b
max(a, b) == IF a > b THEN a ELSE b

-----------------------------------------------------------------------------
(* Blocks.                                                                 *)

Upward(n) == [i \in 1 .. n |-> i - 1]

(* The string instructions: units of w bytes, one after another.           *)
Movs(m, dest, src, w, units) ==
  FoldLeft(LAMBDA mem, i : Store(mem, dest + i * w, Bytes(mem, src + i * w, w)), m, units)
Stos(m, s, unit, n) ==
  FoldLeft(LAMBDA mem, i : Store(mem, s + i * Len(unit), unit), m, Upward(n))

(* Bytes up to the first aligned address, or all n of them.                *)
Unaligned(a, n) == min(n, (4 - (a % 4)) % 4)

memset(m, s, c, n) ==
  LET byte  == << c % 256 >>
      head  == Unaligned(s, n)
      words == (n - head) \div 4
      done  == head + 4 * words
  IN Stos(Stos(Stos(m, s, byte, head), s + head, byte \o byte \o byte \o byte, words),
          s + done, byte, n - done)

(* n counts units, although the comments of both say bytes.                *)
memset_word(m, s, c, n) == Stos(m, s, << c % 256, (c \div 256) % 256 >>, n)
memset_dword(m, s, c, n) ==
  Stos(m, s, [i \in 1 .. 4 |-> (c \div 256 ^ (i - 1)) % 256], n)

memcpy(m, dest, src, n) ==
  LET head  == Unaligned(dest, n)
      words == (n - head) \div 4
      done  == head + 4 * words
  IN Movs(Movs(Movs(m, dest, src, 1, Upward(head)),
               dest + head, src + head, 4, Upward(words)),
          dest + done, src + done, 1, Upward(n - done))

(* The direction flag stays set after a move downward.                     *)
memmove(m, dest, src, n) ==
  Movs(m, dest, src, 1, IF src >= dest THEN Upward(n) ELSE Reverse(Upward(n)))

-----------------------------------------------------------------------------
(* Strings.                                                                *)

strlen(m, s) ==
  CHOOSE n \in 0 .. Len(m) - s - 1 :
    At(m, s + n) = NUL /\ \A k \in 0 .. n - 1 : At(m, s + k) # NUL
StringAt(m, s) == Bytes(m, s, strlen(m, s))

RECURSIVE strcpy(_, _, _)
strcpy(m, dest, src) ==
  LET stored == Store(m, dest, << At(m, src) >>)
  IN IF At(m, src) = NUL THEN stored ELSE strcpy(stored, dest + 1, src + 1)

(* No terminator when the source has n bytes or more.                      *)
strncpy(m, dest, src, n) ==
  LET k == min(strlen(m, src), n)
  IN Store(m, dest, Bytes(m, src, k) \o [i \in 1 .. n - k |-> NUL])

(* The first place where the comparison of two strings may stop.           *)
Stops(m, s1, s2) ==
  CHOOSE i \in 0 .. strlen(m, s1) :
    /\ At(m, s1 + i) # At(m, s2 + i) \/ At(m, s1 + i) = NUL
    /\ \A k \in 0 .. i - 1 : At(m, s1 + k) = At(m, s2 + k)

strncmp(m, s1, s2, n) ==
  LET i == Stops(m, s1, s2)
  IN IF i < n THEN Signed(At(m, s1 + i)) - Signed(At(m, s2 + i)) ELSE 0
ece391_strncmp(m, s1, s2, n) ==
  LET i == Stops(m, s1, s2)
  IN IF i < n THEN At(m, s1 + i) - At(m, s2 + i) ELSE 0

(* The kernel's strcmp answers 1 for equal strings and -1 otherwise.       *)
strcmp(m, s1, s2) ==
  LET i == Stops(m, s1, s2) IN IF At(m, s1 + i) = At(m, s2 + i) THEN 1 ELSE -1
ece391_strcmp(m, s1, s2) ==
  LET i == Stops(m, s1, s2) IN At(m, s1 + i) - At(m, s2 + i)

(* Pairs of bytes are exchanged from the ends inwards.                     *)
strrev(m, s) ==
  LET end == s + strlen(m, s) - 1
      Swap(mem, i) == Store(Store(mem, s + i, << At(mem, end - i) >>),
                            end - i, << At(mem, s + i) >>)
  IN FoldLeft(Swap, m, Upward(strlen(m, s) \div 2))

lookup(d) == IF d < 10 THEN 48 + d ELSE 55 + d

(* Digits from the lowest place value, then the string is reversed.        *)
RECURSIVE Places(_, _)
Places(newval, radix) ==
  IF newval = 0 THEN << >>
  ELSE << lookup(newval % radix) >> \o Places(newval \div radix, radix)

itoa(m, value, buf, radix) ==
  IF value = 0 THEN Store(m, buf, << lookup(0), NUL >>)
  ELSE strrev(Store(m, buf, Append(Places(value, radix), NUL)), buf)
=============================================================================

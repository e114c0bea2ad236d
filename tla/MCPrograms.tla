----------------------------- MODULE MCPrograms -----------------------------
(* What reaches a program of its command line, for short ones; cat writes  *)
(* the file, and grep prints the lines that hold the string, over every    *)
(* short file and a buffer of four bytes.                                  *)
EXTENDS Programs

(* A command line at 0, the stack of the new task up to 20, a buffer of    *)
(* the program at 21.                                                      *)
Command == {<<99>>, <<99, 97>>}
Args == SeqOf({97, SPACE}, 3) \ {<< >>}
Typed(line) == line \o << NUL >> \o [i \in 1 .. 26 - Len(line) |-> 1]
Loaded(line) == SetNameAndArgs(Typed(line), 0, 20)
Got(line, nbytes) == sys_get_args(Loaded(line).m, Loaded(line).args, 21, nbytes)

(* A program gets what stands after the first space, with a terminator     *)
(* when the buffer is longer than that: the call accepts a buffer of just  *)
(* its length too, and leaves it without one.                              *)
ASSUME ArgumentsArrive ==
  \A c \in Command, a \in Args, nbytes \in 0 .. 5 :
    LET got == Got(c \o << SPACE >> \o a, nbytes)
    IN /\ got.ret = IF Len(a) <= nbytes THEN 0 ELSE -1
       /\ got.ret = 0 => Bytes(got.m, 21, Len(a)) = a
       /\ got.ret = 0 => (At(got.m, 21 + Len(a)) = NUL <=> Len(a) < nbytes)
ASSUME NoArguments ==
  \A c \in Command, nbytes \in 0 .. 5 : Got(c, nbytes).ret = -1

(* The name is kept when there are no arguments. With some, their          *)
(* terminator is its first character: process.c:233 makes room for the     *)
(* characters only.                                                        *)
ASSUME NameKeptWithoutArguments ==
  /\ \A c \in Command : StringAt(Loaded(c).m, Loaded(c).name) = c
  /\ \A c \in Command, a \in Args :
       LET l == Loaded(c \o << SPACE >> \o a) IN StringAt(l.m, l.name) = << >>

(* A buffer that is run a second time, as the literal of init_task_main    *)
(* is at each click of the music button (process.c:527), has lost them.    *)
ASSUME SecondRunHasNoArguments ==
  \A c \in Command, a \in Args :
    LET once == parse_args(Typed(c \o << SPACE >> \o a), 0).m
    IN parse_args(once, 0).args = NULL /\ StringAt(once, 0) = c

BufSize == 4
File == SeqOf({97, NL}, 7) \union {<<98, 97>>, <<97, 98, NL, 98, 98>>, <<98, NL, 97, 98, NL, 97>>}
Stack(byte) == [i \in 1 .. BufSize + 1 |-> byte]

(* The lines of a text, the last one perhaps without a newline.            *)
RECURSIVE LinesOf(_, _)
LinesOf(text, line) ==
  IF text = << >> THEN << line >>
  ELSE IF text[1] = NL THEN << line >> \o LinesOf(Tail(text), << >>)
       ELSE LinesOf(Tail(text), Append(line, text[1]))
Holds(line, s) == \E i \in 1 .. Len(line) - Len(s) + 1 : SubSeq(line, i, i + Len(s) - 1) = s

ASSUME CatWritesTheFile == \A text \in File, n \in 1 .. 3 : Cat(text, n) = text

(* When every line fits the buffer, the lines printed are those that hold  *)
(* the string, in order, wherever the reads cut them.                      *)
Short == {text \in File : \A i \in DOMAIN LinesOf(text, << >>) :
                            Len(LinesOf(text, << >>)[i]) <= BufSize}
ASSUME GrepPrintsTheLines ==
  \A text \in Short, s \in {<<97>>, <<97, 97>>, <<97, 98>>}, byte \in {0, 97} :
    do_one_file(Stack(byte), text, s) =
      SelectSeq(LinesOf(text, << >>), LAMBDA line : Holds(line, s))

(* That needs the byte past the buffer not to be a newline left on the     *)
(* stack: with one, a line that the first read cuts is taken for two.      *)
ASSUME GrepCutsALine ==
  /\ <<NL, 97, 97, 97, 97, NL>> \in Short
  /\ do_one_file(Stack(NL), <<NL, 97, 97, 97, 97, NL>>, <<97, 97, 97, 97>>) = << >>
=============================================================================

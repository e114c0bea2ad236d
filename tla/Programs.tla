------------------------------ MODULE Programs ------------------------------
(* A command line on its way to the program, and the loops of the programs *)
(* over a file they read in blocks, as functions of what the file holds:   *)
(* cat, ls and grep. A read returns as many bytes as asked for, fewer at   *)
(* the end of the file only (file_read, module Files); errors of the calls *)
(* end a program and are left out.                                         *)
EXTENDS Strings

NL == 10
SPACE == 32
NULL == -1

(* The first space ends the name in place: a command line that is used     *)
(* again has no arguments any more.                                        *)
parse_args(m, command) ==
  LET n == strlen(m, command)
      spaces == {i \in 0 .. n - 1 : At(m, command + i) = SPACE}
      first == CHOOSE i \in spaces : \A k \in spaces : i <= k
  IN IF spaces = {} THEN [m |-> m, args |-> NULL]
     ELSE [m |-> Store(m, command + first, << NUL >>), args |-> command + first + 1]

(* sys_execute puts the name at the end of the kernel stack, which is      *)
(* [m, k_esp_base], and the arguments below it, with room for one of the   *)
(* two terminators.                                                        *)
SetNameAndArgs(m, command, k_esp_base) ==
  LET parsed == parse_args(m, command)
      name   == k_esp_base - strlen(parsed.m, command)
      named  == strcpy(parsed.m, name, command)
      args   == name - strlen(named, parsed.args)
  IN IF parsed.args = NULL THEN [m |-> named, name |-> name, args |-> NULL]
     ELSE [m |-> strcpy(named, args, parsed.args), name |-> name, args |-> args]

sys_get_args(m, args, buf, nbytes) ==
  IF args = NULL THEN [m |-> m, ret |-> -1]
  ELSE IF strlen(m, args) > nbytes THEN [m |-> m, ret |-> -1]
  ELSE [m |-> strncpy(m, buf, args, nbytes), ret |-> 0]

-----------------------------------------------------------------------------

(* main of ece391cat.c: what is written, block after block.                *)
RECURSIVE Cat(_, _)
Cat(text, bufsize) ==
  IF text = << >> THEN << >>
  ELSE LET cnt == min(Len(text), bufsize)
       IN SubSeq(text, 1, cnt) \o Cat(SubSeq(text, cnt + 1, Len(text)), bufsize)

(* main of ece391ls.c: a read of the directory gives one name.             *)
Ls(names) == FoldLeft(LAMBDA out, name : out \o Append(name, NL), << >>, names)

-----------------------------------------------------------------------------
(* do_one_file of ece391grep.c.                                            *)

(* Where the line from start ends: at its newline or at last.              *)
LineEnd(data, start, last) ==
  CHOOSE e \in start .. last :
    /\ e = last \/ At(data, e) = NL
    /\ \A k \in start .. e - 1 : At(data, k) # NL

(* Some place of the line is the start of the searched string s; strncmp   *)
(* stops at the NUL now at end.                                            *)
LineHas(data, start, end, s) ==
  \E check \in start .. end - 1 :
    check + Len(s) <= end /\ Bytes(data, check, Len(s)) = s

(* The lines of one buffer, from start on: data, how much of it is kept    *)
(* and the lines printed. data has a byte more than is ever read, looked   *)
(* at when the buffer is full: whatever was on the stack, until a line     *)
(* ends there.                                                             *)
RECURSIVE Round(_, _, _, _, _, _)
Round(data, last, cnt, s, start, out) ==
  LET end    == LineEnd(data, start, last)
      ended  == Store(data, end, << NUL >>)
      found  == IF LineHas(ended, start, end, s)
                THEN Append(out, StringAt(ended, start)) ELSE out
  IN IF At(data, end) # NL /\ cnt # 0 /\ start # 0
     THEN [data |-> strcpy(ended, 0, start), last |-> last - start, out |-> out]
     ELSE IF end + 1 >= last
          THEN [data |-> ended, last |-> 0, out |-> found]
          ELSE Round(ended, last, cnt, s, end + 1, found)

RECURSIVE Reads(_, _, _, _, _)
Reads(data, last, rest, s, out) ==
  LET cnt  == min(Len(data) - 1 - last, Len(rest))
      done == Round(Store(data, last, SubSeq(rest, 1, cnt)), last + cnt, cnt, s, 0, out)
  IN IF cnt = 0 THEN done.out
     ELSE Reads(done.data, done.last, SubSeq(rest, cnt + 1, Len(rest)), s, done.out)

(* The lines of text that are printed, with the array as the stack left it. *)
do_one_file(stack, text, s) == Reads(stack, 0, text, s, << >>)
=============================================================================

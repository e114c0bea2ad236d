------------------------------ MODULE MCFiles -------------------------------
(* A disk for Files: a directory, the RTC and a file of three bytes in two *)
(* blocks of two, stored out of order. In the second inode, which no entry *)
(* names, the slot after the last block holds no block number; the third   *)
(* has a bad block number within the file.                                 *)
EXTENDS Files

MCName == {".", "rtc", "a", "b"}
MCDentries ==
  << [f_name |-> ".",   f_type |-> "dir",  inode |-> 0],
     [f_name |-> "rtc", f_type |-> "rtc",  inode |-> 0],
     [f_name |-> "a",   f_type |-> "file", inode |-> 1] >>
MCLength == [i \in 0 .. 3 |-> << 0, 3, 4, 5 >>[i + 1]]
MCBlockIdx ==
  [i \in 0 .. 3 |->
     [b \in 0 .. 2 |-> << << 0, 0, 0 >>, << 2, 1, 0 >>,
                          << 0, 1, 7 >>, << 1, 7, 2 >> >>[i + 1][b + 1]]]
MCData == [d \in 0 .. 2 |-> [k \in 0 .. 1 |-> << <<1, 2>>, <<3, 4>>, <<5, 6>> >>[d + 1][k + 1]]]
MCText ==
  [i \in 0 .. 3 |-> << << >>, <<5, 6, 3>>, <<1, 2, 3, 4>>, <<3, 4, 1, 1, 5>> >>[i + 1]]

MCOpens == [t \in Task |-> IF t = "t1" THEN {"rtc", "a", Audio} ELSE {"rtc", Audio, ".", "b"}]

(* The loop of read_data, byte by byte: what is left of bufsize, where it  *)
(* is, and the bytes so far; << -1 >> for a failure.                       *)
RECURSIVE Loop(_, _, _, _, _)
Loop(inode, size, pos, b, got) ==
  IF Len(got) = size \/ pos >= Length[inode] THEN got
  ELSE LET byte == Data[BlockIdx[inode][b]][pos - b * Block]
           next == IF pos + 1 - b * Block >= Block THEN b + 1 ELSE b
       IN IF next # b /\ BlockIdx[inode][next] >= NBlocks THEN << -1 >>
          ELSE Loop(inode, size, pos + 1, next, Append(got, byte))

ReadData(inode, offset, size) ==
  IF inode \notin Inode THEN << -1 >>
  ELSE IF BlockIdx[inode][offset \div Block] >= NBlocks THEN << -1 >>
  ELSE Loop(inode, size, offset, offset \div Block, << >>)

(* The equations of module Disk are what the loop computes.                *)
ASSUME ReadDataIsLoop ==
  \A inode \in 0 .. 4 : \A offset \in 0 .. 5 : \A size \in 0 .. 6 :
    (inode \in Inode => offset <= Length[inode]) =>
      ReadData(inode, offset, size) =
        IF ReadFails(inode, offset, size) THEN << -1 >>
        ELSE ReadBytes(inode, offset, size)
=============================================================================

-------------------------------- MODULE Disk --------------------------------
(***************************************************************************)
(* The read-only file system image of HEROS (file_sys.c): the directory    *)
(* and the routine that reads the bytes of a file.                         *)
(***************************************************************************)
EXTENDS Integers, Sequences, FiniteSets

CONSTANTS
  Name,      (* file names, as long as a directory entry allows            *)
  Dentries,  (* the directory: a sequence of entries [f_name, f_type, inode] *)
  Length,    (* Length[i]: length_in_B of the inode i                      *)
  BlockIdx,  (* BlockIdx[i][b]: data_block_idx[b] of the inode i           *)
  NBlocks,   (* n_dblocks                                                  *)
  Block,     (* BLOCK_SIZE_IN_B                                            *)
  Data,      (* Data[d]: the bytes of the data block d                     *)
  Byte,
  Text       (* Text[i]: the bytes that were stored as the file of inode i *)

Inode == DOMAIN Length
Type  == {"rtc", "dir", "file"}

ASSUME BlockAssumption == Block \in Nat \ {0} /\ NBlocks \in Nat
ASSUME InodeAssumption ==
  /\ Length \in [Inode -> Nat]
  /\ DOMAIN BlockIdx = Inode
  /\ \A i \in Inode : \A b \in 0 .. Length[i] \div Block :
       b \in DOMAIN BlockIdx[i] /\ BlockIdx[i][b] \in Nat
ASSUME DataAssumption == Data \in [0 .. NBlocks - 1 -> [0 .. Block - 1 -> Byte]]
ASSUME DentryAssumption ==
  Dentries \in Seq([f_name : Name, f_type : Type, inode : Nat])
(* The image holds the files: one block after the other.                   *)
ASSUME TextAssumption ==
  \A i \in Inode :
    /\ Text[i] \in Seq(Byte) /\ Len(Text[i]) = Length[i]
    /\ \A pos \in 0 .. Length[i] - 1 :
         BlockIdx[i][pos \div Block] < NBlocks =>
           Text[i][pos + 1] = Data[BlockIdx[i][pos \div Block]][pos % Block]
-----------------------------------------------------------------------------
(* read_dentry_by_name: the first entry of that name. A name that is empty *)
(* or too long is the name of no entry.                                    *)
Matches(nm) == {k \in DOMAIN Dentries : Dentries[k].f_name = nm}

Found(nm) == Matches(nm) # {}

Lookup(nm) ==
  Dentries[CHOOSE k \in Matches(nm) : \A l \in Matches(nm) : k <= l]

(* read_data, as a set of equations for its loop over bytes: how many of   *)
(* the size bytes at offset it reads, the block numbers it looks up on the *)
(* way, and the bytes. It looks a block up when it enters it, also when    *)
(* the file or the request ends right there.                               *)

Count(inode, offset, size) ==
  IF offset + size <= Length[inode] THEN size
  ELSE IF offset <= Length[inode] THEN Length[inode] - offset ELSE 0

LookedUp(inode, offset, size) ==
  {BlockIdx[inode][b] : b \in (offset \div Block) ..
                              ((offset + Count(inode, offset, size)) \div Block)}

ReadFails(inode, offset, size) ==
  \/ inode \notin Inode
  \/ \E d \in LookedUp(inode, offset, size) : d >= NBlocks

(* The byte of a file at a position.                                       *)
ByteAt(inode, pos) == Data[BlockIdx[inode][pos \div Block]][pos % Block]

ReadBytes(inode, offset, size) ==
  [k \in 1 .. Count(inode, offset, size) |-> ByteAt(inode, offset + k - 1)]
=============================================================================

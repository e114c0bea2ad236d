------------------------------ MODULE MCSound -------------------------------
(* Sound with small constants for TLC. The routines of the two libraries   *)
(* and the other programs that read files in blocks are evaluated here.    *)
EXTENDS Sound, MCStrings, MCPrograms
=============================================================================

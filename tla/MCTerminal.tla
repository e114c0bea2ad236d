----------------------------- MODULE MCTerminal -----------------------------
(* Terminal with small constants for TLC. The terminals are alike, which   *)
(* the run without liveness uses.                                          *)
EXTENDS Terminal, TLC

Alike == Permutations(Term)
=============================================================================

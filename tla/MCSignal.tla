------------------------------ MODULE MCSignal ------------------------------
(* Signal with small constants for TLC. A task a handles exceptions;       *)
(* task b handles nothing, or exceptions too.                              *)
EXTENDS Signal, TLC

CONSTANTS a, b

MCInstalls == (a :> {1}) @@ (b :> {})
BothInstall == (a :> {1}) @@ (b :> {1})
=============================================================================

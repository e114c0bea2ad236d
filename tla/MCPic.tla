-------------------------------- MODULE MCPic --------------------------------
(* Pic for TLC: two tasks; the tasks stand for model values of the cfg.    *)
(* What is set up beside the IDT, the page tables, is evaluated here too.  *)
EXTENDS Pic, MCPaging, TLC

CONSTANTS a, b
=============================================================================

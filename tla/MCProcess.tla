----------------------------- MODULE MCProcess -----------------------------
(* Process with small constants for TLC.                                   *)
EXTENDS Process

(* What of a PCB a later step may read before it is written: everything    *)
(* of a task, but of a PCB that is free or about to be filled in only its  *)
(* terminal, if it is still on show.                                       *)
Fields(p) ==
  IF present[p] /\ ~(pc = "setup" /\ p = new)
  THEN <<parent[p], having_child_running[p], own_terminal[p], terminal[p],
         pid[p], time[p], name[p], node[p]>>
  ELSE <<present[p], IF p = cur_task THEN terminal[p] ELSE NullTerm>>

(* States that differ only in what no step reads are one state of the run. *)
(* running_term is for Screen, which reads it; here it is only written.    *)
(* After a fault there is nothing left to read.                            *)
Read ==
  IF ~Up THEN <<fault>> ELSE
  <<[p \in Pcb |-> Fields(p)], n_present_pcb, queue, pageVars, valid,
    foreground_task, cur_task, cpuVars, pc, slot, new, reg,
    IF pc \in {"store_n", "store_p"} THEN acc ELSE 0, loopVars>>
=============================================================================

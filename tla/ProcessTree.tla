---------------------------- MODULE ProcessTree ----------------------------
(***************************************************************************)
(* What execute, halt and the scheduler promise together, with every data  *)
(* structure of the kernel taken away: the live tasks form a forest, only  *)
(* a leaf of it ever owns the CPU, a task that calls execute is resumed by *)
(* the halt of the very child it called, and by nothing else.              *)
(*                                                                         *)
(* Process.tla implements this contract with PCBs, a run queue, pages and  *)
(* an interruptible init task.                                             *)
(***************************************************************************)
CONSTANTS
  Task,    (* the tasks that can exist: one per PCB *)
  First,   (* the task the boot code starts *)
  Nobody   (* the parent of a task nobody waits for; not a task *)

VARIABLES
  live,    (* the tasks the scheduler knows *)
  parent,  (* the task that waits for it, of every live task *)
  running  (* the task that owns the CPU *)

vars == <<live, parent, running>>

Children(p) == {c \in live : parent[c] = p}

Leaf(p) == p \in live /\ Children(p) = {}

Init ==
  /\ live = {First}
  /\ parent = [p \in Task |-> Nobody]
  /\ running = First

(* A parentless task becomes known to the scheduler; the CPU stays where   *)
(* it is until the task is first switched to.                              *)
Admit(c) ==
  /\ c \in Task \ live
  /\ live' = live \cup {c}
  /\ UNCHANGED <<parent, running>>

(* execute: the running task hands the CPU to a new child and waits.       *)
Call(c) ==
  /\ c \in Task \ live
  /\ live' = live \cup {c}
  /\ parent' = [parent EXCEPT ![c] = running]
  /\ running' = c

(* halt of a task somebody waits for.                                      *)
Return ==
  /\ parent[running] # Nobody
  /\ live' = live \ {running}
  /\ parent' = [parent EXCEPT ![running] = Nobody]
  /\ running' = parent[running]

(* halt of a task nobody waits for: any leaf that is left may run.         *)
Exit(next) ==
  /\ parent[running] = Nobody
  /\ live' = live \ {running}
  /\ next # running /\ Leaf(next)
  /\ running' = next
  /\ UNCHANGED parent

(* The scheduler moves the CPU to another leaf.                            *)
Switch(next) ==
  /\ Leaf(next)
  /\ running' = next
  /\ UNCHANGED <<live, parent>>

Next ==
  \/ \E c \in Task : Admit(c) \/ Call(c)
  \/ Return
  \/ \E next \in Task : Exit(next) \/ Switch(next)

Spec == Init /\ [][Next]_vars
=============================================================================

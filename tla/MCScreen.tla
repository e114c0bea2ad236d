------------------------------ MODULE MCScreen ------------------------------
(* Screen with small constants for TLC.                                    *)
EXTENDS Screen

(* What was put by of the terminal that runs is never read.                *)
Seen == <<text, screen_x, screen_y,
          [t \in Task \ {running} |-> <<saved_x[t], saved_y[t]>>],
          running, tasks, spoilt>>
=============================================================================

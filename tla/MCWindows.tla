----------------------------- MODULE MCWindows ------------------------------
(* Windows with small constants for TLC: one place, and the status bar     *)
(* with the button of terminal 1. Windows are one place wide.              *)
EXTENDS Windows, TLC

MCInitPos == 0 :> 0 @@ 1 :> 0 @@ 2 :> 0
MCButton == 0 :> None @@ 1 :> 1

(* Of what was drawn only matters whether it is what the terminal holds    *)
(* now; and where the last drag began is not read before the next one.     *)
Fresh(picture) ==
  [c \in Cell |-> IF Len(picture[c]) = 3
                  THEN [picture[c] EXCEPT ![2] = @ = content[picture[c][1]]]
                  ELSE picture[c]]

Read == <<windows, mouse, dragged, IF dragged = None THEN 0 ELSE dragged_mouse,
          writing, shown, empty, flags, new_content,
          Fresh(fbuf), Fresh(vbe_mem), prev_draw, missed>>
=============================================================================

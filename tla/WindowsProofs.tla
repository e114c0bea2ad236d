---------------------------- MODULE WindowsProofs ----------------------------
(* Proofs about Windows: whatever is clicked and dragged, the windows lie   *)
(* one above the other, and none leaves the screen; and when no flag says   *)
(* that something is out of date, nothing is. For any size of screen and    *)
(* windows, any bar and any buttons.                                        *)
EXTENDS Windows, TLAPS

(* The mouse took the dragged window somewhere on it, or just beside it.    *)
Gripped ==
  dragged # None =>
    pos[dragged] <= dragged_mouse /\ dragged_mouse <= pos[dragged] + Width

Inductive == TypeOK /\ Stacked /\ Gripped

-----------------------------------------------------------------------------
(* Places and priorities                                                    *)

LEMMA Numbers ==
  /\ Dim \in Nat /\ Dim >= 1 /\ Width \in Nat /\ Width >= 1
  /\ 0 \in Cell
  /\ \A c \in Cell : c \in Int /\ 0 <= c /\ c <= Dim - 1
  /\ \A p \in Place : p \in Int
BY GeometryAssumption DEF Cell, Place

(* The highest of some windows is one of them.                              *)
LEMMA HighestIn ==
  ASSUME TypeOK, NEW ws \in SUBSET Window, ws # {}
  PROVE  /\ Highest(ws) \in ws
         /\ \A v \in ws : priority[v] <= priority[Highest(ws)]
<1>1. \A w \in ws : priority[w] \in 1 .. 3
  BY DEF TypeOK
<1>2. \E w \in ws : \A v \in ws : priority[v] <= priority[w]
  <2>1. CASE \E w \in ws : priority[w] = 3
    BY <1>1, <2>1
  <2>2. CASE (\A w \in ws : priority[w] # 3) /\ \E w \in ws : priority[w] = 2
    BY <1>1, <2>2
  <2>3. CASE \A w \in ws : priority[w] = 1
    BY <2>3
  <2> QED
    BY <1>1, <2>1, <2>2, <2>3
<1> QED
  BY <1>2 DEF Highest

(* update_priority keeps an order and puts the window on top.               *)
LEMMA PriorityUpdated ==
  ASSUME TypeOK, Stacked, NEW w \in Window, UpdatePriority(w)
  PROVE  /\ priority' \in [Window -> 1 .. 3]
         /\ priority'[w] = 3
         /\ \A u, v \in Window : priority'[u] = priority'[v] => u = v
<1>1. /\ priority[0] \in 1 .. 3 /\ priority[1] \in 1 .. 3 /\ priority[2] \in 1 .. 3
      /\ Window = {0, 1, 2}
  BY DEF TypeOK, Window
<1>2. /\ priority[0] # priority[1] /\ priority[1] # priority[2]
      /\ priority[0] # priority[2]
  BY <1>1 DEF Stacked
<1>3. priority' \in [Window -> 1 .. 3] /\ priority'[w] = 3
  BY DEF UpdatePriority
<1>4. \A v \in Window \ {w} : priority'[v] \in {1, 2}
  BY DEF UpdatePriority
<1>5. ASSUME NEW u \in Window \ {w}, NEW v \in Window \ {w}, u # v
      PROVE  priority'[u] # priority'[v]
  <2>1. Window \ {u, w} = {v} /\ Window \ {v, w} = {u}
    BY <1>1, <1>5
  <2>2. /\ priority'[u] = IF priority[u] > priority[v] THEN 2 ELSE 1
        /\ priority'[v] = IF priority[v] > priority[u] THEN 2 ELSE 1
    BY <1>5, <2>1 DEF UpdatePriority
  <2> QED
    BY <1>1, <1>2, <1>5, <2>2
<1> QED
  BY <1>3, <1>4, <1>5

(* What the RTC's handler, the tasks and the keyboard leave alone is all    *)
(* the invariant speaks of beside the types.                                *)
LEMMA WindowsKept ==
  ASSUME Inductive, UNCHANGED <<windows, pointer>>, TypeOK'
  PROVE  Inductive'
BY DEF Inductive, Stacked, Gripped, windows, pointer

-----------------------------------------------------------------------------
(* The steps                                                                *)

LEMMA InitInductive == Init => Inductive
<1> SUFFICES ASSUME Init  PROVE Inductive
  OBVIOUS
<1>1. pos \in [Window -> Place]
  BY Numbers, GeometryAssumption DEF Init, Cell, Place
<1>2. priority \in [Window -> 1 .. 3]
  BY DEF Init, Window
<1>3. content \in [Window -> 0 .. 1] /\ active \in [Window -> BOOLEAN]
  BY DEF Init
<1>4. /\ mouse \in Cell /\ dragged_mouse \in Cell /\ prev_draw \in Cell
      /\ dragged = None /\ empty = None
  BY Numbers DEF Init
<1>5. /\ writing = FALSE /\ shown = TRUE /\ missed = FALSE /\ new_content = TRUE
      /\ need_redraw_background = FALSE /\ need_change_focus = FALSE
  BY DEF Init
<1>6. TypeOK
  BY <1>1, <1>2, <1>3, <1>4, <1>5 DEF TypeOK
<1>7. Stacked /\ Gripped
  BY DEF Init, Stacked, Gripped, Window
<1> QED
  BY <1>6, <1>7 DEF Inductive

LEMMA PressInductive ==
  ASSUME Inductive, NEW to \in Cell, Press(to)
  PROVE  Inductive'
<1> USE DEF Inductive
<1>1. /\ mouse' = to /\ pos' = pos /\ dragged' = InWhichTerminal(mouse)
      /\ mouse \in Cell
      /\ UNCHANGED <<content, writing, empty, new_content, screen>>
  BY DEF Press, Packet, TypeOK
<1>2. active' \in [Window -> BOOLEAN] /\ need_redraw_background' \in BOOLEAN
  BY DEF Press, Toggle, TypeOK
<1>3. CASE dragged' = None
  <2>1. UNCHANGED <<need_change_focus, shown, priority, dragged_mouse>>
    BY <1>3 DEF Press
  <2>2. TypeOK'
    BY <1>1, <1>2, <1>3, <2>1 DEF TypeOK, screen
  <2> QED
    BY <1>3, <2>1, <2>2 DEF Stacked, Gripped
<1>4. CASE dragged' # None
  <2>1. /\ need_change_focus' = TRUE /\ shown' \in BOOLEAN
        /\ UpdatePriority(dragged') /\ dragged_mouse' = mouse
    BY <1>4 DEF Press
  <2> DEFINE there == {w \in Window : Hits(w, mouse)}
  <2>2. there # {} /\ dragged' = Highest(there)
    BY <1>1, <1>4 DEF InWhichTerminal
  <2>3. dragged' \in Window /\ Hits(dragged', mouse)
    <3>1. there \in SUBSET Window
      OBVIOUS
    <3> HIDE DEF there
    <3>2. dragged' \in there
      BY <2>2, <3>1, HighestIn
    <3> QED
      BY <3>2 DEF there
  <2>4. /\ priority' \in [Window -> 1 .. 3] /\ priority'[dragged'] = 3
        /\ \A u, v \in Window : priority'[u] = priority'[v] => u = v
    <3> DEFINE d == dragged'
    <3>1. d \in Window /\ UpdatePriority(d)
      BY <2>1, <2>3
    <3> HIDE DEF d
    <3>2. /\ priority' \in [Window -> 1 .. 3] /\ priority'[d] = 3
          /\ \A u, v \in Window : priority'[u] = priority'[v] => u = v
      BY <3>1, PriorityUpdated
    <3> QED
      BY <3>2 DEF d
  <2>5. TypeOK'
    BY <1>1, <1>2, <2>1, <2>3, <2>4 DEF TypeOK, screen
  <2>6. Stacked' /\ Gripped'
    BY <1>1, <2>1, <2>3, <2>4 DEF Stacked, Gripped, Hits
  <2> QED
    BY <2>5, <2>6
<1> QED
  BY <1>3, <1>4

(* A window that is let go is put where the mouse has taken it: at most its *)
(* own width out of the screen.                                             *)
LEMMA ReleaseInductive ==
  ASSUME Inductive, NEW to \in Cell, Release(to)
  PROVE  Inductive'
<1> USE DEF Inductive
<1>1. /\ mouse' = to /\ dragged' = None
      /\ UNCHANGED <<content, writing, empty, new_content, screen>>
      /\ UNCHANGED <<priority, active, dragged_mouse, shown, need_change_focus>>
  BY DEF Release, Packet
<1>2. pos' \in [Window -> Place] /\ need_redraw_background' \in BOOLEAN
  <2>1. CASE dragged = None
    BY <2>1 DEF Release, TypeOK
  <2>2. CASE dragged # None
    <3>1. /\ pos' = [pos EXCEPT ![dragged] = @ + (mouse - dragged_mouse)]
          /\ need_redraw_background' = TRUE
      BY <2>2 DEF Release, MouseMoved
    <3>2. /\ pos \in [Window -> Place] /\ dragged \in Window
          /\ mouse \in Cell /\ dragged_mouse \in Cell /\ pos[dragged] \in Place
      BY <2>2 DEF TypeOK
    <3>3. pos[dragged] + (mouse - dragged_mouse) \in Place
      BY <2>2, <3>2, Numbers DEF Gripped, Place, Cell
    <3> QED
      BY <3>1, <3>2, <3>3
  <2> QED
    BY <2>1, <2>2
<1>3. TypeOK'
  BY <1>1, <1>2 DEF TypeOK, screen
<1> QED
  BY <1>1, <1>3 DEF Stacked, Gripped

LEMMA NextInductive == Inductive /\ [Next]_vars => Inductive'
<1> SUFFICES ASSUME Inductive, [Next]_vars  PROVE Inductive'
  OBVIOUS
<1>1. TypeOK
  BY DEF Inductive
<1>2. ASSUME NEW to \in Cell, Press(to) \/ Drag(to) \/ Release(to)
      PROVE  Inductive'
  <2>1. CASE Drag(to)
    <3>1. /\ mouse' = to
          /\ UNCHANGED <<windows, dragged, dragged_mouse, terminals, flags,
                         new_content, screen>>
      BY <2>1 DEF Drag, Packet, terminals
    <3>2. TypeOK'
      BY <1>1, <3>1 DEF TypeOK, windows, terminals, flags, screen
    <3> QED
      BY <3>1, <3>2 DEF Inductive, Stacked, Gripped, windows
  <2> QED
    BY <1>2, <2>1, PressInductive, ReleaseInductive
<1>3. ASSUME NEW clock \in BOOLEAN, NEW fish \in BOOLEAN, RtcInterrupt(clock, fish)
      PROVE  Inductive'
  <2>1. UNCHANGED <<windows, pointer, terminals>>
    BY <1>3 DEF RtcInterrupt
  <2>2. /\ need_redraw_background' = FALSE /\ need_change_focus' = FALSE
        /\ new_content' \in BOOLEAN /\ missed' \in BOOLEAN /\ prev_draw' = mouse
    BY <1>1, <1>3 DEF RtcInterrupt, UpdateScreen, ShowScreen, TypeOK
  <2>3. TypeOK'
    BY <1>1, <2>1, <2>2 DEF TypeOK, windows, pointer, terminals
  <2> QED
    BY <2>1, <2>3, WindowsKept
<1>4. ASSUME (\E t \in Writers : Store(t)) \/ Stored \/ (\E t \in Window : Key(t))
             \/ (\E t \in Exits : Exit(t)) \/ Open
      PROVE  Inductive'
  <2>1. UNCHANGED <<windows, pointer, flags, screen>>
    BY <1>4 DEF Store, Stored, Key, Exit, Open, Others
  <2>2. shown' \in BOOLEAN /\ writing' \in BOOLEAN /\ new_content' \in BOOLEAN
    BY <1>1, <1>4 DEF Store, Stored, Key, Exit, Open, TypeOK
  <2>3. content' \in [Window -> 0 .. 1]
    <3>1. CASE \E t \in Writers : Store(t)
      <4>1. PICK t \in Writers : Store(t)
        BY <3>1
      <4>2. t \in Window /\ content' = [content EXCEPT ![t] = 1 - @]
        BY <4>1, UsersAssumption DEF Store
      <4>3. content \in [Window -> 0 .. 1] /\ 1 - content[t] \in 0 .. 1
        BY <1>1, <4>2 DEF TypeOK
      <4> QED
        BY <4>2, <4>3
    <3>2. CASE ~ \E t \in Writers : Store(t)
      BY <1>1, <1>4, <3>2 DEF Stored, Key, Exit, Open, TypeOK
    <3> QED
      BY <3>1, <3>2
  <2>4. empty' \in Window \cup {None}
    BY <1>1, <1>4, UsersAssumption DEF Store, Stored, Key, Exit, Open, TypeOK
  <2>5. TypeOK'
    BY <1>1, <2>1, <2>2, <2>3, <2>4 DEF TypeOK, windows, pointer, flags, screen
  <2> QED
    BY <2>1, <2>5, WindowsKept
<1>5. CASE UNCHANGED vars
  <2>1. TypeOK'
    BY <1>1, <1>5 DEF TypeOK, vars, windows, pointer, terminals, flags, screen
  <2> QED
    BY <1>5, <2>1, WindowsKept DEF vars
<1> QED
  BY <1>2, <1>3, <1>4, <1>5 DEF Next

LEMMA AlwaysInductive == Spec => []Inductive
<1> QED
  BY InitInductive, NextInductive, PTL DEF Spec

-----------------------------------------------------------------------------
(* The picture                                                              *)

Image == {Background, StatusBar} \cup (Window \X (0 .. 1) \X BOOLEAN)

Uncovered(c) == \A w \in Window : ~ Covers(w, c)

(* The screen shows fbuf, but for the pointer.                              *)
Shown ==
  /\ fbuf \in [Cell -> Image]
  /\ vbe_mem \in [Cell -> Image \cup {Pointer}]
  /\ vbe_mem[prev_draw] = Pointer
  /\ \A c \in Cell \ {prev_draw} : vbe_mem[c] = fbuf[c]

(* Where no window is, nothing is left of one.                              *)
DeskClean ==
  ~ missed /\ ~ need_redraw_background =>
    \A c \in Cell \ Bar : Uncovered(c) => fbuf[c] = Background

(* What the flags do not call out of date was drawn as it is.               *)
Drawn == Settled => \A c \in Cell \ Bar : fbuf[c] = DrawWindows(Desk)[c]

Picture == Inductive /\ Shown /\ DeskClean /\ Drawn

(* The pointer looks like nothing else.                                     *)
LEMMA Images ==
  /\ Pointer \notin Image
  /\ Desk \in [Cell -> Image]
  /\ \A c \in Cell \ Bar : Desk[c] = Background
  /\ \A w, b, f : <<w, b, f>> # Background
<1>1. /\ Len(Pointer) = 2 /\ Len(Background) = 0 /\ Len(StatusBar) = 1
  BY DEF Pointer, Background, StatusBar
<1>2. \A w, b, f : Len(<<w, b, f>>) = 3
  OBVIOUS
<1>3. \A p \in Window \X (0 .. 1) \X BOOLEAN : Len(p) = 3
  <2> SUFFICES ASSUME NEW w \in Window, NEW b \in 0 .. 1, NEW f \in BOOLEAN
               PROVE  Len(<<w, b, f>>) = 3
    OBVIOUS
  <2> QED  BY <1>2
<1>4. Pointer \notin Image
  BY <1>1, <1>3 DEF Image
<1>5. Desk \in [Cell -> Image] /\ \A c \in Cell \ Bar : Desk[c] = Background
  BY DEF Desk, Image
<1> QED  BY <1>1, <1>2, <1>4, <1>5

(* What is drawn over a picture: the highest window there, if there is one. *)
LEMMA DrawFacts ==
  ASSUME TypeOK, NEW under \in [Cell -> Image]
  PROVE  /\ DrawWindows(under) \in [Cell -> Image]
         /\ \A c \in Cell : Uncovered(c) => DrawWindows(under)[c] = under[c]
         /\ \A c \in Cell : ~ Uncovered(c) =>
              LET last == Highest({w \in Window : Covers(w, c)})
              IN  DrawWindows(under)[c] = Pixel(last, priority[last] = 3)
<1> DEFINE there(c) == {w \in Window : Covers(w, c)}
           last(c) == Highest(there(c))
           D == DrawWindows(under)
<1>1. D = [c \in Cell |-> IF there(c) = {} THEN under[c]
                          ELSE Pixel(last(c), priority[last(c)] = 3)]
  BY DEF DrawWindows
<1>2. \A c : Uncovered(c) <=> there(c) = {}
  BY DEF Uncovered
<1> HIDE DEF D
<1>3. ASSUME NEW c \in Cell, ~ Uncovered(c)
      PROVE  D[c] = Pixel(last(c), priority[last(c)] = 3) /\ D[c] \in Image
  <2>1. there(c) # {} /\ there(c) \in SUBSET Window
    BY <1>2, <1>3
  <2>2. last(c) \in there(c)
    <3> HIDE DEF there
    <3> QED  BY <2>1, HighestIn
  <2>3. last(c) \in Window
    BY <2>1, <2>2
  <2>4. D[c] = Pixel(last(c), priority[last(c)] = 3)
    BY <1>1, <2>1
  <2> HIDE DEF last
  <2>5. content[last(c)] \in 0 .. 1 /\ (priority[last(c)] = 3) \in BOOLEAN
    BY <2>3 DEF TypeOK
  <2>6. Pixel(last(c), priority[last(c)] = 3) \in Window \X (0 .. 1) \X BOOLEAN
    BY <2>3, <2>5 DEF Pixel
  <2> QED  BY <2>4, <2>6 DEF Image
<1>4. ASSUME NEW c \in Cell, Uncovered(c)
      PROVE  D[c] = under[c] /\ D[c] \in Image
  BY <1>1, <1>2, <1>4
<1>5. D \in [Cell -> Image]
  <2>1. \A c \in Cell : D[c] \in Image
    BY <1>3, <1>4
  <2>2. D = [c \in Cell |-> D[c]]
    BY <1>1
  <2> QED  BY <2>1, <2>2
<1> QED  BY <1>3, <1>4, <1>5 DEF D

LEMMA InitPicture == Init => Picture
<1> SUFFICES ASSUME Init  PROVE Picture
  OBVIOUS
<1>1. Inductive /\ TypeOK
  BY InitInductive DEF Inductive
<1>2. fbuf = DrawWindows(Desk) /\ fbuf \in [Cell -> Image] /\ Desk \in [Cell -> Image]
  BY <1>1, DrawFacts, Images DEF Init
<1>3. prev_draw = 0 /\ 0 \in Cell /\ vbe_mem = [fbuf EXCEPT ![0] = Pointer]
  BY Numbers DEF Init
<1>4. Shown
  BY <1>2, <1>3 DEF Shown
<1>5. DeskClean
  BY <1>1, <1>2, DrawFacts, Images DEF DeskClean
<1>6. Drawn
  BY <1>2 DEF Drawn
<1> QED  BY <1>1, <1>4, <1>5, <1>6 DEF Picture

(* The handler of the RTC: fbuf.                                            *)
LEMMA UpdateFacts ==
  ASSUME Picture, NEW clock \in BOOLEAN, NEW fish \in BOOLEAN,
         RtcInterrupt(clock, fish)
  PROVE  /\ fbuf' \in [Cell -> Image]
         /\ DeskClean' /\ Drawn'
         /\ \/ clock \/ need_redraw_background
            \/ shown /\ (OutOfDate \/ fish) /\ \E w \in Window : active[w]
            \/ fbuf' = fbuf
<1> DEFINE draw == shown /\ (OutOfDate \/ fish)
           under == IF clock THEN [c \in Cell |-> IF c \in Bar THEN StatusBar ELSE fbuf[c]]
                    ELSE fbuf
           back == IF need_redraw_background THEN Desk ELSE under
<1>1. TypeOK /\ fbuf \in [Cell -> Image] /\ DeskClean /\ Drawn
  BY DEF Picture, Inductive, Shown
<1>2. /\ fbuf' = IF draw THEN DrawWindows(back) ELSE back
      /\ new_content' = (new_content /\ ~ draw)
      /\ need_redraw_background' = FALSE /\ need_change_focus' = FALSE
      /\ missed' = IF shown THEN missed /\ ~ need_redraw_background
                   ELSE missed \/ need_redraw_background \/ need_change_focus
      /\ UNCHANGED <<windows, pointer, terminals>>
  BY DEF RtcInterrupt, UpdateScreen
<1>3. StatusBar \in Image
  BY DEF Image
<1>4. under \in [Cell -> Image] /\ \A c \in Cell \ Bar : under[c] = fbuf[c]
  BY <1>1, <1>3
<1> HIDE DEF under
<1>5. back \in [Cell -> Image]
  BY <1>4, Images
<1>6. ASSUME NEW c \in Cell \ Bar
      PROVE  back[c] = IF need_redraw_background THEN Background ELSE fbuf[c]
  BY <1>4, Images
<1>7. (need_redraw_background => back = Desk) /\ (~ need_redraw_background => back = under)
  OBVIOUS
<1>8. ~ clock => under = fbuf
  BY DEF under
<1>9. draw \in BOOLEAN /\ (draw <=> shown /\ (OutOfDate \/ fish))
  BY <1>1 DEF OutOfDate, TypeOK
<1> HIDE DEF back, draw
<1>10. fbuf' \in [Cell -> Image]
  BY <1>1, <1>2, <1>5, DrawFacts
<1>11. windows' = windows /\ content' = content /\ writing' = writing
  BY <1>2 DEF terminals
<1>12. /\ \A c : Uncovered(c)' <=> Uncovered(c)
       /\ DrawWindows(Desk)' = DrawWindows(Desk)
  <2>1. priority' = priority /\ active' = active /\ pos' = pos /\ content' = content
    BY <1>11 DEF windows
  <2> QED  BY <2>1 DEF Uncovered, Covers, DrawWindows, Highest, Pixel, Desk
<1>13. ASSUME ~ missed'
       PROVE  /\ ~ missed \/ need_redraw_background
              /\ ~ shown => ~ missed /\ ~ need_redraw_background /\ ~ need_change_focus
  BY <1>1, <1>2, <1>13 DEF TypeOK
<1>14. ASSUME ~ missed', NEW c \in Cell \ Bar, Uncovered(c)
       PROVE  fbuf'[c] = Background
  <2>1. back[c] = Background
    <3>1. CASE need_redraw_background
      BY <1>6, <3>1
    <3>2. CASE ~ need_redraw_background
      BY <1>1, <1>6, <1>13, <1>14, <3>2 DEF DeskClean
    <3> QED  BY <3>1, <3>2
  <2>2. CASE draw
    BY <1>1, <1>2, <1>5, <1>14, <2>1, <2>2, DrawFacts
  <2>3. CASE ~ draw
    BY <1>2, <2>1, <2>3
  <2> QED  BY <2>2, <2>3
<1>15. DeskClean'
  BY <1>12, <1>14 DEF DeskClean
<1>16. ASSUME Settled', NEW c \in Cell \ Bar
       PROVE  fbuf'[c] = DrawWindows(Desk)[c]
  <2>1. ~ missed' /\ ~ new_content' /\ ~ writing
    BY <1>11, <1>16 DEF Settled
  <2>2. Desk \in [Cell -> Image] /\ Desk[c] = Background
    BY Images
  <2>3. CASE Uncovered(c)
    BY <1>1, <1>14, <2>1, <2>2, <2>3, DrawFacts
  <2>4. CASE ~ Uncovered(c) /\ draw
    <3> DEFINE last == Highest({w \in Window : Covers(w, c)})
    <3>1. DrawWindows(Desk)[c] = Pixel(last, priority[last] = 3)
      BY <1>1, <2>2, <2>4, DrawFacts
    <3>2. DrawWindows(back)[c] = Pixel(last, priority[last] = 3)
      BY <1>1, <1>5, <2>4, DrawFacts
    <3> HIDE DEF last
    <3> QED  BY <1>2, <2>4, <3>1, <3>2
  <2>5. CASE ~ draw
    <3>1. ~ new_content
      BY <1>1, <1>2, <2>1, <2>5 DEF TypeOK
    <3>2. ~ missed /\ ~ need_redraw_background /\ ~ need_change_focus
      <4>1. CASE ~ shown
        BY <1>13, <2>1, <4>1
      <4>2. CASE shown
        BY <1>9, <1>13, <2>1, <2>5, <4>2 DEF OutOfDate
      <4> QED  BY <4>1, <4>2
    <3>3. Settled
      BY <2>1, <3>1, <3>2 DEF Settled
    <3>4. fbuf'[c] = fbuf[c]
      BY <1>2, <1>6, <2>5, <3>2
    <3> QED  BY <1>1, <3>3, <3>4 DEF Drawn
  <2> QED  BY <2>3, <2>4, <2>5
<1>17. Drawn'
  BY <1>12, <1>16 DEF Drawn
<1>18. ASSUME ~ clock, ~ need_redraw_background,
              ~ (shown /\ (OutOfDate \/ fish) /\ \E w \in Window : active[w])
       PROVE  fbuf' = fbuf
  <2>1. back = fbuf
    BY <1>7, <1>8, <1>18
  <2>2. CASE ~ draw
    BY <1>2, <2>1, <2>2
  <2>3. CASE draw
    <3>1. \A w \in Window : ~ active[w]
      BY <1>9, <1>18, <2>3
    <3>2. \A c \in Cell : Uncovered(c)
      BY <3>1 DEF Uncovered, Covers
    <3>3. /\ fbuf' = DrawWindows(fbuf)
          /\ \A c \in Cell : DrawWindows(fbuf)[c] = fbuf[c]
      BY <1>1, <1>2, <2>1, <2>3, <3>2, DrawFacts
    <3> QED  BY <1>1, <1>10, <3>3
  <2> QED  BY <2>2, <2>3
<1> QED  BY <1>10, <1>15, <1>17, <1>18

(* The handler of the RTC: the screen.                                      *)
LEMMA RtcPicture ==
  ASSUME Picture, NEW clock \in BOOLEAN, NEW fish \in BOOLEAN,
         RtcInterrupt(clock, fish)
  PROVE  Shown' /\ DeskClean' /\ Drawn'
<1> DEFINE need == \/ clock \/ need_redraw_background
                   \/ shown /\ (OutOfDate \/ fish) /\ \E w \in Window : active[w]
           onscreen == IF need THEN fbuf' ELSE vbe_mem
<1>1. TypeOK /\ Shown
  BY DEF Picture, Inductive
<1>2. fbuf' \in [Cell -> Image] /\ (need \/ fbuf' = fbuf)
  BY UpdateFacts
<1>3. /\ vbe_mem' = [[onscreen EXCEPT ![prev_draw] = fbuf'[prev_draw]]
                       EXCEPT ![mouse] = Pointer]
      /\ prev_draw' = mouse
  BY DEF RtcInterrupt, ShowScreen, Patched
<1>4. mouse \in Cell /\ prev_draw \in Cell
  BY <1>1 DEF TypeOK
<1>5. /\ onscreen \in [Cell -> Image \cup {Pointer}]
      /\ \A c \in Cell \ {prev_draw} : onscreen[c] = fbuf'[c]
  BY <1>1, <1>2 DEF Shown
<1> HIDE DEF onscreen, need
<1>6. Shown'
  BY <1>2, <1>3, <1>4, <1>5 DEF Shown
<1> QED  BY <1>6, UpdateFacts

(* A change of the windows or of what they show is called out of date.      *)
LEMMA OthersPicture ==
  ASSUME Picture, [Next]_vars,
         ~ \E clock, fish \in BOOLEAN : RtcInterrupt(clock, fish)
  PROVE  Shown' /\ DeskClean' /\ Drawn'
<1>1. TypeOK /\ Shown /\ DeskClean /\ Drawn
  BY DEF Picture, Inductive
<1>2. UNCHANGED screen
  BY DEF Next, Press, Drag, Release, Packet, Store, Stored, Key, Exit, Open,
         Others, vars
<1>3. Shown'
  BY <1>1, <1>2 DEF Shown, screen
<1>4. /\ need_redraw_background' \/ (pos' = pos /\ active' = active
                                     /\ ~ need_redraw_background)
      /\ need_change_focus' \/ (priority' = priority /\ ~ need_change_focus)
      /\ writing' \/ new_content' \/ (content' = content /\ ~ writing /\ ~ new_content)
  <2>1. ASSUME NEW to \in Cell, Press(to)
        PROVE  /\ need_redraw_background' \/ (pos' = pos /\ active' = active
                                     /\ ~ need_redraw_background)
               /\ need_change_focus' \/ (priority' = priority /\ ~ need_change_focus)
               /\ UNCHANGED <<content, writing, new_content>>
    BY <1>1, <2>1 DEF Press, Packet, Toggle, TypeOK
  <2>2. ASSUME NEW to \in Cell, Release(to)
        PROVE  /\ need_redraw_background' \/ (pos' = pos /\ active' = active
                                     /\ ~ need_redraw_background)
               /\ need_change_focus' \/ (priority' = priority /\ ~ need_change_focus)
               /\ UNCHANGED <<content, writing, new_content>>
    BY <1>1, <2>2 DEF Release, Packet, TypeOK
  <2>3. ASSUME NEW to \in Cell, Drag(to)
        PROVE  UNCHANGED <<windows, flags, content, writing, new_content>>
    BY <2>3 DEF Drag, Packet
  <2>4. ASSUME (\E t \in Writers : Store(t)) \/ Stored
        PROVE  UNCHANGED <<windows, flags>> /\ (writing' \/ new_content')
    BY <2>4 DEF Store, Stored, Others
  <2>5. ASSUME (\E t \in Window : Key(t)) \/ (\E t \in Exits : Exit(t)) \/ Open
        PROVE  UNCHANGED <<windows, flags, content, writing, new_content>>
    BY <2>5 DEF Key, Exit, Open, Others
  <2>6. CASE UNCHANGED vars
    BY <2>6 DEF vars, windows, flags, terminals
  <2> QED  BY <2>1, <2>2, <2>3, <2>4, <2>5, <2>6 DEF Next, windows, flags
<1>5. ASSUME ~ missed', ~ need_redraw_background', NEW c \in Cell \ Bar, Uncovered(c)'
      PROVE  fbuf'[c] = Background
  <2>1. pos' = pos /\ active' = active /\ ~ need_redraw_background
    BY <1>4, <1>5
  <2>2. Uncovered(c) /\ ~ missed /\ fbuf' = fbuf
    BY <1>2, <1>5, <2>1 DEF Uncovered, Covers, screen
  <2> QED  BY <1>1, <2>1, <2>2 DEF DeskClean
<1>6. DeskClean'
  BY <1>5 DEF DeskClean
<1>7. ASSUME Settled', NEW c \in Cell \ Bar
      PROVE  fbuf'[c] = DrawWindows(Desk)'[c]
  <2>1. /\ pos' = pos /\ active' = active /\ priority' = priority
        /\ content' = content /\ fbuf' = fbuf /\ Settled
    BY <1>2, <1>4, <1>7 DEF Settled, screen
  <2>2. DrawWindows(Desk)' = DrawWindows(Desk)
    BY <2>1 DEF Covers, DrawWindows, Highest, Pixel, Desk
  <2> QED  BY <1>1, <2>1, <2>2 DEF Drawn
<1>8. Drawn'
  BY <1>7 DEF Drawn
<1> QED  BY <1>3, <1>6, <1>8

LEMMA AlwaysPicture == Spec => []Picture
<1>1. Picture /\ [Next]_vars => Picture'
  BY NextInductive, RtcPicture, OthersPicture DEF Picture
<1> QED  BY InitPicture, <1>1, PTL DEF Spec

-----------------------------------------------------------------------------
(* The theorems                                                             *)

(* update_priority, called for whatever was pressed, leaves the windows one *)
(* above the other, and the mouse drags the one on top.                     *)
THEOREM AlwaysStacked == Spec => []Stacked
<1>1. Inductive => Stacked
  BY DEF Inductive
<1> QED
  BY <1>1, AlwaysInductive, PTL

(* However a window is dragged, a part of it can still be clicked: the      *)
(* mouse handler moves it only by as much as the mouse on it has moved.     *)
THEOREM WindowsTypes == Spec => []TypeOK
<1>1. Inductive => TypeOK
  BY DEF Inductive
<1> QED
  BY <1>1, AlwaysInductive, PTL

(* Whenever the flags say that nothing is left to be drawn, the screen      *)
(* shows above the status bar what the windows hold, the top one at each    *)
(* place, and one pointer: update_screen needs no more than the flags.      *)
THEOREM PictureAlwaysTrue == Spec => []PictureTrue
<1>1. Picture => PictureTrue
  <2> SUFFICES ASSUME Picture, Settled  PROVE UpToDate
    BY DEF PictureTrue
  <2>1. prev_draw \in Cell /\ Shown /\ Drawn
    BY DEF Picture, Inductive, TypeOK
  <2>2. {c \in Cell : vbe_mem[c] = Pointer} = {prev_draw}
    <3>1. \A c \in Cell \ {prev_draw} : vbe_mem[c] # Pointer
      BY <2>1, Images DEF Shown
    <3> QED  BY <2>1, <3>1 DEF Shown
  <2>3. \A c \in Cell \ (Bar \cup {prev_draw}) : vbe_mem[c] = DrawWindows(Desk)[c]
    BY <2>1 DEF Shown, Drawn
  <2> QED  BY <2>2, <2>3 DEF UpToDate
<1> QED  BY <1>1, AlwaysPicture, PTL

(* A press takes the window that the user sees under the mouse, or the one  *)
(* just to the left of it.                                                  *)
THEOREM SeenIsTaken == Spec => PressTakesSeen
<1>1. ASSUME Picture, Settled, dragged = None, mouse \notin Bar,
             NEW to \in Cell, Press(to)
      PROVE  \/ dragged' # None /\ mouse = pos[dragged'] + Width
             \/ IF fbuf[mouse] = Background THEN dragged' = None
                ELSE fbuf[mouse][1] = dragged'
  <2> DEFINE hits == {w \in Window : Hits(w, mouse)}
             there == {w \in Window : Covers(w, mouse)}
             d == Highest(hits)
             last == Highest(there)
  <2>1. /\ TypeOK /\ Stacked /\ mouse \in Cell \ Bar
        /\ fbuf[mouse] = DrawWindows(Desk)[mouse]
        /\ dragged' = IF hits = {} THEN None ELSE d
    BY <1>1 DEF Picture, Inductive, TypeOK, Drawn, Press, InWhichTerminal
  <2>2. there \subseteq hits /\ hits \in SUBSET Window /\ there \in SUBSET Window
    <3>1. \A w \in Window : pos[w] \in Int /\ mouse \in Int
      BY <2>1, Numbers DEF TypeOK
    <3> QED  BY <3>1, Numbers DEF Covers, Hits
  <2>3. /\ there = {} => fbuf[mouse] = Background
        /\ there # {} => fbuf[mouse] = <<last, content[last], priority[last] = 3>>
    <3>1. Desk \in [Cell -> Image] /\ Desk[mouse] = Background
      BY <2>1, Images
    <3>2. there = {} <=> Uncovered(mouse)
      BY DEF Uncovered
    <3> QED  BY <2>1, <3>1, <3>2, DrawFacts DEF Pixel
  <2>4. CASE there # {}
    <3>1. /\ d \in hits /\ \A v \in hits : priority[v] <= priority[d]
          /\ last \in there /\ \A v \in there : priority[v] <= priority[last]
      <4> HIDE DEF hits, there
      <4>1. hits # {}
        BY <2>2, <2>4
      <4> QED  BY <2>1, <2>2, <2>4, <4>1, HighestIn
    <3>2. d \in Window /\ last \in Window /\ dragged' = d /\ d # None
      BY <2>1, <2>2, <2>4, <3>1 DEF Window, None
    <3> HIDE DEF d, last
    <3>3. CASE d \in there
      <4>1. priority[d] <= priority[last] /\ priority[last] <= priority[d]
            /\ priority[d] \in 1 .. 3 /\ priority[last] \in 1 .. 3
        BY <2>1, <2>2, <3>1, <3>2, <3>3 DEF TypeOK
      <4>2. d = last
        BY <2>1, <3>2, <4>1 DEF Stacked
      <4>3. fbuf[mouse] # Background /\ fbuf[mouse][1] = last
        BY <2>3, <2>4, Images
      <4> QED  BY <3>2, <4>2, <4>3
    <3>4. CASE d \notin there
      <4>1. Hits(d, mouse) /\ ~ Covers(d, mouse) /\ pos[d] \in Int /\ mouse \in Int
        BY <2>1, <3>1, <3>2, <3>4, Numbers DEF TypeOK
      <4>2. mouse = pos[d] + Width
        BY <4>1, Numbers DEF Hits, Covers
      <4> QED  BY <3>2, <4>2
    <3> QED  BY <3>3, <3>4
  <2>5. CASE there = {} /\ hits = {}
    BY <2>1, <2>3, <2>5
  <2>6. CASE there = {} /\ hits # {}
    <3>1. d \in hits
      <4> HIDE DEF hits
      <4> QED  BY <2>1, <2>2, <2>6, HighestIn
    <3>2. dragged' = d /\ d \in Window /\ d \notin there
      BY <2>1, <2>2, <2>6, <3>1
    <3>3. Hits(d, mouse) /\ ~ Covers(d, mouse) /\ d # None
      BY <3>1, <3>2 DEF Window, None
    <3> HIDE DEF d
    <3>4. pos[d] \in Int /\ mouse \in Int
      BY <2>1, <3>2, Numbers DEF TypeOK
    <3>5. mouse = pos[d] + Width
      BY <3>3, <3>4, Numbers DEF Hits, Covers
    <3> QED  BY <3>2, <3>3, <3>5
  <2> QED  BY <2>4, <2>5, <2>6
<1>2. Picture =>
        [Settled /\ dragged = None /\ mouse \notin Bar /\ (\E to \in Cell : Press(to))
         => \/ dragged' # None /\ mouse = pos[dragged'] + Width
            \/ IF fbuf[mouse] = Background THEN dragged' = None
               ELSE fbuf[mouse][1] = dragged']_vars
  BY <1>1
<1> QED  BY <1>2, AlwaysPicture, PTL DEF Spec, PressTakesSeen
=============================================================================

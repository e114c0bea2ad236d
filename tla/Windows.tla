------------------------------ MODULE Windows -------------------------------
(***************************************************************************)
(* The windows of the three terminals: the mouse handler                   *)
(* (mouse_driver.c), which moves them, hides them and puts them on top,    *)
(* and the timer of the screen (rtc_interrupt_handler, update_screen),     *)
(* which draws them into fbuf, what the flags say is out of date only, and *)
(* copies fbuf to the screen.                                              *)
(*                                                                         *)
(* The screen is a row of cells: the other direction is alike. The RTC and *)
(* the mouse are on the slave PIC, whose next interrupt waits for the end  *)
(* of the one before. Tasks may come in between, but share with the        *)
(* handlers only what these use with interrupts off.                       *)
(***************************************************************************)
EXTENDS Integers, Sequences, FiniteSets

CONSTANTS
  Dim,       (* VGA_DIMX                                                   *)
  Width,     (* of a window                                                *)
  InitPos,   (* where the windows are at first                             *)
  Bar,       (* the cells of the status bar                                *)
  Button,    (* Button[c]: the window whose button is at c, or None        *)
  Writers,   (* bound: the terminals that are written to                   *)
  Exits      (* bound: the terminals whose shell exits                     *)

Window == 0 .. 2         \* as many as update_priority knows
None == -1               \* no window; the id of null_terminal
Cell == 0 .. Dim - 1
Place == -Width .. Dim - 1   \* a window may be partly outside

ASSUME GeometryAssumption ==
  /\ Dim \in Nat \ {0} /\ Width \in Nat \ {0}
  /\ InitPos \in [Window -> Cell]
  /\ Bar \subseteq Cell
  /\ Button \in [Cell -> Window \cup {None}]
ASSUME UsersAssumption == Writers \subseteq Window /\ Exits \subseteq Window

VARIABLES
  pos, priority, active,          \* terminal_window
  mouse,                          \* mouse_x
  dragged, dragged_mouse,         \* dragged_terminal, dragged_mouse_x
  content,                        \* what the terminals' buffers hold
  writing,                        \* putc has stored, and not yet said so
  shown,                          \* showing_term is not null_terminal
  empty,                          \* the t with foreground_task[t] = NULL
  need_redraw_background, need_change_focus, new_content,
  fbuf, vbe_mem,                  \* the picture, and what the screen shows
  prev_draw,                      \* where the pointer was drawn
  missed                          \* a change of the windows was not drawn

windows == <<pos, priority, active>>
pointer == <<mouse, dragged, dragged_mouse>>
terminals == <<content, writing, shown, empty>>
flags == <<need_redraw_background, need_change_focus>>
screen == <<fbuf, vbe_mem, prev_draw, missed>>
vars == <<windows, pointer, terminals, flags, new_content, screen>>
-----------------------------------------------------------------------------
(* Pixels                                                                  *)
Background == << >>
StatusBar == <<"bar">>
Pointer == <<"pointer", "pointer">>
Pixel(w, focus) == <<w, content[w], focus>>

Desk == [c \in Cell |-> IF c \in Bar THEN StatusBar ELSE Background]

(* draw_terminal, clipped by Pdraw; a place too many can be clicked.       *)
Covers(w, c) == active[w] /\ pos[w] <= c /\ c < pos[w] + Width
Hits(w, c) == active[w] /\ pos[w] <= c /\ c <= pos[w] + Width

Highest(ws) == CHOOSE w \in ws : \A v \in ws : priority[v] <= priority[w]

(* Mutant: the windows are drawn in the order of their terminals.          *)
DrawWindowsById(picture) ==
  [c \in Cell |->
     LET there == {w \in Window : Covers(w, c)}
         last == CHOOSE w \in there : \A v \in there : v <= w
     IN IF there = {} THEN picture[c] ELSE Pixel(last, priority[last] = 3)]

(* The windows are drawn by priority, the top one as the one in focus.     *)
DrawWindows(picture) ==
  [c \in Cell |->
     LET there == {w \in Window : Covers(w, c)}
         last == Highest(there)
     IN IF there = {} THEN picture[c] ELSE Pixel(last, priority[last] = 3)]

(* check_mouse_in_which_terminal                                           *)
InWhichTerminal(c) ==
  LET there == {w \in Window : Hits(w, c)}
  IN IF there = {} THEN None ELSE Highest(there)

(* Mutant: the others keep their places.                                   *)
UpdatePriorityOnly(w) == priority' = [priority EXCEPT ![w] = 3]

(* update_priority: w comes on top, the other two keep their order.        *)
UpdatePriority(w) ==
  priority' = [v \in Window |->
    IF v = w THEN 3
    ELSE IF \E u \in Window \ {v, w} : priority[v] > priority[u] THEN 2 ELSE 1]
-----------------------------------------------------------------------------
(* A packet with the left button down. The button counts where the mouse   *)
(* was before the packet moves it. Bound: packets are whole and valid.     *)
Packet(to) ==
  /\ mouse' = to
  /\ UNCHANGED <<content, writing, empty, new_content, screen>>

(* A window's button hides it or brings it back.                           *)
Toggle ==
  LET w == Button[mouse]
  IN IF w = None THEN UNCHANGED <<active, need_redraw_background>>
     ELSE /\ active' = [active EXCEPT ![w] = ~@]
          /\ need_redraw_background' = TRUE

Press(to) ==
  /\ Packet(to)
  /\ dragged = None
  /\ dragged' = InWhichTerminal(mouse)
  /\ Toggle
  /\ IF dragged' = None
     THEN UNCHANGED <<need_change_focus, shown, priority, dragged_mouse>>
     ELSE /\ need_change_focus' = TRUE
          /\ shown' = (dragged' # empty)
          /\ UpdatePriority(dragged')
          /\ dragged_mouse' = mouse
  /\ UNCHANGED pos

Drag(to) ==
  /\ Packet(to)
  /\ dragged # None
  /\ UNCHANGED <<windows, dragged, dragged_mouse, shown, flags>>

(* Mutant: where the mouse is, is taken for how far it went.               *)
MouseNow == mouse

MouseMoved == mouse - dragged_mouse

(* A packet with the button up                                             *)
Release(to) ==
  /\ Packet(to)
  /\ IF dragged = None THEN UNCHANGED <<pos, need_redraw_background>>
     ELSE /\ pos' = [pos EXCEPT ![dragged] = @ + MouseMoved]
          /\ need_redraw_background' = TRUE
  /\ dragged' = None
  /\ UNCHANGED <<priority, active, dragged_mouse, shown, need_change_focus>>
-----------------------------------------------------------------------------
(* Mutant: a window that comes on top is not drawn.                        *)
OutOfDateButFocus == new_content \/ need_redraw_background

OutOfDate == new_content \/ need_redraw_background \/ need_change_focus

(* update_screen on the picture under it: what is out of date is drawn,    *)
(* while fish runs everything is. Without a terminal that is shown the     *)
(* flags are cleared all the same.                                         *)
UpdateScreen(under, draw) ==
  LET back == IF need_redraw_background THEN Desk ELSE under
  IN
  /\ fbuf' = IF draw THEN DrawWindows(back) ELSE back
  /\ new_content' = (new_content /\ ~draw)
  /\ need_redraw_background' = FALSE /\ need_change_focus' = FALSE
  /\ missed' = IF shown THEN missed /\ ~need_redraw_background
               ELSE missed \/ need_redraw_background \/ need_change_focus

(* patch_mouse: what was under the pointer                                 *)
Patched(onscreen) == [onscreen EXCEPT ![prev_draw] = fbuf'[prev_draw]]

(* show_screen, patch_mouse and render_mouse                               *)
ShowScreen(need_update) ==
  /\ vbe_mem' = [Patched(IF need_update THEN fbuf' ELSE vbe_mem) EXCEPT ![mouse] = Pointer]
  /\ prev_draw' = mouse

(* rtc_interrupt_handler: the clock in the status bar is drawn, now and    *)
(* then, over the windows that are there; then the screen.                 *)
RtcInterrupt(clock, fish) ==
  LET draw == shown /\ (OutOfDate \/ fish)
  IN
  /\ UpdateScreen(IF clock THEN [c \in Cell |-> IF c \in Bar THEN StatusBar ELSE fbuf[c]]
                  ELSE fbuf, draw)
  /\ ShowScreen(clock \/ need_redraw_background \/ (draw /\ \E w \in Window : active[w]))
  /\ UNCHANGED <<windows, pointer, terminals>>
-----------------------------------------------------------------------------
(* The tasks and the keyboard, at any time                                 *)
Others == UNCHANGED <<windows, pointer, flags, screen>>

(* putc; init's may be interrupted before it says so.                      *)
Store(t) ==
  /\ ~writing /\ writing' = TRUE
  /\ content' = [content EXCEPT ![t] = 1 - @]
  /\ UNCHANGED <<shown, empty, new_content>> /\ Others

Stored ==
  /\ writing /\ writing' = FALSE
  /\ new_content' = TRUE
  /\ UNCHANGED <<content, shown, empty>> /\ Others

(* Alt and a function key: another terminal is shown, if it has a task.    *)
Key(t) ==
  /\ shown
  /\ shown' = (t # empty)
  /\ UNCHANGED <<content, writing, empty, new_content>> /\ Others

(* system_halt of a shell. When it is the one that is shown, and another   *)
(* terminal has one, the focus is changed to the terminal that is empty    *)
(* now (get_another_terminal_id). Bound: one at a time.                    *)
Exit(t) ==
  /\ empty = None /\ shown
  /\ empty' = t
  /\ shown' \in BOOLEAN
  /\ UNCHANGED <<content, writing, new_content>> /\ Others

(* Init opens it again, and it is shown.                                   *)
Open ==
  /\ empty # None /\ empty' = None
  /\ shown' = TRUE
  /\ UNCHANGED <<content, writing, new_content>> /\ Others
-----------------------------------------------------------------------------
(* After the first call of update_screen. Bound: nobody clicked before it. *)
Init ==
  /\ pos = InitPos /\ priority = [w \in Window |-> w + 1]
  /\ active = [w \in Window |-> TRUE]
  /\ mouse = 0 /\ dragged = None /\ dragged_mouse = 0
  /\ content = [w \in Window |-> 0] /\ writing = FALSE
  /\ shown = TRUE /\ empty = None
  /\ need_redraw_background = FALSE /\ need_change_focus = FALSE
  /\ new_content = TRUE
  /\ fbuf = DrawWindows(Desk)
  /\ vbe_mem = [fbuf EXCEPT ![0] = Pointer] /\ prev_draw = 0
  /\ missed = FALSE

Next ==
  \/ \E to \in Cell : Press(to) \/ Drag(to) \/ Release(to)
  \/ \E clock, fish \in BOOLEAN : RtcInterrupt(clock, fish)
  \/ \E t \in Writers : Store(t)
  \/ Stored
  \/ \E t \in Window : Key(t)
  \/ \E t \in Exits : Exit(t)
  \/ Open

Spec == Init /\ [][Next]_vars
-----------------------------------------------------------------------------
(* Types; in particular the part of a window that can be clicked never     *)
(* leaves the screen, however it is dragged and hidden.                    *)
TypeOK ==
  /\ pos \in [Window -> Place]
  /\ priority \in [Window -> 1 .. 3] /\ active \in [Window -> BOOLEAN]
  /\ mouse \in Cell /\ dragged \in Window \cup {None} /\ dragged_mouse \in Cell
  /\ content \in [Window -> 0 .. 1] /\ writing \in BOOLEAN
  /\ shown \in BOOLEAN /\ empty \in Window \cup {None}
  /\ need_redraw_background \in BOOLEAN /\ need_change_focus \in BOOLEAN
  /\ new_content \in BOOLEAN
  /\ prev_draw \in Cell /\ missed \in BOOLEAN

(* The windows lie one above the other, the one that is dragged on top.    *)
Stacked ==
  /\ \A v, w \in Window : priority[v] = priority[w] => v = w
  /\ dragged # None => priority[dragged] = 3

(* No flag is set, and nothing is left to be drawn.                        *)
Settled ==
  /\ ~need_redraw_background /\ ~need_change_focus /\ ~new_content
  /\ ~writing /\ ~missed

(* When the flags say that the screen is up to date, it is: each place     *)
(* above the status bar shows the window that lies on top there and what   *)
(* the terminal holds now; and there is one pointer.                       *)
UpToDate ==
  /\ {c \in Cell : vbe_mem[c] = Pointer} = {prev_draw}
  /\ \A c \in Cell \ (Bar \cup {prev_draw}) : vbe_mem[c] = DrawWindows(Desk)[c]

PictureTrue == Settled => UpToDate

(* A press takes the window that is seen under the mouse, but for the      *)
(* place beside a window that takes that window (gui.c:958).               *)
PressTakesSeen ==
  [][Settled /\ dragged = None /\ mouse \notin Bar /\ (\E to \in Cell : Press(to))
     => \/ dragged' # None /\ mouse = pos[dragged'] + Width
        \/ IF fbuf[mouse] = Background THEN dragged' = None
           ELSE fbuf[mouse][1] = dragged']_vars
=============================================================================

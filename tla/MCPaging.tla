------------------------------ MODULE MCPaging ------------------------------
(* What the page tables let a program and the kernel reach, for every page *)
(* of a program and every terminal.                                        *)
EXTENDS Paging

(* Somewhere for the linker to put the tables.                             *)
LinkedAt ==
  [t \in Table |->
     CASE t = page_table0 -> 1029
       [] t = video_page_table0 -> 1030
       [] t = audio_page_table0 -> 1031
       [] t[1] = "k_bb_pt_list" -> 2046 + t[2]
       [] OTHER -> 2049 + t[2]]

(* The three fields of a directory entry give the frame of the table back; *)
(* the frame of a 4 MB page needs one.                                     *)
ASSUME FieldsGiveFrameBack ==
  \A frame \in 1020 .. 3100 \union {1048575} :
    /\ TableFrame(PDE_4K_set(NotPresent, frame, 1, 1, 1)) = frame
    /\ PDE_4M_set(NotPresent, frame, 1, 1, 1).Base_address = frame \div 1024

Page == 0 .. 9
Booted == vidmap_init(fill_page)
Running(pid, t) ==
  terminal_vidmap_SVGA(set_video_memory_SVGA(set_private_page(Booted, pid), t), t)

Present(s) == {i \in Index : s.directory[i].P = 1}
Reached(s, user) ==
  {<< v, Walk(s, v, user) >> : v \in {i * 1024 + k : i \in Present(s), k \in Index}}
Reaches(s, user) == {r \in Reached(s, user) : r[2] # Fault}

(* A program reaches its 4 MB at 128 MB and, after vidmap, the page of its *)
(* terminal: nothing else, and nothing more while the screen is drawn,     *)
(* when the kernel's table is marked as the user's.                        *)
UserSees(pid, t) ==
  {<< 32 * 1024 + k, (pid + 2) * 1024 + k >> : k \in Index}
    \union (IF t = null_terminal THEN {} ELSE {<< 33 * 1024 + 184, 224 + t >>})
ASSUME UserReachesOwn ==
  \A pid \in Page, t \in Terminal \union {null_terminal} :
    LET s == Running(pid, t)
    IN /\ Reaches(s, TRUE) = UserSees(pid, t)
       /\ pid = 0 => Reaches(Drawing(s), TRUE) = UserSees(pid, t)

(* No page of a program is one that the kernel, the sound or the screen    *)
(* uses.                                                                   *)
ASSUME ProgramPagesApart ==
  LET kernel == {r[2] : r \in Reaches(Drawing(Booted), FALSE)}
                  \union {DmaFrame(k) : k \in 0 .. 15}
  IN \A pid \in Page : \A k \in Index : (pid + 2) * 1024 + k \notin kernel

(* What the kernel writes at 0xB8000 for a task, what its program writes   *)
(* after vidmap and what is drawn in its window is the same page.          *)
ASSUME OnePagePerTerminal ==
  \A t \in Terminal :
    LET s == Running(0, t)
    IN /\ Walk(s, 184, FALSE) = Walk(s, 33 * 1024 + 184, TRUE)
       /\ Walk(s, 184, FALSE) = Walk(Drawing(s), 224 + t, FALSE)
       /\ \A u \in Terminal \ {t} :
            Walk(s, 184, FALSE) # Walk(Running(0, u), 184, FALSE)

(* The pages drawn from are mapped only while update_screen has the        *)
(* kernel's own table in place.                                            *)
ASSUME BuffersNeedDrawing ==
  \A t, u \in Terminal : Walk(Running(0, t), 224 + u, FALSE) = Fault

(* The samples the kernel writes are the ones that the DMA controller      *)
(* reads, because both cut the address in the same way: they are at the    *)
(* start of memory, not one-to-one as paging.c:297 says.                   *)
ASSUME SamplesAreRead ==
  \A k \in 0 .. 15 :
    LET written == Walk(Booted, AUDIO_BUF_ADDR + k, FALSE)
    IN written = DmaFrame(k) /\ written # AUDIO_BUF_ADDR + k
=============================================================================

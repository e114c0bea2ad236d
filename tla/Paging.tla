------------------------------- MODULE Paging -------------------------------
(* The page directory and the page tables: fill_page and vidmap_init build *)
(* them, a task switch changes three entries of the directory. Addresses   *)
(* are numbers of 4 KB frames, an unaligned one, which the setters refuse, *)
(* having none. Accessed and dirty bits, caching and the TLB, flushed      *)
(* after every change, are left out.                                       *)
EXTENDS Integers

CONSTANT
  FrameOf     \* the frame where the linker puts each page table

VIDEO_MEMORY_INDEX == 184            \* 0xB8
VM_BUF_SVGA_PT_INDEX == 224          \* 0xE0
PRIVATE_PAGE_VA == 32
U_VM_PDE == 33
AUDIO_BUF_PD_INDEX == 40             \* 0x28
AUDIO_BUF_PT_INDEX_LEN == 32
AUDIO_BUF_ADDR == 40960              \* 0xA000000 >> 12
REG_VBE == 1036288                   \* 0xFD000000 >> 12
MAX_TERMINAL == 3

Index == 0 .. 1023
Terminal == 0 .. MAX_TERMINAL - 1
null_terminal == -1

k_bb_pt(t) == << "k_bb_pt_list", t >>
u_bb_pt(t) == << "u_bb_pt_list", t >>
page_table0 == << "page_table0" >>
video_page_table0 == << "video_page_table0" >>
audio_page_table0 == << "audio_page_table0" >>
Table == {page_table0, video_page_table0, audio_page_table0}
           \union {k_bb_pt(t) : t \in Terminal} \union {u_bb_pt(t) : t \in Terminal}

ASSUME FramesAssumption ==
  /\ FrameOf \in [Table -> 1 .. 1024 * 1024 - 1]
  /\ \A a, b \in Table : FrameOf[a] = FrameOf[b] => a = b

-----------------------------------------------------------------------------
(* Entries. The 20 bits of a table's frame number are spread over three    *)
(* fields of a directory entry.                                            *)

PDE(P, US, PS, PAT, reserved, Base_address) ==
  [P |-> P, RW |-> P, US |-> US, PS |-> PS,
   PAT |-> PAT, reserved |-> reserved, Base_address |-> Base_address]
PTE(P, US, Base_address) == [P |-> P, RW |-> P, US |-> US, Base_address |-> Base_address]

ToTable(frame, US) == PDE(1, US, 0, frame % 2, (frame \div 2) % 512, frame \div 1024)
ToPage(number, US) == PDE(1, US, 1, 0, 0, number)
NotPresent == PDE(0, 0, 0, 0, 0, 0)
Empty == [i \in Index |-> PTE(0, 0, 0)]

Flag == {0, 1}
Refused(frame, US, RW, P) == frame = 0 \/ US \notin Flag \/ RW \notin Flag \/ P \notin Flag

PTE_set(pte, frame, US, RW, P) ==
  IF Refused(frame, US, RW, P) THEN pte
  ELSE [pte EXCEPT !.P = P, !.US = US, !.RW = RW, !.Base_address = frame]
PDE_4K_set(pde, frame, US, RW, P) ==
  IF Refused(frame, US, RW, P) THEN pde
  ELSE [ToTable(frame, US) EXCEPT !.P = P, !.RW = RW]
PDE_4M_set(pde, frame, US, RW, P) ==
  IF Refused(frame, US, RW, P) THEN pde
  ELSE [ToPage(frame \div 1024, US) EXCEPT !.P = P, !.RW = RW]

-----------------------------------------------------------------------------
(* The processor: the frame an access to virtual frame v reaches.          *)

Fault == -1
TableFrame(pde) == pde.Base_address * 1024 + pde.reserved * 2 + pde.PAT
TableOf(pde) == CHOOSE t \in Table : FrameOf[t] = TableFrame(pde)
Walk(s, v, user) ==
  LET Allowed(e) == e.P = 1 /\ (user => e.US = 1)
      pde == s.directory[v \div 1024]
      pte == s.table[TableOf(pde)][v % 1024]
  IN IF ~ Allowed(pde) THEN Fault
     ELSE IF pde.PS = 1 THEN pde.Base_address * 1024 + (v % 1024)
     ELSE IF Allowed(pte) THEN pte.Base_address ELSE Fault

-----------------------------------------------------------------------------
(* Set-up.                                                                 *)

VideoTable(US) == [Empty EXCEPT ![VIDEO_MEMORY_INDEX] = PTE(1, US, VIDEO_MEMORY_INDEX)]

(* The base is (AUDIO_BUF_ADDR << 12) | i: shifted up, the address leaves  *)
(* no bit in the 20 bits of the field.                                     *)
AudioTable ==
  [i \in Index |->
     IF i < AUDIO_BUF_PT_INDEX_LEN THEN PTE(1, 0, i) ELSE PTE(0, 0, 0)]

fill_page ==
  [directory |->
     [i \in Index |->
        CASE i = 0 -> ToTable(FrameOf[page_table0], 0)
          [] i = 1 -> ToPage(1, 0)
          [] i = AUDIO_BUF_PD_INDEX -> ToTable(FrameOf[audio_page_table0], 0)
          [] i \in {REG_VBE \div 1024, REG_VBE \div 1024 + 1} -> ToPage(i, 0)
          [] OTHER -> NotPresent],
   table |->
     [t \in Table |->
        CASE t = page_table0 -> VideoTable(0)
          [] t = video_page_table0 -> VideoTable(1)
          [] t = audio_page_table0 -> AudioTable
          [] OTHER -> Empty]]

(* Each terminal's page is reached at 0xB8 of two tables of its own, and   *)
(* at 0xE0 and on of the kernel's.                                         *)
vidmap_init(s) ==
  LET Buffer(t, US) == PTE_set(PTE(0, 0, 0), VM_BUF_SVGA_PT_INDEX + t, US, 1, 1)
  IN [s EXCEPT !.table =
        [n \in Table |->
           IF n = page_table0
           THEN [i \in Index |->
                   IF i - VM_BUF_SVGA_PT_INDEX \in Terminal
                   THEN Buffer(i - VM_BUF_SVGA_PT_INDEX, 0) ELSE s.table[n][i]]
           ELSE IF \E t \in Terminal : n = k_bb_pt(t)
           THEN [Empty EXCEPT ![VIDEO_MEMORY_INDEX] = Buffer(n[2], 0)]
           ELSE IF \E t \in Terminal : n = u_bb_pt(t)
           THEN [Empty EXCEPT ![VIDEO_MEMORY_INDEX] = Buffer(n[2], 1)]
           ELSE s.table[n]]]

-----------------------------------------------------------------------------
(* What a task switch and a picture change.                                *)

SetEntry(s, i, pde) == [s EXCEPT !.directory = [s.directory EXCEPT ![i] = pde]]

set_private_page(s, pid) == SetEntry(s, PRIVATE_PAGE_VA, ToPage(pid + 2, 1))

set_video_memory_SVGA(s, terminal) ==
  SetEntry(s, U_VM_PDE,
    IF terminal = null_terminal THEN NotPresent
    ELSE PDE_4K_set(s.directory[U_VM_PDE], FrameOf[u_bb_pt(terminal)], 1, 1, 1))

(* Without a terminal the kernel is left with the page of terminal 0.      *)
terminal_vidmap_SVGA(s, terminal) ==
  LET t == IF terminal = null_terminal THEN 0 ELSE terminal
  IN SetEntry(s, 0, PDE_4K_set(s.directory[0], FrameOf[k_bb_pt(t)], 0, 1, 1))

(* While update_screen draws, the kernel's own table is at entry 0, with   *)
(* the user bit set.                                                       *)
Drawing(s) == SetEntry(s, 0, PDE_4K_set(s.directory[0], FrameOf[page_table0], 1, 1, 1))

(* The frame where the DMA controller reads block k of the sound: its page *)
(* register takes one byte of DSP_BUF_ADDR >> 16.                          *)
DmaFrame(k) == ((AUDIO_BUF_ADDR \div 16) % 256) * 16 + (AUDIO_BUF_ADDR % 16) + k
=============================================================================

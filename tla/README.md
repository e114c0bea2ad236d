# HEROS in TLA+

HEROS is a small x86 teaching kernel (`src/student-distrib/`): one CPU, a
round-robin scheduler driven by the PIT, three terminals in a window system, a
read-only file system, signals, a virtualised RTC and a Sound Blaster driver.
This directory holds TLA+ modules of its parts, the TLC runs that check them on
small instances, and proofs, checked by TLAPS, of what holds for every size.

## 1. Inventory

All paths are below `src/student-distrib/`.

| component | state | operations | who touches it |
|---|---|---|---|
| processes (`process.c`) | `pcb_ptrs[]`, `n_present_pcb`, per PCB: `present, parent, having_child_running, own_terminal, terminal, pid, time, name`; `cur_task` (the showing task), `foreground_task[]`, `running_term` | `create_process`, `delete_process`, `sys_execute`, `system_halt`, `set_showing_task`, `change_focus_terminal`, `init_task_main` | system calls with interrupts off (`idt.c:181-202`), the init task with interrupts **on** |
| scheduler (`scheduler.c`) | `task_list_head` and `all_nodes[]` | `add_task_to_list`, `delete_task_from_list`, `reposition_to_end`, `reschedule`, `pit_interrupt_handler`, `init_process_time` | execute, halt, the timer |
| program pages (`page_lib.c`) | `page_status[]`, `n_page_in_use`, the page directory entry of 128 MB | `set_page_for_task`, `get_new_page_id`, `set_private_page`, `restore_paging`, `delete_paging` | execute, halt, reschedule |
| terminals (`terminal.c`) | `terminal_array[]` (`valid, id, buf, buf_cnt, user_ask, screen_x/y`) | `terminal_allocate/deallocate`, `terminal_set_running`, `keyboard_interrupt_handler`, `handle_input`, `terminal_read/write` | keyboard interrupt, system calls, reschedule |
| files (`file_sys.c`, `sys_call.c`) | one descriptor array per PCB, `n_opend_files` | open, close, read, write, ioctl for five kinds of file; `read_dentry_by_name`, `read_data` | system calls, `close_all_files` in halt |
| RTC (`rtc.c`) | `virtual_ctr[]`, `ticks`, per PCB `rtc_id` | open, close, read, write, interrupt handler | system calls, IRQ 8 |
| signals (`signal_sys_call.c`, `signal_assmbly.S`) | per PCB `signal_pending, signal_masked, previous_masked, sig[]` | `signal_send`, `check_signal`, `sys_set_handler`, `sys_sig_return`, the default handlers | keyboard, PIT, exceptions; checked on every return to user mode |
| sound (`sound_card.c`, `wav_player.c`) | the DMA buffer halves, `interrupt_flag` | audio open/close/read/write/ioctl, `play_wav`, DSP interrupt | system calls, init at boot, IRQ 5 |
| screens (`lib.c`, `terminal.c`) | one cursor, per terminal a text buffer and a cursor put by, the page mapped at 0xB8000 | `putc`, `scroll_up`, `terminal_set_running`, `process_user_vidmap` | writes, echo of keys, reschedule |
| windows and mouse (`gui.c`, `mouse_driver.c`) | `terminal_window[]` with priorities, drag state, `need_play`, `need_change_focus`, `need_redraw_background` | mouse packets, `update_priority`, redraw | IRQ 12, the RTC handler that draws |
| interrupt controller (`i8259.c`, `boot.S`) | masks and services of the two PICs | `enable_irq`, `send_eoi` (`disable_irq` has no caller) | boot, every handler |
| paging (`paging.c`, `page_lib.c`) | the page directory and the tables it points to | `fill_page`, `vidmap_init`, the three entries a switch changes | boot, execute, halt, reschedule, drawing |
| library (`lib.c`, `ece391support.c`) and programs (`src/syscalls/`) | none | memory and string routines; cat, ls, grep, the wav player, sigtest | the kernel; users |

How they interact. There is one CPU and no lock: exclusion is `cli`. All gates
in the IDT are trap gates, so a handler runs with interrupts on unless it
clears them. `execute` and `halt` do (`idt.c:181-202`); the init task, a kernel
thread, calls `sys_execute` without (`process.c:519-532`) except for the music
player (`process.c:526-528`). The PIT handler preempts anything that runs with
interrupts on, init included. Every task has its kernel stack in the 8 KB of
its PCB; `get_cur_process()` is the stack pointer rounded down.

What is hard here:

- init's `sys_execute` interleaves, access by access, with the timer, the
  keyboard, the mouse and the execute and halt of every user program: its
  increments, its scans of tables, its append to the run queue and its drawing
  may each be cut in two;
- `execute` and `halt` move five pieces of state in step: PCB table, run queue,
  waiting marks, page table, foreground tasks;
- `reschedule` may loop for ever with interrupts off;
- pointers that may be NULL or dangling after the last shell exits;
- counters that guard tables (`n_present_pcb`, `n_page_in_use`,
  `n_opend_files`) and can drift;
- system calls other than execute and halt run with interrupts on and share
  clocks, the sound card and one cursor;
- handlers nest: they acknowledge before they are done, some twice, and the
  timer switches stacks below them;
- flags that one interrupt handler sets and another clears (`need_*`,
  `interrupt_flag`), so that a change between the two may be lost.

What makes each component correct:

- processes: the waiting marks match the live children, one per parent; the CPU
  belongs to a task that waits for nobody; counts cover the table;
- scheduler: the queue holds exactly the live tasks, `reschedule` ends, ready
  tasks keep their turn;
- pages: no two live programs share one, the counter equals the pages in use,
  a program never runs in the page of another, and on its own kernel stack;
- terminals: a slot is taken exactly while its shell lives, the keys go to the
  one ready task of a terminal;
- line discipline: a read returns one newline-terminated line of bounded
  length, ends by an Enter typed while it waited and by no other, and an Enter
  always ends it;
- files: counts are exact whatever fails, no clock and no card is lost, reads
  return the file;
- signals: handlers do not nest, none is inherited, a fault and a Ctrl+C are
  answered;
- sound: the file is played in order, the half that plays is never written, the
  card is given back;
- screens: each terminal has one of its own, though there is one cursor, until
  the kernel prints to it with interrupts on;
- windows: they lie one above the other, and when no flag is set the screen
  shows what they hold;
- interrupts: what the handlers of the slave rely on, that they exclude each
  other; no line stays in service for ever;
- paging: a program reaches its own pages and nothing else.

## 2. Modules

| module | what it is |
|---|---|
| `Process.tla` | the process core: PCB table, execute, halt, run queue, PIT handler, pages, terminal slots, focus, init |
| `ProcessTree.tla` | what execute, halt and the scheduler promise together: a forest of callers in which only leaves run. `Process` implements it |
| `Terminal.tla` | the line discipline: keyboard handler, line buffer, `terminal_read` |
| `Lines.tla` | what a terminal promises on its screen: lines of its own. `Screen` implements it |
| `Screen.tla` | putc, scrolling, the one cursor, the switch of the running terminal and of the video pages |
| `Windows.tla` | the mouse handler, the windows' priorities, the flags, and the drawing of the screen |
| `Disk.tla` | the directory and the reading of a file's blocks |
| `Files.tla` | descriptors, the files, directories, clocks and the card behind them; extends `Disk` |
| `Sound.tla` | the wav player and the driver under it, with the card |
| `Signal.tla` | sending, delivery, handlers, sigreturn, the alarm |
| `Pic.tla` | the two interrupt controllers and the nesting of handlers |
| `Paging.tla` | the page directory and tables as functions, with the processor's translation |
| `Strings.tla` | the memory and string routines of both libraries, as functions on a memory |
| `Programs.tla` | a command line on its way to the program; cat, ls and grep as loops over blocks; extends `Strings` |
| `MC*.tla` | the modules TLC is started on; the `.cfg` files give the constants |
| `ProcessProofs`, `TerminalProofs`, `ScreenProofs`, `WindowsProofs`, `FilesProofs`, `SoundProofs`, `SignalProofs`, `PicProofs` | the theorems about the module named, and their lemmas |

Next to the definitions they change stand the mutated forms used to test the
properties; a comment marks each.

The modules are separate where the parts do not share state: the line buffer
influences no task, and a task influences the buffer only by reading and by
being replaced, and so for the rest. What one module assumes of another is a
property there: `Windows` lets the handlers of the RTC and of the mouse run one
after the other because `SlaveAlone` holds in `Pic`; `Signal` and `Screen` have
one task per terminal because `ForegroundIsLeaf` holds in `Process`; `Programs`
assumes of reads what `ReadsMatchFile` says. That `Sound` has one player is an
assumption that nothing in the code secures: two tasks can pass the test of
`dsp_status` at once (`sound_card.c:35`), which `Files` lets them.

### `Process`

PCBs are numbered `0 .. NPcb-1` in the order of `pcb_ptrs`; the field
`present[p]` stands for `pcb_ptrs[p]->present` and so on. `queue` is the list
behind `task_list_head` as a sequence, `node[p]` the one of `all_nodes[]` that
holds `p`. `mapped` is the page that the directory entry of 128 MB points to,
`cpu` is `get_cur_process()` and `esp0` the task whose kernel stack `tss.esp0`
points into. `pc, slot, new, reg, acc` are init's program counter and the locals
and registers of its `sys_execute`.

| action | code |
|---|---|
| `TickCharge`, `TickPreempt` | `pit_interrupt_handler`, with `reschedule` |
| `KeyType`, `KeyFocus`, `MouseFocus`, `MousePlay` | the keyboard and mouse handlers, as far as they touch tasks |
| `Execute(nm, ok)` | `execute_sys_call`; `ok` says whether the file can be executed |
| `HaltRoot`, `HaltChild` | `system_halt` of a task without, with a parent |
| `InitBoot`, `InitPlay`, `InitPlayed`, `InitScan` | the body of `init_task_main` |
| `TickTears` | the timer between the stores of init's `append_to_list_end` |
| `SpawnLimit` ... `SpawnMarkPcb` | init's `sys_execute("shell", 0, 1, NULL)`: `create_process` with `n_present_pcb += 1` as a load and a store and the scan of `present` entry by entry |
| `SpawnSetup`, `SpawnAllocate` | the fields of the PCB; `terminal_allocate`, slot by slot |
| `SpawnResetPages` ... `SpawnSetPid` | `set_page_for_task`: the reset of the table, the scan entry by entry, the mapping, `n_page_in_use++` as a load and a store, the mark, then the pid |
| `SpawnFocus`, `SpawnShow`, `SpawnAttach` | the foreground task, the showing task, the running terminal |
| `SpawnFindNode`, `SpawnTakeNode`, `SpawnLoadLast`, `SpawnLinkLast`, `SpawnJoin` | `add_task_to_list`: the scan for a node, its mark, and of `append_to_list_end` the look-up of the last node, the store behind it, and the other three stores |
| `SpawnArm`, `SpawnSetTss`, `SpawnEnter` | `init_process_time`, `tss.esp0`, the jump to the shell |

Init's `sys_execute` is one action per access to state that somebody else reads
or writes. Three groups of accesses share an action because nobody can tell them
apart: the fields of a PCB that is marked and in no list (`SpawnSetup`); the test
of a terminal slot and its taking, because only init allocates slots; and the last
three stores of the append, because what may come between them and the first,
a change of the list after a preemption, tears it wherever it comes (`TickTears`).

`fault` is `"none"` until the kernel does something after which C or the
hardware promises nothing, or the data of the model no longer stands for the
code's. The model names the point and stops there; the invariants say what holds
up to it.

| fault | where |
|---|---|
| `null_showing_task` | `terminal.c`, `process.c:317-336`: `get_showing_task()` is followed while it is NULL |
| `lost_count`, `lost_pages` | `n_present_pcb` or `n_page_in_use` changed between init's load and store |
| `shared_pcb`, `shared_page`, `shared_node` | another task has taken what init found free before init marks it |
| `torn_list` | the last node of the run queue changed between init's look-up and its store, or a preemption between its stores |
| `no_frame` | `reschedule` picks the shell that is listed but has not been entered |
| `reschedule_loop`, `no_terminal`, `no_node` | excluded by `RescheduleTerminates`, `TerminalSlots`, `QueueExact` |

All but those of the last row are reachable, which is to say that the code does these
things (section 4), and no property claims otherwise. In particular a program on a wrong
page is no fault. When init is preempted between mapping the new shell's page and
entering it, it resumes with the page of a kernel task, number 255, and enters
the shell there (`page_lib.c:78` with `scheduler.c:225`): the model goes on, and
`RunnerContext` says what is true of it, that the page is never another
program's.

Two outcomes of the build are constants: whether `idle_task`, which nothing
initialises, happens to be nonzero in a PCB (`IdlePcb`), and whether the word
before `foreground_task[0]`, which halt of init's child writes, is `cur_task`
(`OobIsShowing`).

### `Terminal`

`buf, buf_cnt, user_ask` are the fields of `terminal_struct_t`, one reading
task per terminal (the foreground task of `Process`). `pc, nbytes, j` are the
locals of `terminal_read`, `got` what it returned last. `frames[t]` are the
keyboard handlers on the kernel stack of the task of `t` that have acknowledged
their interrupt and not yet cleared the interrupt flag; a key is what
`handle_input` makes of scan codes and modifier keys: a character, Enter,
backspace, Ctrl+C or a change of focus.

| action | code |
|---|---|
| `KeyArrives` | `keyboard_interrupt_handler` up to `send_eoi` |
| `KeyHandled` | the rest of it, with `handle_input`: `TypeChar`, `TypeEnter`, `DropLine`, `Erase`, `Interrupt`, `Focus` |
| `Preempt` | the timer gives the CPU to another task |
| `ReadAsk`, `ReadScan`, `ReadDone`, `ReadCopy` | `terminal_read`, cut at its two critical sections |
| `Reallocate` | `terminal_allocate` for a new shell |

The fault `overflow` is a newline stored past the buffer. A task is not killed
inside `terminal_read`: `check_signal` acts only on the way back to user mode
(`signal_sys_call.c:26-29`), so Ctrl+C empties the line and the signal waits
until the read is over.

### `Screen`

`text[t]` is the buffer of terminal `t`, `screen_x, screen_y` the kernel's one
cursor, `saved_x, saved_y` those put by in the terminals, `running` is
`running_term`, `showing` the terminal that gets the keys, `cpu` the terminal of
the running task, `user_page` the page at the address `vidmap` returns.

| action | code |
|---|---|
| `Write` | `terminal_write`, one character, with `putc`: wrap, newline, scroll; or `Printf`, an access of a message of the kernel's own, with interrupts on |
| `Key` | `handle_input`'s echo, from `terminal_set_running(showing)` to its restoration; Ctrl+L with `clear` |
| `Focus`, `Click`, `Vidmap` | `set_showing_task` from the keyboard and from the mouse, `sys_vidmap` |
| `Reschedule`, `Halt` | `reschedule` and `system_halt`, with `set_video_memory_SVGA` and `process_user_vidmap` |
| `Allocate`, `Show`, `Run`, `Enter` | what init's `sys_execute` does with a terminal, interrupted in between |
| `Draw`, `Title` | an access of the `clear()`, `reset_screen()` and `printf` of the opening, to whatever terminal runs by then; the last one |

`terminal_write` and the keyboard's echo draw with interrupts off
(`terminal.c:297`, `:152`). The kernel's own `printf`, `clear()` and
`reset_screen()` do not: they are thousands of accesses, and a key or a task
switch may come between any two, of one `putc` also. Each is a step, `Touch`,
on the screen of the terminal that runs by then: for an init that was preempted
`null_terminal`, whose buffer is terminal 0's. `spoilt` are the screens that
have been touched so. What a spoilt screen shows and where its cursor is are
not followed (the cursor may even have left the screen, `lib.c:278`: a hazard
that no property covers), and `Lines` says nothing of it until Ctrl+L or the
opening of a shell clears it. An opening clears it when nothing came between:
`Title` sees that `running` is still the terminal that is opened, which a task
switch or a key would have changed.

### `Windows`

`pos, priority, active` are those of `terminal_window[]`, `content` is what each
terminal holds, `shown` and `empty` the terminals of `showing_term` and of no
shell, `fbuf` the buffer the windows are drawn to and `vbe_mem` the screen. There
are three windows, as in the code, in the theorems too. One
direction of the screen stands for both; a cell shows the background, the bar,
the pointer, or a window with its content and whether it has the focus.

| action | code |
|---|---|
| `Press`, `Drag`, `Release` | one packet in `mouse_interrupt_handler`, by the state of the button: `in_which_terminal`, `update_priority`, the buttons of the bar |
| `RtcInterrupt` | `rtc_interrupt_handler`'s part of the screen: `update_screen`, then `show_screen` |
| `Store`, `Stored` | putc into a terminal, and the flag it sets afterwards |
| `Key` | Alt+Fn: the focus moves, the window is not raised |
| `Exit`, `Open` | a shell halts, and init opens another |

Three details of the code are in the model because a property met them: the
place that takes a click is one wider than what is drawn (`gui.c:958`); the
status bar and the clock are drawn over windows; and while `showing_term` is
NULL the flags are cleared without a drawing, which `missed` remembers. A held
button that drags nothing toggles what is under it at each packet.

### `Files`

`files[t]` is the descriptor array of task `t`, `n_opend_files`, `rtc_id` the
PCB's fields, `virtual_ctr, ticks` the clocks, `dsp_status` whether the card is
taken. Calls run with interrupts on; what a call does to its own PCB nobody
else sees, so an action goes on until the next access to a clock or the card,
and `pc[t]` says where the task is.

| action | code |
|---|---|
| `OpenFile`, `OpenDir` | `sys_open` with `local_fs_open` of a file or directory |
| `OpenFails` | opens that find no entry, no free clock, or the card on |
| `RtcFind`, `RtcTake` | `rtc_open`: the search for a free clock, then taking it |
| `AudioCheck`, `AudioReset` | `audio_open` before and after the test of `dsp_status` |
| `Close`, `CloseRtc`, `CloseAudio`, `StopAudio` | `sys_close` and the close of each kind |
| `ReadFile`, `ReadDir`, `ReadRtc`, `ReadRtcEnds`, `WriteRtc` | the reads and writes, with the size that was asked for; a read of the clock waits |
| `RtcInterrupt` | `rtc_interrupt_handler`'s part of the clocks |
| `Halt`, `Execute` | `close_all_files`, `init_file_arr` |

The fault `no_clock` is the use of a clock through `rtc_id` -1, after a task that
opened the RTC twice closed it once. Descriptor 8, which `fd > N_FILE_LIMIT`
accepts (`sys_call.c:80`), is not modelled: what lies there is the rest of the
PCB. `MCFiles` also states that `Disk`'s equations are what the loop of
`read_data` computes (`ReadDataIsLoop`), bad block numbers included.

### `Sound`

The player (`pc, i, length, left`, what it has open), the driver (`pos`, the
two halves `buf`, `heard` for `interrupt_flag`) and the card (`running, auto,
half, irq`, and what it has `played`). `OpenWav` ... `Close` follow `play_wav`;
`BlockEnds` is the card reaching the end of a half and `DspInterrupt` the
handler. The player promises nothing once it is `late`, that is when a chunk
ends before it waits for the end, or the next one before it has told the card
to stop there: the code has no recovery, and the properties are about a player
that is not late.

### `Signal`

`phase[t]` says whether `t` is in user mode, in a call, before `check_signal`,
between the two halves of sigreturn, or halted; `hw` are its registers on the
kernel stack, `saved` those copied to the user's stack.

| action | code |
|---|---|
| `UserStep`, `Patch`, `Exception`, `Call`, `SetHandler`, `Halt` | what a program does |
| `SystemHalt` | `system_halt`, from a call or from a default handler: the program is gone, the addresses of its handlers stay in the PCB (`"stale"`) |
| `CallReturns`, `CheckSignal`, `Deliver` | `check_signal` at the end of an entry: a user's handler or the default one |
| `SigReturn`, `FetchEax` | `sys_sig_return`, and the load of `eax` from the global pointer after it (`signal_assmbly.S:172`) |
| `CtrlC`, `SwitchTerminal`, `Pit` | `handle_input`, focus, the timer with the alarm |
| `Execute` | `task_signal_init` of a new program in the PCB |

Delivery of one signal clears all the pending ones, and one mask is saved: both
are so in the model.

### `Pic`

`isr` are the lines in service, `masked` those that are off, `frames[t]` the
handlers on the kernel stack of `t`. `Accept` is an interrupt taken, `SendEoi`
an acknowledgement, `Tick` and `Reschedule` the timer's handler, `Iret` the
return. All gates are trap gates (`reserved3 = 1`), so a handler is interrupted
anywhere but in its critical sections. The keyboard's and the card's
interrupts are acknowledged twice (`terminal.c:151` and `boot.S:450`,
`sound_card.c:171` and `boot.S:463`), the second time perhaps for another
handler's.

### `Paging`, `Strings`, `Programs`

These have no state: their operators are functions of their arguments, and
`MCPaging`, `MCStrings` and `MCPrograms` state what is true of them over all
small inputs as assumptions, which TLC evaluates in the runs `pic` and `sound`.

- `Paging`: the three entries that a switch of tasks changes give a program its
  4 MB and the page of its terminal and nothing else (`UserReachesOwn`); no
  page of a program is one the kernel, the sound or the screen uses
  (`ProgramPagesApart`); a terminal's text has one page behind its three
  addresses (`OnePagePerTerminal`). The audio pages are not mapped one to one,
  as `paging.c:297` says they are, but to the frames from 0 on; the page register of
  the DMA controller drops the same bits, so that the samples are read where
  they were written (`SamplesAreRead`).
- `Strings`: `memcpy` copies when the blocks are apart or the destination is the
  lower; `memmove` whatever the overlap; `memset` whatever the alignment; the
  comparisons of the kernel and of the user library agree on equality, and on
  order over 7-bit characters. `memset_word` and `memset_dword` count units,
  where their comments say bytes.
- `Programs`: a program gets the arguments that were typed, and what `cat`
  prints is the file. The terminator of the arguments overwrites the first
  character of the name put beside them (`process.c:233`); `sys_get_args`
  accepts a buffer of exactly the length and leaves it unterminated; a string
  literal that is executed a second time has lost its arguments
  (`process.c:527`). `grep` prints each line that holds the string, in order,
  wherever the reads cut the lines, provided they fit its buffer; a newline
  that happens to stand behind the buffer cuts a line (`GrepCutsALine`).

## 3. Runs

| run | cfg | states | shows |
|---|---|---|---|
| two_terminals | `MCProcess.cfg` | 1.3 million | the safety invariants of `Process`: 4 PCBs, 2 terminals, 1 tick per quantum |
| system | `MCProcessSystem.cfg` | 245,000 | quanta of 2 and 1 ticks, users start shells too, a nonzero `idle_task`: `QuantumBounded`, the refinement of `ProcessTree`, `NoOvertaking`, `RoundRobin`, `TerminalsServed` |
| line | `MCTerminal.cfg` | 5.1 million | the safety invariants of `Terminal`, a buffer of 3 bytes, 2 terminals up to symmetry |
| enter | `MCTerminalLive.cfg` | 300,000 | `EnterEndsRead`, a buffer of 2 bytes |
| full_line | `MCTerminalFull.cfg` | stops | the overflow of the line buffer |
| files | `MCFiles.cfg` | 288,000 | two tasks, four descriptors, one clock for programs, one card, a file of two blocks |
| sound | `MCSound.cfg` | 3,900 | files of no, some and whole chunks; the assumptions of `MCStrings`, `MCPrograms` |
| signal | `MCSignal.cfg` | 145,000 | two tasks, one of which handles its exceptions |
| context | `MCSignalContext.cfg` | stops | both handle them: sigreturn takes the other's `eax` |
| screen | `MCScreen.cfg` | 72,000 | two terminals of 2 by 2 characters; the refinement of `Lines` |
| windows | `MCWindows.cfg` | 1.6 million | three windows on two cells, one of them below the bar |
| pic | `MCPic.cfg` | 6,000 | two tasks, two handlers on a stack, five lines; the assumptions of `MCPaging` |

### Bounds, and why they are enough

- `Process`: none but the constants. Four PCBs are init, two shells and one
  executed program: the smallest population in which init starts a shell while
  another terminal's shell has a child, and in which the table is full. A
  quantum of one tick lets a preemption come between any two actions, which is
  every interleaving a longer one allows; `system` has longer ones for what
  depends on them. The view `Read` of `two_terminals` takes states for one that
  differ only in what no step reads before it writes it: the fields of a PCB that
  is free or about to be filled in (but for the terminal of one that is still on
  show), `running_term`, which `Screen` reads and `Process` only writes, and
  everything after a fault. No invariant of the run but `TypeOK` says anything of
  these; what `TypeOK` says of them is proved.
- `Terminal`: `MaxNested` handlers on one kernel stack. One lets keys overtake
  one another already, because two tasks may each hold one; the proofs cover
  deeper nesting. Three bytes hold a full line, a newline that was counted and
  one that was not; two are the smallest buffer in which Enter finds the line
  full while somebody waits. Ctrl+C is the one editing key of `enter`: like
  backspace it can remove the newline the reader waits for.
- `Screen`: two rows and two columns wrap, scroll and erase over the end of a
  line. Keys come while a task is shown. The view `Seen` leaves out the
  cursor put by of the running terminal: `terminal_set_running` overwrites it
  before it reads it, and no property mentions it.
- `Windows`: one terminal is written to and one exits at a time; packets are
  whole; nobody clicks before the first picture. The view `Read` keeps of a
  drawn content only whether it is what the terminal holds now, the one thing
  that drawing and the properties compare, and forgets where the last drag
  began once it is over.
- `Files`: two tasks find the same free clock, both want the one card, and with
  four descriptors, two of which are the terminal's, the array is full. The
  file's blocks are stored out of order and the last one is half full. They
  share one clock, so that they take it at once, or find it taken; what several
  clocks may do to one another is left to the proofs, which are for any number.
  `Asks` are the sizes that are asked for, of which the smaller cuts a name of
  `NameLimit` short.
- `Sound`: a chunk of two samples; files that end before, at and behind each of
  the first chunks. `PlayedBound` ends the playing of a late player, which goes
  on for ever.
- `Signal`: an alarm at each step is the fastest one; only the alarm's ratio to
  the quantum is lost.
- `Pic`: `MaxFrames` handlers on one kernel stack; two let any line interrupt any
  other. Deeper stacks are the business of the proofs.

### What the properties say

`Process`: `QueueExact`, `WaitDiscipline`, `RunnerReady` (the run queue and the
waiting marks, wherever init is interrupted between two of its accesses, until
that tears the list); `ForegroundIsLeaf` (the keys of a terminal go to its one
ready task); `PageOwnership` (no shared pages, `n_page_in_use` exact, until
`shared_page` or `lost_pages`); `TerminalSlots` (no slot leaks, init never
finds all slots taken); `CountCovers` (the PCB count never falls below the PCBs
in use; it may exceed them, because a create that passes the limit and then
finds no PCB is counted, `process.c:400-410`); `RunnerContext` (a program runs
on its stack and never in another program's page, though perhaps in none of its
own); `QuantumBounded` (the unsigned quantum never wraps); `NoOvertaking`
(skipping waiting tasks keeps the order of the ready ones); `ImplementsTree`;
`RoundRobin`, `TerminalsServed` (liveness). All of them are about a kernel
without a fault so far, and the liveness is too: a behaviour that runs into a
fault satisfies it.

`Terminal`:
`ReadWellFormed` (whatever is typed between the two critical sections of a read,
it returns a line that ends in a newline and is at most one byte longer than
asked for, `terminal.c:254-258`; a caller must provide that byte);
`NoEnterAhead` (between two reads there is no newline in the buffer);
`EnterEndsRead` (Enter wakes the reader, even of a full line; with the bound
check that would repair the overflow of `full_line`, and nothing else changed,
this fails: that is its mutant).

`Files`: `CountExact` (`n_opend_files` is the number of descriptors in use, so
that `allocate_fd` finds one whenever it is asked, after opens that failed
too); `DevicesOwned` (no clock and no card is lost: while taken, each is held
by a task that will give it back. It does not say by one only: two tasks that
race for a clock or the card may both get it, `rtc.c:116-125`,
`sound_card.c:35`); `ReadsMatchFile` (successive reads return the file in
order, or the names of the directory, as much of each as was asked for);
`RtcReadEnds` (a read of the clock ends, unless two tasks were given the same
one and wind it up for each other).

`Sound`:
`PlaysInOrder`, `NeverOverwrites`, `CardReleased`, `PlayerEnds`, and
`PlaysAllButTail`: the player closes the card while the last chunk plays, so
that as much as a whole chunk is lost (`wav_player.c:163`), and no more.

`Signal`:
`MaskMatchesHandler` (handlers do not nest, and one saved mask and context are
enough); `OwnHandlers` (no program has the handlers of the one before it, which
its halt leaves in the PCB: `task_signal_init` has to take them out);
`KeptInHandler` (nothing sent to a task in its handler is forgotten); `Served` (a
program that faults does not stay at the instruction, and Ctrl+C reaches one
that never calls the kernel).

`Screen`: `ImplementsLines` (the screens that are not spoilt);
`OutputStaysHome` (what a task writes goes to its terminal, and spoils no
other; a shell has to be interrupted once before that is so, section 4);
`UserPageOwn` (the page a program draws on is never another terminal's).

`Windows`:
`Stacked` (the priorities stay a permutation, the dragged window on top);
`PictureTrue` (when no flag is set the screen shows the topmost window at each
place with what it holds now, and one pointer); `PressTakesSeen` (a press takes
the window that is seen under the pointer).

`Pic`:
`SlaveAlone` (the handlers of the RTC, which draws, and of the mouse, which
moves what is drawn, exclude each other); `ServiceHasHandler` (a line in service
has a handler that will end it); `ServiceEnds` (no line stays in service for
ever). The way out of the timer's handler for a full stack
(`scheduler.c:265`), which acknowledges nothing, is the mutant of
`ServiceHasHandler`.

### Fairness

The PIT never stops while the machine is up, so its tick is weakly fair, or
strongly where a handler may block it now and then (`Pic`); a task, init
included, executes instructions in each quantum it gets, so its steps are
strongly fair, and those of a handler too. The RTC, the card and the handler of
the card are weakly fair: they are periodic. Nothing makes a program halt,
execute or read, a user press a key, or a shell refrain from exiting.

`RoundRobin` and `TerminalsServed` are conditional on quanta running out
infinitely often, and that condition is not idle (section 4). `TerminalsServed`
also assumes that shells at last stop exiting, because `terminal_allocate` hands
out the lowest free slot whatever terminal init found empty. In `Signal` and
`Pic` each task gets its turn, which is `RoundRobin` under the same condition.
In `Sound` nothing says that the player is on time. `Served` is about programs
whose calls return, which `terminal_read` need not: for the program that never
calls the kernel it says all there is to say.

## 4. Findings

Shown by a run of their own:

1. `terminal.c:120`: Enter runs past the end of the line buffer (run
   `full_line`).
2. `signal_assmbly.S:172`: sigreturn loads `eax` through a global that another
   task's sigreturn may have set meanwhile (run `context`).

Met while modelling, and in the models as they are in the code:

- `process.c:314`: every child that halts gives its parent a fresh quantum, so a
  shell that executes short commands starves the others, against the round
  robin of the repository's `README.md:14`;
- `page_lib.c:69-84`: a page that init has chosen is not reserved until later
  (fault `shared_page`);
- `process.c:180`: `get_another_terminal_id` returns the wrong variable (fault
  `null_showing_task`);
- `terminal.c:160`: a key press moves the running terminal away from the shell
  that init is about to enter, so that its first output goes elsewhere, until it
  is interrupted once;
- `page_lib.c:83` (fault `lost_pages`): `n_page_in_use++` of init and of a program at
  once count one page; when the count falls to 0 with programs alive their
  pages are all given away (`page_lib.c:50-54`);
- `scheduler.c:77` (fault `torn_list`): `append_to_list_end`, called by init with
  interrupts on, hangs the new node behind one that is no longer the last, and the
  tasks behind that are lost;
- `process.c:400-404` (faults `lost_count`, `shared_pcb`), `scheduler.c:142-147`
  (`shared_node`), `process.c:272-286` (`no_frame`), `page_lib.c:78` with
  `scheduler.c:225` (a shell is entered without its page): other ways in
  which init's interruptible `sys_execute` goes wrong. Each is reachable in
  `Process`, and all have one remedy, `cli` around the calls of
  `process.c:519-532`, as the call of the music player has already;
- `process.c:264`: an init that is preempted in `clear()` goes on clearing
  terminal 0, whose shell may be at work (`Draw` in `Screen`);
- `rtc.c:116-125`, `sound_card.c:35`: two tasks may get the same clock, and both the
  card;
- `rtc.c:97`: a task that opens the RTC twice and closes it once uses clock -1
  (fault `no_clock`);
- `wav_player.c:163`: the last chunk is not played to its end; `:119`: a wav file
  that cannot be played stays open until halt;
- `gui.c:958` and the flags cleared while nothing is shown: see `Windows`.

## 5. Proofs

| theorem | property | assumed of the constants |
|---|---|---|
| `ProcessProofs!TypeCorrect` | `TypeOK` | 2 to 255 PCBs, a list node for each, a terminal, quanta that are multiples of the decrement and fit their word |
| `QueueAlwaysExact`, `WaitAlwaysMatched`, `RunnerAlwaysReady` | `QueueExact`, `WaitDiscipline`, `RunnerReady` | the same |
| `RescheduleAlwaysEnds` | `RescheduleTerminates` | the same |
| `TreeImplemented` | `ImplementsTree` | the same |
| `NeverOvertaken` | `NoOvertaking` | the same |
| `QuantumAlwaysBounded`, `CountAlwaysCovers` | `QuantumBounded`, `CountCovers` | the same |
| `PagesAlwaysOwned`, `RunnerAlwaysInContext` | `PageOwnership`, `RunnerContext` | the same |
| `KeysAlwaysToLeaf`, `SlotsAlwaysOwned` | `ForegroundIsLeaf`, `TerminalSlots` | the same |
| `TerminalProofs!TerminalTypes`, `ReadsAreWellFormed`, `NeverEnterAhead` | `TypeOK`, `ReadWellFormed`, `NoEnterAhead` | a buffer of at least two bytes |
| `ScreenProofs!ScreenTypes` | `TypeOK` | two terminals, rows and columns or more; the blank is no character |
| `UserPageAlwaysOwn`, `OutputAlwaysHome` | `UserPageOwn`, `OutputStaysHome` | the same |
| `LinesImplemented` | `ImplementsLines` | the same |
| `WindowsProofs!AlwaysStacked`, `WindowsTypes` | `Stacked`, `TypeOK` | a screen and windows of at least one place |
| `PictureAlwaysTrue`, `SeenIsTaken` | `PictureTrue`, `PressTakesSeen` | the same |
| `FilesProofs!CountAlwaysExact`, `DevicesAlwaysOwned` | `CountExact`, `DevicesOwned` | a disk as `Disk` describes it, more than two descriptors, a clock |
| `ReadsAreTheFile` | `ReadsMatchFile` | the same |
| `SoundProofs!SoundTypes` | `TypeOK` | a chunk of at least one byte, some lengths of files |
| `FileInOrder`, `OnlyTailUnplayed` | `PlaysInOrder`, `PlaysAllButTail` | the same |
| `CardAlwaysReleased`, `HalvesApart` | `CardReleased`, `NeverOverwrites` | the same |
| `SignalProofs!SignalTypes`, `HandlersDoNotNest`, `NoHandlerInherited`, `SignalsKept` | `TypeOK`, `MaskMatchesHandler`, `OwnHandlers`, `KeptInHandler` | none but types |
| `PicProofs!PicTypes`, `SlaveHandlersAlone`, `NoOrphanedService` | `TypeOK`, `SlaveAlone`, `ServiceHasHandler` | room for one handler on a stack |

Every theorem is about the specification itself, `Spec => []Inv` or
`Spec => [][A]_vars`. What a property says only up to the first fault (`Up`), of
a screen that is not spoilt or of a player that is not late, its theorem says
under the same condition, which stands in the property. The refinements are
shown step by step: initial states map to initial states, and each step to a
step of the abstract specification or to none; neither abstract specification
states fairness. No invariant below is the property alone.

**Process.** `IInv` adds four things to the properties of the queue: the locals of
init's `sys_execute` are indices where it uses them (`Locals`);
`Starting` follows the task init is building from its PCB to its first
instruction (it has no parent, nobody waits for it, and it is neither on the
CPU nor, before `add_task_to_list`, in the queue), so that neither a preemption
nor a halt can confuse it with a live one; init itself never leaves the queue,
so a halt leaves somebody to run; and `Grounded` says that no tasks wait for one
another in a circle. `Grounded` is what makes `reschedule` end: a nonempty set of
tasks has one nobody in the set is a child of, and by `WaitDiscipline` that one
does not wait. It is stated over sets of tasks, not over paths, so that no
induction is needed. `FamilyAdmits`, `FamilyCalls`, `FamilyReturns`, `FamilyExits`
say that starting a shell, execute, and the two kinds of halt keep the family
grounded; `UnlinkedFacts`, `AppendFacts` and `RotatedFacts` say what the list
operations do to the queue. There is one lemma per action (or per group that
changes the same things) and `NextIInv` puts them together.

The queue is one sequence in every state, also halfway through init's append,
because a list that a preemption tears there is a fault: the theorems about it
say that nothing but the steps `TickTears` and `SpawnLinkLast` can do that.

`TreeImplemented` needs `IInv` only: `Tree*` match each way in which execute and
halt end to a step of `ProcessTree`. `NeverOvertaken` compares positions in the
queue (`Before`): appending and unlinking keep the order of those that stay, and
a rotation brings to the front only the next ready task, so that no ready one
passes another (`OrderKept`).

The other properties of `Process` rest on a second invariant, `SInv`, which is
inductive given `IInv`. Its parts are about init's interruptible `sys_execute`, in
which a task exists that is in no list and whose fields are filled in one at a
time:

| part | what it adds |
|---|---|
| `Lineage` | a child is on its parent's terminal; an owner has a terminal; the task init makes is a shell that owns its own |
| `TimeOK` | what is left of a quantum is a whole number of ticks: `QuantumBounded` alone would allow a rest that the next charge takes below 0 |
| `PagesOK` | owners and pages match one to one from the moment a page is marked; the new task is an owner before its PCB says so and before it is listed; between the store of `n_page_in_use` and the mark the count is one ahead |
| `InitBehind` | once the new shell is listed and init is off the CPU, the shell stands before init in the queue, so that the scheduler reaches it first: init does not come back |
| `ContextOK` | from the mapping on, an init on the CPU has the new shell's page mapped or, resumed after a preemption, none; by `InitBehind` nothing comes between the store to `tss.esp0` and the entry |
| `NodesOK`, `ScansOK`, `TermLeft` | the nodes taken are those of the listed tasks and of the one being listed; what init scans for is still ahead of it: init has no page and the new task no node yet, so that a page and a node are left (`Spare`, a pigeonhole) |
| `CountOK` | between `n_present_pcb++` and the mark in the PCB, the count is one more than the PCBs in use |
| `OwnersOK` | slots and owners match one to one |
| `KeysOK` | the keys of a terminal go to its ready task, which in three steps of init is not listed yet |
| `SlotLeft` | the slots taken are those init has passed; once all are on, init starts a shell only for a terminal without a task |

`ScansOK` is why the faults `no_node` and the failure of `set_page_for_task`
for want of a page cannot come up. `SlotLeft` with `EmptyTerminal` is why
`terminal_allocate` never fails there: a terminal that has tasks has one that
waits for nobody (`Grounded`), which is the foreground task (`KeysOK`), so a
terminal without a foreground task has no task and by `OwnersOK` no owner.
`StepCases` sorts the steps by what they may change; `ExecuteCases`,
`HaltRootFacts`, `HaltChildFacts` and `PreemptFacts` say once what the four
large actions do, for all the parts of `SInv`.

**Terminal.** The conjunction of the three lacks that a read which has left its
busy loop no longer asks (`CopyAsksNothing`), so that an Enter that arrives
between the two critical sections is dropped and not stored. `InputFacts` is the
lemma about `handle_input`, `LineFacts` the one about what is copied out.

**Files.** A call passes the test of the count, is interrupted, and takes its
descriptor later. `FitsAt` says of each task, by where it is in a call, what
the test still guarantees: room for one more descriptor between the test and
the taking, a clock of its own before it takes it, the card among its
descriptors before it stops it, nothing open but the terminal when it is dead.
With `DevicesOwned` and the types that is inductive, because a task's
descriptors are changed by nobody else; `StepKeeps` reduces each action to the
task that moves. `OpenCount` is the lemma about an array and the number of its
open entries. An open that fails changes nothing (`UnchangedInductive`).
`Reads` says of each descriptor that its position is the number of bytes (or
entries) it has returned and that these are the first of its file, each name
cut at the size that was asked for; a descriptor that was closed and taken
again begins anew, with position 0 and nothing read. `ReadBytesFacts` is about
`read_data`: what it copies out of blocks that lie anywhere on the disk is the
file from that position, as much as was asked for or is left.

**Sound.** `IInv` relates the bytes that were read to those that were played. The
player is at most the buffer ahead (`Gap`), the half that is played next holds
the chunk that follows what was played and the other half the one behind it
(`Holds`), and at each place in `play_wav` that lead, the position of the audio
descriptor and the half of the card determine one another (`Stage`); this is
what makes alternate chunks go to alternate halves, though the player keeps only
a position that wraps around. A late player breaks all of it, and nothing is
said of it but that it releases the card (`CardHeld`).

**Screen.** `Lines` reads a buffer up to the cursor only. So it needs that nothing
is left behind the cursor (`Clean`), or a newline would bring old characters into
a line; `putc`, `delete_last`, the scrolling and every switch keep that on the
screens that are not spoilt. `NewlineLines`, `PutLines`, `EraseLines` and
`EmptyLines` relate each operation on a buffer to the operation of `Lines` on
lines: a newline on the bottom row scrolls the first line away, a character in
the last column begins a line, and backspace in the first column goes back to
the end of the line above. `StepEffect` says which of them a step applies to
which screen, and that it leaves the others alone.

What init and the kernel's messages touch is spoilt at the first access
(`Touch`), and `AtHome` says that a task which has been interrupted once writes
to its own terminal: so a `Touch` of such a task spoils its own screen only.
`TitleEffect` is the one place where an opening is seen to have been
undisturbed.

**Signal.** `OwnHandlers` is inductive by itself: only a halted task has stale
handlers, and `Execute` removes them. `MaskMatchesHandler` needs that a halted
task has nothing on its user stack (`HaltedIsClean`), so that the next program
in the PCB starts without a saved context, and that between the two halves of
sigreturn the global points at some task (`FetchHasContext`).

**Pic.** `OneUnacked`: of all the handlers of the slave's lines, on all stacks,
at most one still owes the master its acknowledgement, and while it does the
cascade is in service and admits no other. `EachServed` gives each line in service
the handler that serves it, the timer's on top of the running stack. A second
acknowledgement may end the service another handler is in; the argument is that
it can end only its own line's, and that an earlier handler of the same line
serves nothing more. Neither the number of tasks nor `MaxFrames` matters.

**Windows.** `Gripped` says where the mouse holds the dragged window: on it, or
just beside it. So a window that is let go is put where its edge can still be
clicked, which is what the range of `pos` in `TypeOK` means. `PriorityUpdated`
says that `update_priority` makes a permutation of a permutation. `Picture`
adds that the screen shows the frame buffer but for the pointer (`Shown`), that
nothing of a window is left where no window is unless the background is to be
redrawn (`DeskClean`), and that what no flag calls out of date was drawn as it
is (`Drawn`); `UpdateFacts` says that `update_screen` restores all three,
whichever of its branches the flags choose.

Only model-checked: what is evaluated of `Strings` and `Programs`, whose loops
are recursive definitions over the bytes of a memory, for which TLAPS lacks the
induction; what is evaluated of `Paging`, whose numbers are the hardware's, so
that the evaluation covers all of them already; and liveness (`RoundRobin`,
`TerminalsServed`, `EnterEndsRead`, `RtcReadEnds`, `PlayerEnds`, `Served`,
`ServiceEnds`), which is beyond it, as is `ENABLED`. All safety invariants and
action properties of the passing runs over state machines, and both
refinements, are theorems.

## 6. Plan

1. `TaskList`: the doubly linked list with its sentinel and node pool
   (`scheduler.c:71-178`), shown to implement the sequence `queue`.
2. What `ProcessTree` promises by itself: that its callers form a forest, so that
   whoever calls is waited for by somebody who runs.

## 7. Not modelled

The layout of saved registers, the segment descriptors and the TSS but for
`esp0` (`x86_desc.S`); the depth of kernel stacks (`scheduler.c:265-268`; the path
is a mutant); formatting of `printf`, fonts, bitmaps and colours; the port macros
and the PC speaker and CMOS clock behind them, which keep no state; the kernel's
own tests, which are a source of intended behaviour. The shell and the other
user programs are clients that may make any call; `fish` is one
of them, with its own picture. The parsing of an
executable's and of a wav file's header is a choice of success or failure.

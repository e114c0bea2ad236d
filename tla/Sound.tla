------------------------------- MODULE Sound --------------------------------
(***************************************************************************)
(* The wav player of HEROS (wav_player.c, and the same program for users   *)
(* in ece391wav_player.c) and the sound card driver under it               *)
(* (sound_card.c).                                                         *)
(*                                                                         *)
(* The card plays a DMA buffer of two chunks, a chunk at a time, and       *)
(* interrupts at the end of each. The player keeps one chunk ahead: it     *)
(* fills one half while the card plays the other, waits for the interrupt, *)
(* and asks the card to stop after the chunk that has just begun. The card *)
(* is not part of the repository; it does what the comments at the         *)
(* commands the player sends say (wav_player.c:155-170).                   *)
(*                                                                         *)
(* A wav file is 1 .. length: its bytes, counted after the header.         *)
(***************************************************************************)
EXTENDS Integers, Sequences, FiniteSets, SequencesExt

CONSTANTS
  Chunk,     (* DMA_CHUNK_SIZE_BYTES                                       *)
  Lengths    (* how long the files are that users play                     *)

BufLen == 2 * Chunk     \* DSP_BUF_LEN
Half(h) == h * Chunk .. (h + 1) * Chunk - 1

ASSUME ChunkAssumption == Chunk \in Nat \ {0}
ASSUME LengthsAssumption == Lengths \subseteq Nat /\ Lengths # {}

VARIABLES
  pc, i, length, left,  \* the player: what sys_read returned; what it has not read
  file,                 \* how long the file is
  open,                 \* the descriptors the player holds
  failed,               \* it returned -1
  pos, buf,             \* f_pos of the audio descriptor, the DMA buffer
  heard,                \* dsp_int_cnt # temp
  running, auto, half,  \* the card: playing; in auto-init mode; which half
  irq,                  \* the card's interrupt, not yet handled
  played,               \* what was heard of the file
  late                  \* the player missed a block (see Late)

player == <<i, length, left, file>>
driver == <<pos, buf>>
card   == <<running, auto, half, irq, played, late>>
vars == <<pc, player, open, failed, driver, heard, card>>

Min2(a, b) == IF a <= b THEN a ELSE b
-----------------------------------------------------------------------------
(* audio_write of n bytes: it wraps around at the end of the buffer, where *)
(* pos may stay until the next write.                                      *)
PosAfter(n) == IF pos + n > BufLen THEN pos + n - BufLen ELSE pos + n

BufAfter(first, n) ==
  [k \in 0 .. BufLen - 1 |->
     LET at == (k - pos) % BufLen IN IF at < n THEN first + at ELSE buf[k]]

(* audio_ioctl with the commands of the player                             *)
CardStarts == running' = TRUE /\ auto' = TRUE /\ half' = 0
CardResumes == running' = TRUE /\ UNCHANGED <<auto, half>>
CardStops == running' = FALSE /\ UNCHANGED <<auto, half>>

(* Mutant: the card is not told to stop after the block.                   *)
CardKeepsOn == UNCHANGED <<running, auto, half>>

CardExitsAfterBlock == auto' = FALSE /\ UNCHANGED <<running, half>>
-----------------------------------------------------------------------------
(* play_wav *)

(* The file is opened, and must have a header that the player supports;    *)
(* then the card, which may be taken. If it is, the file stays open.       *)
OpenWav(len) ==
  /\ pc = "idle"
  /\ file' = len /\ left' = len
  /\ i' = 0 /\ length' = 0
  /\ played' = << >> /\ late' = FALSE
  /\ \/ pc' = "audio" /\ open' = open \cup {"wav"} /\ failed' = FALSE
     \/ pc' = "done" /\ failed' = TRUE /\ UNCHANGED open
  /\ UNCHANGED <<driver, heard, running, auto, half, irq>>

(* audio_open resets the card; a new descriptor begins at 0.               *)
OpenAudio ==
  /\ pc = "audio"
  /\ \/ /\ pc' = "load" /\ open' = open \cup {"audio"}
        /\ pos' = 0
        /\ running' = FALSE /\ auto' = FALSE /\ half' = 0
        /\ UNCHANGED failed
     \/ pc' = "done" /\ failed' = TRUE
        /\ UNCHANGED <<open, pos, running, auto, half>>
  /\ UNCHANGED <<player, buf, heard, irq, played, late>>

(* Mutant: the card is started with the first chunk.                       *)
AtOnce(n) == IF n = 0 THEN "start" ELSE "resume"

(* What follows a chunk: the first one is only loaded, with the second the *)
(* card is started, with the others it goes on.                            *)
AfterLoad(n) == CASE n = 0 -> "load" [] n = 1 -> "start" [] OTHER -> "resume"

(* Mutant: a short chunk ends the loop before the one under way has ended.  *)
EndOfFileShort(n) == n < Chunk /\ (i = 0 \/ i > 1)

EndOfFile(n) == n = 0 /\ (i = 0 \/ i > 1)

(* One round of the loop: a chunk is read and written to the buffer.       *)
Load ==
  /\ pc = "load"
  /\ length' = Min2(Chunk, left)
  /\ left' = left - length'
  /\ buf' = BufAfter(file - left + 1, length')
  /\ pos' = PosAfter(length')
  /\ IF EndOfFile(length')
     THEN pc' = "close" /\ UNCHANGED i
     ELSE /\ pc' = AfterLoad(i)
          /\ i' = IF i = 0 THEN 1 ELSE i
  /\ UNCHANGED <<file, open, failed, heard, card>>

Start ==
  /\ pc = "start"
  /\ CardStarts
  /\ pc' = "ask"
  /\ UNCHANGED <<player, open, failed, driver, heard, irq, played, late>>

(* Mutant: the card is told to go on after the first chunks only.          *)
ResumeOnce ==
  /\ pc = "resume"
  /\ IF i = 2 THEN CardResumes ELSE UNCHANGED <<running, auto, half>>
  /\ pc' = "ask"
  /\ UNCHANGED <<player, open, failed, driver, heard, irq, played, late>>

Resume ==
  /\ pc = "resume"
  /\ CardResumes
  /\ pc' = "ask"
  /\ UNCHANGED <<player, open, failed, driver, heard, irq, played, late>>

(* audio_read: it notes the count of interrupts ...                        *)
Ask ==
  /\ pc = "ask"
  /\ heard' = FALSE
  /\ pc' = "wait"
  /\ UNCHANGED <<player, open, failed, driver, card>>

(* ... and spins until it changes.                                         *)
Wake ==
  /\ pc = "wait" /\ heard
  /\ pc' = "exit"
  /\ UNCHANGED <<player, open, failed, driver, heard, card>>

ExitBlock ==
  /\ pc = "exit"
  /\ CardExitsAfterBlock
  /\ IF length < Chunk
     THEN pc' = "close" /\ UNCHANGED i
     ELSE pc' = "load" /\ i' = i + 1
  /\ UNCHANGED <<length, left, file, open, failed, driver, heard, irq, played, late>>

(* audio_close stops the card at once.                                     *)
Close ==
  /\ pc = "close"
  /\ CardStops
  /\ open' = open \ {"wav", "audio"}
  /\ pc' = "done"
  /\ UNCHANGED <<player, failed, driver, heard, irq, played, late>>

(* Mutant: wav_player_fail closes the file and not the card.               *)
FailHalf ==
  /\ pc = "load"
  /\ CardStops
  /\ open' = open \ {"wav"}
  /\ failed' = TRUE /\ pc' = "done"
  /\ UNCHANGED <<player, driver, heard, irq, played, late>>

(* wav_player_fail, when the file cannot be read any further.              *)
Fail ==
  /\ pc = "load"
  /\ CardStops
  /\ open' = open \ {"wav", "audio"}
  /\ failed' = TRUE /\ pc' = "done"
  /\ UNCHANGED <<player, driver, heard, irq, played, late>>

(* The next one is a new program; halt has closed what was left open.      *)
Again ==
  /\ pc = "done"
  /\ pc' = "idle" /\ open' = {}
  /\ UNCHANGED <<player, failed, driver, heard, card>>

(* The CPU takes a pending interrupt before the player's next instruction. *)
PlayerStep ==
  /\ ~irq
  /\ \/ OpenAudio \/ Load \/ Start \/ Resume \/ Ask \/ Wake \/ ExitBlock
     \/ Close \/ Fail
-----------------------------------------------------------------------------
(* The card at the end of a chunk: it interrupts and, unless it is in      *)
(* auto-init mode, stops.                                                  *)

(* The player is late if a chunk ends between its command to play and the  *)
(* moment it begins to wait, or if the next one ends before it has told    *)
(* the card to stop there.                                                 *)
Late == pc = "ask" \/ (auto /\ (irq \/ heard) /\ pc \in {"wait", "exit"})

(* Bound: how long a card that nobody stops is followed.                   *)
PlayedBound == Len(played) <= file + Chunk

BlockEnds ==
  /\ running /\ PlayedBound
  /\ played' = played \o [k \in 1 .. Chunk |-> buf[half * Chunk + k - 1]]
  /\ half' = 1 - half
  /\ running' = auto
  /\ irq' = TRUE
  /\ late' = (late \/ Late)
  /\ UNCHANGED <<pc, player, open, failed, driver, heard, auto>>

DspInterrupt ==
  /\ irq
  /\ irq' = FALSE
  /\ heard' = TRUE
  /\ UNCHANGED <<pc, player, open, failed, driver, running, auto, half, played, late>>
-----------------------------------------------------------------------------
Init ==
  /\ pc = "idle" /\ i = 0 /\ length = 0 /\ left = 0 /\ file = 0
  /\ open = {} /\ failed = FALSE
  /\ pos = 0 /\ buf = [k \in 0 .. BufLen - 1 |-> 0]
  /\ heard = FALSE
  /\ running = FALSE /\ auto = FALSE /\ half = 0 /\ irq = FALSE
  /\ played = << >> /\ late = FALSE

(* A player that waits for an interrupt that has already been spins on.    *)
Spin == pc = "wait" /\ ~heard /\ UNCHANGED vars

Next ==
  \/ \E len \in Lengths : OpenWav(len)
  \/ PlayerStep \/ Spin \/ Again
  \/ BlockEnds \/ DspInterrupt

Spec == Init /\ [][Next]_vars

(* The player gets the CPU, the card plays, its interrupt is handled.      *)
FairSpec ==
  Spec /\ WF_vars(PlayerStep) /\ WF_vars(BlockEnds) /\ WF_vars(DspInterrupt)
-----------------------------------------------------------------------------
TypeOK ==
  /\ pc \in {"idle", "audio", "load", "start", "resume", "ask", "wait",
             "exit", "close", "done"}
  /\ i \in Nat /\ file \in Nat
  /\ length \in 0 .. Chunk /\ left \in 0 .. file
  /\ open \subseteq {"wav", "audio"}
  /\ failed \in BOOLEAN
  /\ pos \in 0 .. BufLen /\ buf \in [0 .. BufLen - 1 -> Nat]
  /\ heard \in BOOLEAN /\ running \in BOOLEAN /\ auto \in BOOLEAN
  /\ half \in {0, 1} /\ irq \in BOOLEAN /\ late \in BOOLEAN
  /\ played \in Seq(Nat)

(* What a player that is never late lets the card play is the file in      *)
(* order, with nothing left out and nothing twice, whenever the interrupt  *)
(* comes while it reads the next chunk. Behind the end of the file the     *)
(* rest of its last chunk is whatever the buffer held.                     *)
Whole == [k \in 1 .. file |-> k]

PlaysInOrder ==
  ~late => SubSeq(played, 1, Min2(Len(played), file)) =
             SubSeq(Whole, 1, Min2(Len(played), file))

(* It never writes to the half of the buffer that the card is playing.     *)
NeverOverwrites ==
  [][Load /\ ~late /\ running => \A k \in Half(half) : buf'[k] = buf[k]]_vars

(* When the player has returned, the card is free for the next one and no  *)
(* longer running; only a player that did not get the card leaves its file *)
(* to halt.                                                                *)
CardReleased ==
  pc \in {"idle", "done"} =>
    /\ ~running /\ "audio" \notin open
    /\ (~failed => open = {})

(* A player that is not late ends: the interrupt it waits for comes.       *)
PlayerEnds == (pc = "audio") ~> (pc = "done" \/ late)

(* A player that returns 0 and was never late has had the whole file       *)
(* played but its last chunk: the one under way when it closes the card    *)
(* (wav_player.c:163, 173), even if that is a full one.                    *)
PlaysAllButTail ==
  pc = "done" /\ ~failed /\ ~late => Len(played) >= file - Chunk
=============================================================================

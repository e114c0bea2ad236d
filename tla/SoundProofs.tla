----------------------------- MODULE SoundProofs ----------------------------
(***************************************************************************)
(* What a wav player that is never late lets the card play, for every size *)
(* of the chunks and every length of the files: the bytes of the file in   *)
(* order, but perhaps those of the last chunk, from a half of the buffer   *)
(* that the player does not touch meanwhile; and the card is free when it  *)
(* has returned.                                                           *)
(*                                                                         *)
(* The invariant relates the bytes read (Got) to those played: the player  *)
(* is at most the buffer ahead (Gap), the half that is played next holds   *)
(* the chunk that follows what was played, the other half the one behind   *)
(* it (Holds), and at each place of play_wav the lead, the position of the *)
(* descriptor and the half of the card determine one another (Stage). A    *)
(* late player breaks all of this, and nothing is said about it.           *)
(***************************************************************************)
EXTENDS Sound, SequenceTheorems, TLAPS

Got == file - left
Gap == Got - Len(played)
At(h) == IF h = 0 THEN 0 ELSE Chunk

CardHeld ==
  /\ pc \in {"idle", "audio"} => ~running
  /\ pc = "idle" => open = {}
  /\ pc = "audio" => open = {"wav"} /\ ~failed
  /\ pc \in {"load", "start", "resume", "ask", "wait", "exit", "close"} =>
       open = {"wav", "audio"} /\ ~failed
  /\ pc = "done" => /\ ~running /\ "audio" \notin open
                    /\ (~failed => open = {})

InOrder == \A k \in 1 .. Len(played) : k <= file => played[k] = k

Holds ==
  \A k \in 0 .. Chunk - 1 :
    /\ Len(played) + k + 1 <= Got => buf[At(half) + k] = Len(played) + k + 1
    /\ Len(played) + Chunk + k + 1 <= Got =>
         buf[At(1 - half) + k] = Len(played) + Chunk + k + 1

Placed == pos = IF (half = 0) = (Gap = Chunk) THEN Chunk ELSE BufLen

First ==
  /\ Got = Min2(BufLen, file) /\ length = Got - Min2(Chunk, file)
  /\ length = Chunk => pos = BufLen

NextLoaded(gaps) ==
  /\ Gap - length \in gaps
  /\ length = Chunk => Placed
  /\ length < Chunk => left = 0

Fresh == left = file /\ i = 0 /\ length = 0 /\ played = << >>

Loading ==
  \/ /\ i = 0 /\ played = << >> /\ left = file /\ pos = 0 
     /\ half = 0 /\ ~auto /\ ~running
  \/ /\ i = 1 /\ played = << >> /\ Got = Min2(Chunk, file) /\ pos = Got
     /\ half = 0 /\ ~auto /\ ~running
  \/ /\ i >= 2 /\ ~auto /\ Gap \in {0, Chunk} /\ Placed
     /\ (running => Gap = Chunk)

Starting == i = 1 /\ played = << >> /\ half = 0 /\ ~running /\ First

Resuming ==
  /\ i >= 2 /\ ~auto /\ NextLoaded({0, Chunk})
  /\ running => Gap - length = Chunk

Under ==
  /\ running
  /\ \/ i = 1 /\ auto /\ played = << >> /\ half = 0 /\ First
     \/ i >= 2 /\ ~auto /\ NextLoaded({0, Chunk})

Over ==
  \/ i = 1 /\ auto /\ running /\ Len(played) = Chunk /\ half = 1 /\ First
  \/ i >= 2 /\ ~auto /\ ~running /\ NextLoaded({-Chunk, 0})

Closing == left = 0 /\ Gap <= Chunk /\ ~auto

Core == InOrder /\ Holds /\ Gap <= BufLen

Stage ==
  /\ pc = "audio" => Fresh
  /\ pc = "load" => Loading
  /\ pc = "start" => Starting
  /\ pc = "resume" => Resuming
  /\ pc = "ask" \/ (pc = "wait" /\ ~irq /\ ~heard) => Under
  /\ pc = "exit" \/ (pc = "wait" /\ (irq \/ heard)) => Over
  /\ pc = "exit" => heard
  /\ pc = "close" => Closing
  /\ pc = "done" /\ ~failed => Len(played) >= file - Chunk

InTime == Core /\ Stage

IInv == TypeOK /\ CardHeld /\ (~late => InTime)
-----------------------------------------------------------------------------
(* The distance of a place of a ring of n from the position p.               *)
LEMMA RingFacts ==
  ASSUME NEW n \in Nat \ {0}, NEW p \in 0 .. n, NEW k \in 0 .. n - 1
  PROVE  (k - p) % n = IF k >= p THEN k - p ELSE k - p + n
<1>1. \A x \in 0 .. n - 1 : x % n = x
  OBVIOUS
<1>2. \A x \in 0 .. n - 1 : (x - n) % n = x
  OBVIOUS
<1>3. CASE k >= p
  BY <1>1, <1>3
<1>4. CASE k < p
  <2> DEFINE x == k - p + n
  <2>1. x \in 0 .. n - 1 /\ k - p = x - n
    BY <1>4
  <2> HIDE DEF x
  <2>2. (k - p) % n = x
    BY <1>2, <2>1
  <2> QED  BY <1>4, <2>2 DEF x
<1> QED  BY <1>3, <1>4

LEMMA ChunkFacts == /\ Chunk \in Nat /\ Chunk >= 1
                    /\ BufLen = Chunk + Chunk /\ BufLen \in Nat \ {0}
  BY ChunkAssumption DEF BufLen

LEMMA AtFacts ==
  ASSUME NEW h \in {0, 1}, NEW k \in 0 .. Chunk - 1
  PROVE  /\ At(h) + k \in 0 .. BufLen - 1
         /\ h * Chunk = At(h)
         /\ 1 - h \in {0, 1}
<1>1. CASE h = 0
  BY <1>1, ChunkFacts DEF At
<1>2. CASE h = 1
  BY <1>2, ChunkFacts DEF At
<1> QED  BY <1>1, <1>2

(* What a write of n bytes leaves in each place of the buffer.             *)
LEMMA WriteFacts ==
  ASSUME TypeOK, NEW first \in Nat, NEW n \in 0 .. Chunk
  PROVE  /\ BufAfter(first, n) \in [0 .. BufLen - 1 -> Nat]
         /\ \A k \in 0 .. BufLen - 1 :
              LET at == IF k >= pos THEN k - pos ELSE k - pos + BufLen
              IN  BufAfter(first, n)[k] = IF at < n THEN first + at ELSE buf[k]
<1> DEFINE At0(k) == IF k >= pos THEN k - pos ELSE k - pos + BufLen
           B == BufAfter(first, n)
<1>1. /\ pos \in 0 .. BufLen /\ BufLen \in Nat \ {0}
      /\ buf \in [0 .. BufLen - 1 -> Nat]
  BY ChunkFacts DEF TypeOK
<1>2. \A k \in 0 .. BufLen - 1 : (k - pos) % BufLen = At0(k) /\ At0(k) \in Nat
  <2> SUFFICES ASSUME NEW k \in 0 .. BufLen - 1
               PROVE  (k - pos) % BufLen = At0(k) /\ At0(k) \in Nat
    OBVIOUS
  <2>1. (k - pos) % BufLen = At0(k)
    BY <1>1, RingFacts
  <2> QED  BY <1>1, <2>1
<1>3. B = [k \in 0 .. BufLen - 1 |->
             IF (k - pos) % BufLen < n THEN first + ((k - pos) % BufLen)
             ELSE buf[k]]
  BY DEF BufAfter
<1> HIDE DEF B
<1>4. \A k \in 0 .. BufLen - 1 :
        B[k] = IF At0(k) < n THEN first + At0(k) ELSE buf[k]
  BY <1>2, <1>3
<1>5. B \in [0 .. BufLen - 1 -> Nat]
  <2>1. \A k \in 0 .. BufLen - 1 : B[k] \in Nat
    BY <1>1, <1>2, <1>4
  <2> QED  BY <1>3, <2>1
<1> QED  BY <1>4, <1>5 DEF B

(* A write of nothing changes nothing; a write from the beginning of a     *)
(* half changes this half only.                                            *)
LEMMA FillFacts ==
  ASSUME TypeOK, NEW first \in Nat, NEW n \in 0 .. Chunk
  PROVE  /\ n = 0 => \A k \in 0 .. BufLen - 1 : BufAfter(first, n)[k] = buf[k]
         /\ pos \in {0, Chunk, BufLen} =>
              \A h \in {0, 1}, k \in 0 .. Chunk - 1 :
                BufAfter(first, n)[At(h) + k] =
                  IF (pos = Chunk) = (h = 1) /\ k < n THEN first + k
                  ELSE buf[At(h) + k]
<1> DEFINE At0(k) == IF k >= pos THEN k - pos ELSE k - pos + BufLen
           B == BufAfter(first, n)
<1>1. pos \in 0 .. BufLen /\ Chunk \in Nat /\ BufLen = Chunk + Chunk
  BY ChunkFacts DEF TypeOK
<1>2. \A k \in 0 .. BufLen - 1 :
        B[k] = IF At0(k) < n THEN first + At0(k) ELSE buf[k]
  BY WriteFacts
<1> HIDE DEF B
<1>3. ASSUME n = 0, NEW k \in 0 .. BufLen - 1
      PROVE  B[k] = buf[k]
  BY <1>1, <1>2, <1>3
<1>4. ASSUME pos \in {0, Chunk, BufLen}, NEW h \in {0, 1},
             NEW k \in 0 .. Chunk - 1
      PROVE  B[At(h) + k] = IF (pos = Chunk) = (h = 1) /\ k < n THEN first + k
                            ELSE buf[At(h) + k]
  <2> DEFINE j == At(h) + k
  <2>1. j \in 0 .. BufLen - 1
    BY AtFacts
  <2>2. At0(j) = IF (pos = Chunk) = (h = 1) THEN k ELSE k + Chunk
    <3>1. CASE h = 0
      BY <1>1, <1>4, <3>1, ChunkFacts DEF At
    <3>2. CASE h = 1
      BY <1>1, <1>4, <3>2, ChunkFacts DEF At
    <3> QED  BY <3>1, <3>2
  <2>3. B[j] = IF At0(j) < n THEN first + At0(j) ELSE buf[j]
    BY <1>2, <2>1
  <2> HIDE DEF j, At0
  <2>4. B[j] = IF (pos = Chunk) = (h = 1) /\ k < n THEN first + k ELSE buf[j]
    <3>1. CASE (pos = Chunk) = (h = 1)
      BY <2>2, <2>3, <3>1
    <3>2. CASE (pos = Chunk) # (h = 1)
      <4>1. At0(j) = k + Chunk
        BY <2>2, <3>2
      <4>2. ~ (At0(j) < n)
        BY <1>1, <4>1
      <4> QED  BY <2>3, <3>2, <4>2
    <3> QED  BY <3>1, <3>2
  <2> QED  BY <2>4 DEF j
<1> QED  BY <1>3, <1>4 DEF B

(* The card plays the half that it is in.                                  *)
LEMMA BlockFacts ==
  ASSUME TypeOK, BlockEnds
  PROVE  /\ played' \in Seq(Nat) /\ Len(played') = Len(played) + Chunk
         /\ \A k \in 1 .. Len(played) : played'[k] = played[k]
         /\ \A k \in 1 .. Chunk :
              played'[Len(played) + k] = buf[At(half) + k - 1]
<1> DEFINE b == [k \in 1 .. Chunk |-> buf[half * Chunk + k - 1]]
<1>1. /\ half \in {0, 1} /\ played \in Seq(Nat)
      /\ buf \in [0 .. BufLen - 1 -> Nat]
  BY DEF TypeOK
<1>2. Chunk \in Nat /\ Chunk >= 1
  BY ChunkFacts
<1>3. half * Chunk = At(half)
  <2>1. 0 \in 0 .. Chunk - 1
    BY <1>2
  <2> QED  BY <1>1, <2>1, AtFacts
<1>4. \A k \in 1 .. Chunk : At(half) + k - 1 \in 0 .. BufLen - 1
  BY <1>1, ChunkFacts DEF At
<1>5. /\ b \in Seq(Nat) /\ Len(b) = Chunk
      /\ \A k \in 1 .. Chunk : b[k] = buf[At(half) + k - 1]
  <2>1. b = [k \in 1 .. Chunk |-> buf[At(half) + k - 1]]
    BY <1>3
  <2> HIDE DEF b
  <2>2. b \in [1 .. Chunk -> Nat]
    <3>1. \A k \in 1 .. Chunk : buf[At(half) + k - 1] \in Nat
      BY <1>1, <1>4
    <3> QED  BY <2>1, <3>1
  <2> QED  BY <1>2, <2>1, <2>2, SeqDef, LenProperties
<1>6. played' = played \o b
  BY DEF BlockEnds
<1> HIDE DEF b
<1>7. /\ played' \in Seq(Nat) /\ Len(played') = Len(played) + Len(b)
      /\ \A k \in 1 .. Len(played) + Len(b) :
           played'[k] = IF k <= Len(played) THEN played[k]
                        ELSE b[k - Len(played)]
  BY <1>1, <1>5, <1>6, ConcatProperties
<1>8. Len(played) \in Nat
  BY <1>1, LenProperties
<1>9. ASSUME NEW k \in 1 .. Chunk
      PROVE  played'[Len(played) + k] = b[k]
  <2>1. /\ Len(played) + k \in 1 .. Len(played) + Len(b)
        /\ ~ (Len(played) + k <= Len(played))
        /\ Len(played) + k - Len(played) = k
    BY <1>2, <1>5, <1>8
  <2> QED  BY <1>7, <2>1
<1>10. ASSUME NEW k \in 1 .. Len(played)
       PROVE  played'[k] = played[k]
  BY <1>2, <1>5, <1>7, <1>8
<1> QED  BY <1>5, <1>7, <1>9, <1>10
-----------------------------------------------------------------------------
LEMMA InitIInv == Init => IInv
<1> SUFFICES ASSUME Init  PROVE IInv
  OBVIOUS
<1>1. TypeOK
  <2>1. << >> \in Seq(Nat)
    OBVIOUS
  <2>2. pos \in 0 .. BufLen /\ buf \in [0 .. BufLen - 1 -> Nat]
    BY ChunkFacts DEF Init
  <2>3. length \in 0 .. Chunk /\ left \in 0 .. file
    BY ChunkFacts DEF Init
  <2> QED  BY <2>1, <2>2, <2>3 DEF Init, TypeOK
<1>2. CardHeld
  BY DEF Init, CardHeld
<1>3. InTime
  <2>1. Len(played) = 0 /\ Got = 0 /\ Gap = 0 /\ file = 0 /\ pc = "idle"
    <3>1. Len(played) = 0 /\ file = 0 /\ left = 0 /\ pc = "idle"
      BY DEF Init
    <3>2. Got = 0 /\ Gap = 0
      BY <3>1 DEF Got, Gap
    <3> QED  BY <3>1, <3>2
  <2>2. Core
    BY <2>1, ChunkFacts DEF Core, InOrder, Holds
  <2> QED  BY <2>1, <2>2 DEF InTime, Stage
<1> QED  BY <1>1, <1>2, <1>3 DEF IInv

LEMMA LoadTypes ==
  ASSUME TypeOK, Load
  PROVE  /\ length' = Min2(Chunk, left) /\ left' = left - length'
         /\ length' \in 0 .. Chunk /\ left' \in 0 .. file
         /\ file - left + 1 \in Nat
         /\ buf' = BufAfter(file - left + 1, length')
         /\ pos' = (IF pos + length' > BufLen THEN pos + length' - BufLen
                    ELSE pos + length')
         /\ pos' \in 0 .. BufLen
<1>1. length' = Min2(Chunk, left) /\ left' = left - length'
  BY DEF Load
<1>2. /\ buf' = BufAfter(file - left + 1, length')
      /\ pos' = (IF pos + length' > BufLen THEN pos + length' - BufLen
                 ELSE pos + length')
  BY DEF Load, PosAfter
<1>3. file \in Nat /\ left \in 0 .. file /\ pos \in 0 .. BufLen
  BY DEF TypeOK
<1>4. length' \in 0 .. Chunk /\ left' \in 0 .. file
  BY <1>1, <1>3, ChunkFacts DEF Min2
<1>5. pos' \in 0 .. BufLen
  <2>1. ASSUME NEW p \in 0 .. BufLen, NEW n \in 0 .. Chunk
        PROVE  (IF p + n > BufLen THEN p + n - BufLen ELSE p + n)
                 \in 0 .. BufLen
    BY ChunkFacts
  <2> QED  BY <1>2, <1>3, <1>4, <2>1
<1> QED  BY <1>1, <1>2, <1>3, <1>4, <1>5

LEMMA TypeStep == TypeOK /\ [Next]_vars => TypeOK'
<1> SUFFICES ASSUME TypeOK, [Next]_vars  PROVE TypeOK'
  OBVIOUS
<1> USE DEF TypeOK
<1>1. ASSUME NEW len \in Lengths, OpenWav(len)  PROVE TypeOK'
  <2>1. len \in Nat /\ << >> \in Seq(Nat) /\ 0 \in 0 .. Chunk
    BY LengthsAssumption, ChunkFacts
  <2>2. left' \in 0 .. file' /\ file' \in Nat
    BY <1>1, <2>1 DEF OpenWav
  <2>3. pc' \in {"audio", "done"} /\ failed' \in BOOLEAN
        /\ open' \subseteq {"wav", "audio"}
    BY <1>1 DEF OpenWav
  <2> QED  BY <1>1, <2>1, <2>2, <2>3 DEF OpenWav, driver
<1>2. CASE OpenAudio
  <2>1. pos' \in 0 .. BufLen
    BY <1>2, ChunkFacts DEF OpenAudio
  <2> QED  BY <1>2, <2>1 DEF OpenAudio, player
<1>3. CASE Load
  <2>1. /\ length' \in 0 .. Chunk /\ left' \in 0 .. file
        /\ pos' \in 0 .. BufLen /\ buf' \in [0 .. BufLen - 1 -> Nat]
    BY <1>3, LoadTypes, WriteFacts
  <2>2. pc' \in {"close", "load", "start", "resume"} /\ i' \in Nat
    BY <1>3 DEF Load, AfterLoad
  <2> QED  BY <1>3, <2>1, <2>2 DEF Load, card
<1>4. CASE Start
  BY <1>4 DEF Start, CardStarts, player, driver
<1>5. CASE Resume
  BY <1>5 DEF Resume, CardResumes, player, driver
<1>6. CASE Ask
  BY <1>6 DEF Ask, player, driver, card
<1>7. CASE Wake
  BY <1>7 DEF Wake, player, driver, card
<1>8. CASE ExitBlock
  <2>1. i' \in Nat /\ pc' \in {"close", "load"}
    BY <1>8 DEF ExitBlock
  <2> QED  BY <1>8, <2>1 DEF ExitBlock, CardExitsAfterBlock, driver
<1>9. CASE Close
  BY <1>9 DEF Close, CardStops, player, driver
<1>10. CASE Fail
  BY <1>10 DEF Fail, CardStops, player, driver
<1>11. CASE Again
  BY <1>11 DEF Again, player, driver, card
<1>12. CASE BlockEnds
  <2>1. played' \in Seq(Nat)
    BY <1>12, BlockFacts
  <2>2. half' \in {0, 1} /\ late' \in BOOLEAN
    BY <1>12 DEF BlockEnds, Late
  <2> QED  BY <1>12, <2>1, <2>2 DEF BlockEnds, player, driver
<1>13. CASE DspInterrupt
  BY <1>13 DEF DspInterrupt, player, driver
<1>14. CASE UNCHANGED vars
  BY <1>14 DEF vars, player, driver, card
<1>15. CASE Spin
  BY <1>14, <1>15 DEF Spin
<1> QED  BY <1>1, <1>2, <1>3, <1>4, <1>5, <1>6, <1>7, <1>8, <1>9, <1>10,
            <1>11, <1>12, <1>13, <1>14, <1>15 DEF Next, PlayerStep

LEMMA HeldStep == TypeOK /\ CardHeld /\ [Next]_vars => CardHeld'
<1> SUFFICES ASSUME TypeOK, CardHeld, [Next]_vars  PROVE CardHeld'
  OBVIOUS
<1> USE DEF CardHeld
<1>1. ASSUME NEW len \in Lengths, OpenWav(len)  PROVE CardHeld'
  BY <1>1 DEF OpenWav
<1>2. CASE OpenAudio
  BY <1>2 DEF OpenAudio
<1>3. CASE Load
  <2>1. pc' \in {"close", "load", "start", "resume"}
    BY <1>3 DEF Load, AfterLoad
  <2> QED  BY <1>3, <2>1 DEF Load
<1>4. CASE Start
  BY <1>4 DEF Start
<1>5. CASE Resume
  BY <1>5 DEF Resume
<1>6. CASE Ask
  BY <1>6 DEF Ask
<1>7. CASE Wake
  BY <1>7 DEF Wake
<1>8. CASE ExitBlock
  BY <1>8 DEF ExitBlock
<1>9. CASE Close
  BY <1>9 DEF Close, CardStops
<1>10. CASE Fail
  BY <1>10 DEF Fail, CardStops
<1>11. CASE Again
  BY <1>11 DEF Again, card
<1>12. CASE BlockEnds
  <2>1. pc \in {"load", "start", "resume", "ask", "wait", "exit", "close"}
    BY <1>12 DEF BlockEnds, TypeOK
  <2> QED  BY <1>12, <2>1 DEF BlockEnds
<1>13. CASE DspInterrupt
  BY <1>13 DEF DspInterrupt
<1>14. CASE UNCHANGED vars
  BY <1>14 DEF vars, card
<1>15. CASE Spin
  BY <1>14, <1>15 DEF Spin
<1> QED  BY <1>1, <1>2, <1>3, <1>4, <1>5, <1>6, <1>7, <1>8, <1>9, <1>10,
            <1>11, <1>12, <1>13, <1>14, <1>15 DEF Next, PlayerStep
-----------------------------------------------------------------------------
(* The bytes read are never more than the file has.                         *)
LEMMA Counts ==
  ASSUME TypeOK
  PROVE  /\ Len(played) \in Nat /\ Got \in 0 .. file /\ Gap \in Int
         /\ Got = file - left /\ Gap = Got - Len(played)
<1>1. played \in Seq(Nat) /\ file \in Nat /\ left \in 0 .. file
  BY DEF TypeOK
<1>2. Len(played) \in Nat
  BY <1>1, LenProperties
<1>3. Got \in 0 .. file
  BY <1>1 DEF Got
<1> QED  BY <1>2, <1>3 DEF Got, Gap

(* A step that neither reads, writes nor plays keeps what the buffer holds. *)
LEMMA CoreKept ==
  ASSUME Core, file' = file, left' = left, played' = played, buf' = buf,
         half' = half
  PROVE  Core' /\ Got' = Got /\ Gap' = Gap
<1>1. Got' = Got /\ Gap' = Gap
  BY DEF Got, Gap
<1>2. InOrder'
  BY DEF Core, InOrder
<1>3. Holds'
  BY <1>1 DEF Core, Holds
<1> QED  BY <1>1, <1>2, <1>3 DEF Core

(* The card plays the chunk that follows, if the player is a chunk ahead   *)
(* or has read all.                                                        *)
LEMMA CorePlays ==
  ASSUME TypeOK, Core, BlockEnds, Gap >= Chunk \/ left = 0
  PROVE  Core' /\ Got' = Got /\ Gap' = Gap - Chunk
<1> DEFINE P == Len(played)
<1>1. /\ P \in Nat /\ Got \in 0 .. file /\ Gap = Got - P /\ Got = file - left
      /\ left \in 0 .. file /\ file \in Nat /\ half \in {0, 1}
  BY Counts DEF TypeOK
<1>2. /\ played' \in Seq(Nat) /\ Len(played') = P + Chunk
      /\ \A k \in 1 .. P : played'[k] = played[k]
      /\ \A k \in 1 .. Chunk : played'[P + k] = buf[At(half) + k - 1]
  BY BlockFacts
<1>3. /\ file' = file /\ left' = left /\ buf' = buf /\ half' = 1 - half
      /\ Got' = Got
  BY DEF BlockEnds, player, driver, Got
<1>4. Chunk \in Nat /\ Chunk >= 1 /\ BufLen = Chunk + Chunk
  BY ChunkFacts
<1>5. Gap' = Gap - Chunk
  <2>1. Gap' = Got - Len(played')
    BY <1>3 DEF Gap
  <2> HIDE DEF P
  <2> QED  BY <1>1, <1>2, <1>4, <2>1
<1>6. InOrder'
  <2> SUFFICES ASSUME NEW k \in 1 .. P + Chunk, k <= file
               PROVE  played'[k] = k
    BY <1>2, <1>3 DEF InOrder
  <2>1. CASE k <= P
    <3>1. k \in 1 .. P
      BY <2>1, <1>1
    <3> QED  BY <1>2, <3>1 DEF Core, InOrder
  <2>2. CASE k > P
    <3> DEFINE j == k - P
    <3>1. j \in 1 .. Chunk /\ j - 1 \in 0 .. Chunk - 1 /\ k = P + j
      BY <1>1, <1>4, <2>2
    <3>2. P + (j - 1) + 1 <= Got /\ P + (j - 1) + 1 = k
      <4> HIDE DEF P
      <4>1. k <= Got
        BY <1>1, <1>4, <2>2
      <4> QED  BY <1>1, <4>1
    <3>3. At(half) + j - 1 = At(half) + (j - 1)
      <4>1. At(half) \in Nat
        BY <1>4 DEF At
      <4> QED  BY <3>1, <4>1
    <3> HIDE DEF j
    <3>4. played'[k] = buf[At(half) + j - 1]
      BY <1>2, <3>1
    <3>5. buf[At(half) + (j - 1)] = k
      BY <3>1, <3>2 DEF Core, Holds
    <3> QED  BY <3>3, <3>4, <3>5
  <2> QED  BY <1>1, <2>1, <2>2
<1>7. Holds'
  <2> SUFFICES ASSUME NEW k \in 0 .. Chunk - 1
               PROVE  /\ P + Chunk + k + 1 <= Got =>
                           buf[At(1 - half) + k] = P + Chunk + k + 1
                      /\ ~ (P + Chunk + Chunk + k + 1 <= Got)
    BY <1>2, <1>3 DEF Holds
  <2>1. P + Chunk + k + 1 <= Got => buf[At(1 - half) + k] = P + Chunk + k + 1
    BY DEF Core, Holds
  <2>2. Gap <= BufLen
    BY DEF Core
  <2> HIDE DEF P
  <2>3. ~ (P + Chunk + Chunk + k + 1 <= Got)
    BY <1>1, <1>4, <2>2
  <2> QED  BY <2>1, <2>3
<1>8. Gap' <= BufLen
  BY <1>1, <1>4, <1>5 DEF Core
<1> QED  BY <1>3, <1>5, <1>6, <1>7, <1>8 DEF Core

(* Where the next chunk goes: to the half that is played next if all that  *)
(* was read has been played, else to the other one.                        *)
Lead ==
  \/ left = 0
  \/ pos \in {0, Chunk, BufLen} /\ Gap = 0 /\ ((pos = Chunk) = (half = 1))
  \/ pos \in {0, Chunk, BufLen} /\ Gap = Chunk /\ ((pos = Chunk) = (half = 0))

LEMMA LoadingLeads ==
  ASSUME TypeOK, Loading
  PROVE  Lead /\ (left = 0 => Gap <= Chunk)
<1>1. /\ Got \in 0 .. file /\ Gap = Got - Len(played) /\ Got = file - left
      /\ left \in 0 .. file /\ file \in Nat /\ half \in {0, 1}
  BY Counts DEF TypeOK
<1>2. Chunk \in Nat /\ Chunk >= 1 /\ BufLen = Chunk + Chunk
  BY ChunkFacts
<1>3. played = << >> => Gap = Got
  BY <1>1
<1>4. ASSUME i = 0, played = << >>, left = file, pos = 0, half = 0
      PROVE  Lead /\ Gap <= Chunk
  <2>1. Gap = 0
    BY <1>1, <1>3, <1>4
  <2>2. pos \in {0, Chunk, BufLen} /\ ((pos = Chunk) = (half = 1))
    BY <1>2, <1>4
  <2> QED  BY <1>2, <2>1, <2>2 DEF Lead
<1>5. ASSUME played = << >>, Got = Min2(Chunk, file), pos = Got, half = 0
      PROVE  Lead /\ Gap <= Chunk
  <2>1. Gap = Got /\ Got <= Chunk /\ (Got = Chunk \/ left = 0)
    BY <1>1, <1>2, <1>3, <1>5 DEF Min2
  <2> QED  BY <1>2, <1>5, <2>1 DEF Lead
<1>6. ASSUME Gap \in {0, Chunk}, Placed
      PROVE  Lead /\ Gap <= Chunk
  <2>1. pos = Chunk <=> ((half = 0) = (Gap = Chunk))
    BY <1>2, <1>6 DEF Placed
  <2>2. pos \in {Chunk, BufLen}
    BY <1>6 DEF Placed
  <2>3. half = 0 <=> half # 1
    BY <1>1
  <2> QED  BY <1>2, <1>6, <2>1, <2>2, <2>3 DEF Lead
<1> QED  BY <1>4, <1>5, <1>6 DEF Loading

LEMMA CoreLoads ==
  ASSUME TypeOK, Core, Lead, Load
  PROVE  /\ Core'
         /\ Got' = Got + length' /\ Gap' = Gap + length'
<1> DEFINE P == Len(played)
           n == length'
<1>1. /\ P \in Nat /\ Got \in 0 .. file /\ Gap = Got - P /\ Got = file - left
      /\ left \in 0 .. file /\ file \in Nat /\ half \in {0, 1}
  BY Counts DEF TypeOK
<1>2. Chunk \in Nat /\ Chunk >= 1 /\ BufLen = Chunk + Chunk
  BY ChunkFacts
<1>3. /\ n = Min2(Chunk, left) /\ n \in 0 .. Chunk /\ left' = left - n
      /\ buf' = BufAfter(Got + 1, n)
      /\ file' = file /\ played' = played /\ half' = half
  <2>1. file - left + 1 = Got + 1
    BY <1>1
  <2> QED  BY <2>1, LoadTypes DEF Load, card
<1> HIDE DEF n
<1>4. Got' = Got + n
  <2>1. Got' = file' - left'
    BY DEF Got
  <2> QED  BY <1>1, <1>3, <2>1
<1>5. Gap' = Gap + n
  <2>1. Gap' = Got' - Len(played')
    BY DEF Gap
  <2>2. Gap' = Got' - P
    BY <1>3, <2>1
  <2> HIDE DEF P
  <2> QED  BY <1>1, <1>3, <1>4, <2>2
<1>6. InOrder'
  BY <1>3 DEF Core, InOrder
<1>7. Got + 1 \in Nat
  BY <1>1
<1>8. ASSUME NEW k \in 0 .. Chunk - 1
      PROVE  /\ P + k + 1 <= Got + n => buf'[At(half) + k] = P + k + 1
             /\ P + Chunk + k + 1 <= Got + n =>
                  buf'[At(1 - half) + k] = P + Chunk + k + 1
  <2>1. /\ P + k + 1 <= Got => buf[At(half) + k] = P + k + 1
        /\ P + Chunk + k + 1 <= Got =>
             buf[At(1 - half) + k] = P + Chunk + k + 1
    BY DEF Core, Holds
  <2>2. CASE left = 0
    <3>1. n = 0
      BY <1>2, <1>3, <2>2 DEF Min2
    <3>2. At(half) + k \in 0 .. BufLen - 1 /\ At(1 - half) + k \in 0 .. BufLen - 1
      BY <1>1, AtFacts
    <3>3. /\ buf'[At(half) + k] = buf[At(half) + k]
          /\ buf'[At(1 - half) + k] = buf[At(1 - half) + k]
      BY <1>3, <1>7, <3>1, <3>2, FillFacts
    <3>4. Got + n = Got
      BY <1>1, <3>1
    <3> QED  BY <2>1, <3>3, <3>4
  <2>3. ASSUME pos \in {0, Chunk, BufLen}, NEW h \in {0, 1}
        PROVE  buf'[At(h) + k] =
                 IF (pos = Chunk) = (h = 1) /\ k < n THEN Got + 1 + k
                 ELSE buf[At(h) + k]
    BY <1>3, <1>7, <2>3, FillFacts
  <2>4. 1 - half \in {0, 1} /\ ((1 - half = 1) <=> (half = 0))
        /\ (half = 1 <=> half # 0)
    BY <1>1
  <2>5. ASSUME pos \in {0, Chunk, BufLen}, Gap = 0, (pos = Chunk) = (half = 1)
        PROVE  /\ P + k + 1 <= Got + n => buf'[At(half) + k] = P + k + 1
               /\ ~ (P + Chunk + k + 1 <= Got + n)
    <3>1. buf'[At(half) + k] = IF k < n THEN Got + 1 + k ELSE buf[At(half) + k]
      BY <1>1, <2>3, <2>5
    <3> HIDE DEF P
    <3>2. Got = P
      BY <1>1, <2>5
    <3>3. P + k + 1 <= Got + n => k < n /\ Got + 1 + k = P + k + 1
      BY <1>1, <1>3, <3>2
    <3>4. ~ (P + Chunk + k + 1 <= Got + n)
      BY <1>1, <1>2, <1>3, <3>2
    <3> QED  BY <3>1, <3>3, <3>4
  <2>6. ASSUME pos \in {0, Chunk, BufLen}, Gap = Chunk,
               (pos = Chunk) = (half = 0)
        PROVE  /\ buf'[At(half) + k] = P + k + 1
               /\ P + Chunk + k + 1 <= Got + n =>
                    buf'[At(1 - half) + k] = P + Chunk + k + 1
    <3>1. buf'[At(half) + k] = buf[At(half) + k]
      BY <1>1, <2>3, <2>4, <2>6
    <3>2. buf'[At(1 - half) + k] =
            IF k < n THEN Got + 1 + k ELSE buf[At(1 - half) + k]
      BY <1>1, <2>3, <2>4, <2>6
    <3> HIDE DEF P
    <3>3. Got = P + Chunk
      BY <1>1, <1>2, <2>6
    <3>4. P + k + 1 <= Got
      BY <1>1, <1>2, <3>3
    <3>5. P + Chunk + k + 1 <= Got + n => k < n /\ Got + 1 + k = P + Chunk + k + 1
      BY <1>1, <1>2, <1>3, <3>3
    <3> QED  BY <2>1, <3>1, <3>2, <3>4, <3>5
  <2> QED  BY <2>2, <2>5, <2>6 DEF Lead
<1>9. Holds'
  BY <1>3, <1>4, <1>8 DEF Holds
<1>10. Gap' <= BufLen
  <2>1. CASE left = 0
    <3>1. n = 0
      BY <1>2, <1>3, <2>1 DEF Min2
    <3> QED  BY <1>1, <1>5, <3>1 DEF Core
  <2>2. CASE Gap \in {0, Chunk}
    BY <1>2, <1>3, <1>5, <2>2
  <2> QED  BY <2>1, <2>2 DEF Lead
<1> QED  BY <1>4, <1>5, <1>6, <1>9, <1>10 DEF Core, n

(* The round that reads the first chunk, the second and each of the others *)
LEMMA LoadStep == TypeOK /\ InTime /\ Load => InTime'
<1> SUFFICES ASSUME TypeOK, InTime, Load  PROVE InTime'
  OBVIOUS
<1> DEFINE n == length'
<1>1. /\ Got \in 0 .. file /\ Gap = Got - Len(played) /\ Got = file - left
      /\ left \in 0 .. file /\ file \in Nat /\ half \in {0, 1} /\ i \in Nat
  BY Counts DEF TypeOK
<1>2. Chunk \in Nat /\ Chunk >= 1 /\ BufLen = Chunk + Chunk
  BY ChunkFacts
<1>3. Loading /\ pc = "load"
  BY DEF Load, InTime, Stage
<1>4. Core' /\ Got' = Got + n /\ Gap' = Gap + n /\ Lead
      /\ (left = 0 => Gap <= Chunk)
  BY <1>3, CoreLoads, LoadingLeads DEF InTime
<1>5. /\ n = Min2(Chunk, left) /\ n \in 0 .. Chunk /\ left' = left - n
      /\ pos' = IF pos + n > BufLen THEN pos + n - BufLen ELSE pos + n
      /\ file' = file /\ played' = played /\ half' = half
      /\ running' = running /\ auto' = auto
  BY LoadTypes DEF Load, card
<1>6. ~ auto
  BY <1>3 DEF Loading
<1>7. /\ EndOfFile(n) => pc' = "close" /\ i' = i
      /\ ~ EndOfFile(n) => pc' = AfterLoad(i) /\ i' = IF i = 0 THEN 1 ELSE i
  BY DEF Load
<1> HIDE DEF n
<1>8. n < Chunk => left = n
  BY <1>1, <1>2, <1>5 DEF Min2
<1>9. CASE EndOfFile(n)
  <2>1. n = 0 /\ left = 0
    BY <1>1, <1>2, <1>8, <1>9 DEF EndOfFile
  <2>2. left' = 0 /\ Gap' <= Chunk
    BY <1>1, <1>4, <1>5, <2>1
  <2>3. Closing' /\ pc' = "close"
    BY <1>5, <1>6, <1>7, <1>9, <2>2 DEF Closing
  <2> QED  BY <1>4, <2>3 DEF InTime, Stage
<1>10. ASSUME ~ EndOfFile(n), i = 0, played = << >>, left = file, pos = 0,
              half = 0, ~ running
       PROVE  InTime'
  <2>1. pc' = "load" /\ i' = 1
    BY <1>7, <1>10 DEF AfterLoad
  <2>2. Got = 0 /\ Got' = n /\ n = Min2(Chunk, file)
    BY <1>1, <1>4, <1>5, <1>10
  <2>3. pos' = n
    BY <1>2, <1>5, <1>10
  <2>4. Loading'
    BY <1>5, <1>6, <1>10, <2>1, <2>2, <2>3 DEF Loading
  <2> QED  BY <1>4, <2>1, <2>4 DEF InTime, Stage
<1>11. ASSUME i = 1, played = << >>, Got = Min2(Chunk, file), pos = Got,
              half = 0, ~ running
       PROVE  InTime'
  <2>1. pc' = "start" /\ i' = 1
    BY <1>7, <1>11 DEF AfterLoad, EndOfFile
  <2>2. Got' = Min2(BufLen, file) /\ n = Got' - Min2(Chunk, file)
    BY <1>1, <1>2, <1>4, <1>5, <1>11 DEF Min2
  <2>3. n = Chunk => pos = Chunk
    BY <1>1, <1>2, <1>5, <1>11 DEF Min2
  <2>4. n = Chunk => pos' = BufLen
    BY <1>2, <1>5, <2>3
  <2>5. Starting'
    BY <1>5, <1>11, <2>1, <2>2, <2>4 DEF Starting, First, n
  <2> QED  BY <1>4, <2>1, <2>5 DEF InTime, Stage
<1>12. ASSUME ~ EndOfFile(n), i >= 2, Gap \in {0, Chunk}, Placed,
              running => Gap = Chunk
       PROVE  InTime'
  <2>1. pc' = "resume" /\ i' = i
    BY <1>1, <1>7, <1>12 DEF AfterLoad
  <2>2. Gap' - n = Gap
    BY <1>2, <1>4, <1>5, <1>12
  <2>3. n = Chunk => Placed'
    <3> SUFFICES ASSUME n = Chunk
                 PROVE  pos' = IF (half = 0) = (Gap' = Chunk) THEN Chunk
                               ELSE BufLen
      BY <1>5 DEF Placed
    <3>1. (Gap' = Chunk) <=> ~ (Gap = Chunk)
      <4>1. Gap' = Gap + Chunk
        BY <1>4
      <4> QED  BY <1>2, <1>12, <4>1
    <3>2. pos' = IF pos = Chunk THEN BufLen ELSE Chunk
      <4>1. pos \in {Chunk, BufLen}
        BY <1>12 DEF Placed
      <4>2. pos' = IF pos + Chunk > BufLen THEN pos + Chunk - BufLen
                   ELSE pos + Chunk
        BY <1>5
      <4> QED  BY <1>2, <4>1, <4>2
    <3>3. pos = Chunk <=> ((half = 0) = (Gap = Chunk))
      BY <1>2, <1>12 DEF Placed
    <3> QED  BY <3>1, <3>2, <3>3
  <2>4. n < Chunk => left' = 0
    BY <1>1, <1>5, <1>8
  <2>5. Resuming'
    <3>1. NextLoaded({0, Chunk})'
      BY <1>12, <2>2, <2>3, <2>4 DEF NextLoaded, n
    <3>2. running' => Gap' - length' = Chunk
      BY <1>5, <1>12, <2>2 DEF n
    <3> QED  BY <1>5, <1>6, <1>12, <2>1, <3>1, <3>2 DEF Resuming
  <2> QED  BY <1>4, <2>1, <2>5 DEF InTime, Stage
<1> QED  BY <1>3, <1>9, <1>10, <1>11, <1>12 DEF Loading

(* A block ends while the player reads the next chunk, waits for this, or  *)
(* is about to close the card.                                             *)
LEMMA BlockStep == TypeOK /\ CardHeld /\ InTime /\ BlockEnds /\ ~ Late => InTime'
<1> SUFFICES ASSUME TypeOK, CardHeld, InTime, BlockEnds, ~ Late  PROVE InTime'
  OBVIOUS
<1>1. /\ Got \in 0 .. file /\ Gap = Got - Len(played) /\ Got = file - left
      /\ left \in 0 .. file /\ file \in Nat /\ half \in {0, 1} /\ i \in Nat
      /\ length \in 0 .. Chunk /\ Len(played) \in Nat
  BY Counts DEF TypeOK
<1>2. Chunk \in Nat /\ Chunk >= 1 /\ BufLen = Chunk + Chunk
  BY ChunkFacts
<1>3. /\ running /\ running' = auto /\ auto' = auto /\ irq' = TRUE
      /\ half' = 1 - half /\ pc' = pc /\ i' = i /\ length' = length
      /\ left' = left /\ file' = file /\ failed' = failed
      /\ heard' = heard /\ pos' = pos
  BY DEF BlockEnds, player, driver
<1>4. Gap >= Chunk \/ left = 0 => Core' /\ Got' = Got /\ Gap' = Gap - Chunk
  BY CorePlays DEF InTime
<1>5. Stage
  BY DEF InTime
<1>6. Len(played') = Len(played) + Chunk
  BY BlockFacts
<1>7. ASSUME Gap \in {Chunk, BufLen}, Placed,
             Gap' = Gap - Chunk
      PROVE  Placed'
  <2>1. (Gap' = Chunk) <=> ~ (Gap = Chunk)
    BY <1>2, <1>7
  <2>2. (half' = 0) <=> ~ (half = 0)
    BY <1>1, <1>3
  <2> QED  BY <1>3, <1>7, <2>1, <2>2 DEF Placed
<1>8. CASE pc = "load"
  <2>1. i >= 2 /\ ~ auto /\ Gap = Chunk /\ Placed
    BY <1>3, <1>5, <1>8 DEF Stage, Loading
  <2>2. Core' /\ Gap' = Gap - Chunk /\ Gap' = 0
    BY <1>2, <1>4, <2>1
  <2>3. Placed'
    BY <1>7, <2>1, <2>2
  <2>4. Loading'
    BY <1>3, <2>1, <2>2, <2>3 DEF Loading
  <2> QED  BY <1>3, <1>8, <2>2, <2>4 DEF InTime, Stage
<1>9. CASE pc = "resume"
  <2>1. i >= 2 /\ ~ auto /\ NextLoaded({0, Chunk}) /\ Gap - length = Chunk
    BY <1>3, <1>5, <1>9 DEF Stage, Resuming
  <2>2. Gap >= Chunk
    BY <1>1, <1>2, <2>1
  <2>3. Core' /\ Gap' = Gap - Chunk
    BY <1>4, <2>2
  <2>4. Gap' - length' = 0
    BY <1>1, <1>2, <1>3, <2>1, <2>3
  <2>5. length' = Chunk => Placed'
    <3> SUFFICES ASSUME length = Chunk  PROVE Placed'
      BY <1>3
    <3>1. Gap \in {Chunk, BufLen}
      BY <1>1, <1>2, <2>1
    <3> QED  BY <1>7, <2>1, <2>3, <3>1 DEF NextLoaded
  <2>6. Resuming'
    BY <1>3, <2>1, <2>4, <2>5 DEF Resuming, NextLoaded
  <2> QED  BY <1>3, <1>9, <2>3, <2>6 DEF InTime, Stage
<1>10. CASE pc = "wait" /\ ~ irq /\ ~ heard
  <2>1. Under
    BY <1>5, <1>10 DEF Stage
  <2>2. ASSUME i = 1, auto, played = << >>, half = 0, First
        PROVE  Core' /\ Over'
    <3>1. Len(played) = 0
      BY <2>2
    <3>2. Gap >= Chunk \/ left = 0
      BY <1>1, <1>2, <2>2, <3>1 DEF First, Min2
    <3>3. Core' /\ Got' = Got
      BY <1>4, <3>2
    <3>4. First'
      BY <1>3, <2>2, <3>3 DEF First
    <3>5. Len(played') = Chunk /\ half' = 1
      BY <1>2, <1>3, <1>6, <2>2, <3>1
    <3> QED  BY <1>3, <2>2, <3>3, <3>4, <3>5 DEF Over
  <2>3. ASSUME i >= 2, ~ auto, NextLoaded({0, Chunk})
        PROVE  Core' /\ Over'
    <3>1. Gap - length \in {0, Chunk} /\ (length < Chunk => left = 0)
      BY <2>3 DEF NextLoaded
    <3>2. Gap >= Chunk \/ left = 0
      BY <1>1, <1>2, <3>1
    <3>3. Core' /\ Gap' = Gap - Chunk
      BY <1>4, <3>2
    <3>4. Gap' - length' \in {-Chunk, 0}
      BY <1>1, <1>2, <1>3, <3>1, <3>3
    <3>5. length' = Chunk => Placed'
      <4> SUFFICES ASSUME length = Chunk  PROVE Placed'
        BY <1>3
      <4>1. Gap \in {Chunk, BufLen}
        BY <1>1, <1>2, <3>1
      <4> QED  BY <1>7, <2>3, <3>3, <4>1 DEF NextLoaded
    <3> QED  BY <1>3, <2>3, <3>1, <3>3, <3>4, <3>5 DEF Over, NextLoaded
  <2>4. Core' /\ Over'
    BY <2>1, <2>2, <2>3 DEF Under
  <2> QED  BY <1>3, <1>10, <2>4 DEF InTime, Stage
<1>11. CASE pc = "exit" \/ (pc = "wait" /\ (irq \/ heard))
  <2>1. Over
    BY <1>5, <1>11 DEF Stage
  <2>2. auto /\ (irq \/ heard)
    BY <1>3, <1>5, <2>1, <1>11 DEF Over, Stage
  <2> QED  BY <1>11, <2>2 DEF Late
<1>12. CASE pc = "close"
  <2>1. left = 0 /\ Gap <= Chunk /\ ~ auto
    BY <1>5, <1>12 DEF Stage, Closing
  <2>2. Core' /\ Gap' = Gap - Chunk
    BY <1>4, <2>1
  <2>3. Closing'
    BY <1>1, <1>2, <1>3, <2>1, <2>2 DEF Closing
  <2> QED  BY <1>3, <1>12, <2>2, <2>3 DEF InTime, Stage
<1>13. pc \in {"load", "resume", "wait", "exit", "close"}
  <2>1. pc \notin {"idle", "audio", "done"}
    BY <1>3 DEF CardHeld
  <2>2. pc # "ask"
    BY DEF Late
  <2>3. pc # "start"
    BY <1>3, <1>5 DEF Stage, Starting
  <2> QED  BY <2>1, <2>2, <2>3 DEF TypeOK
<1> QED  BY <1>8, <1>9, <1>10, <1>11, <1>12, <1>13

LEMMA InTimeStep == IInv /\ [Next]_vars /\ ~ late' => InTime'
<1> SUFFICES ASSUME IInv, [Next]_vars, ~ late'  PROVE InTime'
  OBVIOUS
<1>1. TypeOK /\ CardHeld
  BY DEF IInv
<1>2. ASSUME NEW len \in Lengths, OpenWav(len)  PROVE InTime'
  <2>1. /\ file' = len /\ left' = len /\ len \in Nat /\ played' = << >>
        /\ i' = 0 /\ length' = 0
    BY <1>2, LengthsAssumption DEF OpenWav
  <2>2. Len(played') = 0
    BY <2>1
  <2>3. Got' = 0
    BY <2>1 DEF Got
  <2>4. Gap' = 0
    BY <2>2, <2>3 DEF Gap
  <2>5. Core'
    <3>1. InOrder'
      BY <2>2 DEF InOrder
    <3>2. Holds'
      BY <2>2, <2>3, ChunkFacts DEF Holds
    <3> QED  BY <2>4, <3>1, <3>2, ChunkFacts DEF Core
  <2>6. Fresh'
    BY <2>1 DEF Fresh
  <2>7. pc' = "audio" \/ (pc' = "done" /\ failed')
    BY <1>2 DEF OpenWav
  <2> QED  BY <2>5, <2>6, <2>7 DEF InTime, Stage
<1>3. SUFFICES ASSUME ~ \E len \in Lengths : OpenWav(len)  PROVE InTime'
  BY <1>2
<1>4. ~ late /\ (BlockEnds => ~ Late)
  <2>1. BlockEnds => ~ late /\ ~ Late
    <3> SUFFICES ASSUME BlockEnds  PROVE ~ (late \/ Late)
      OBVIOUS
    <3>1. late' = (late \/ Late)
      BY DEF BlockEnds
    <3> QED  BY <3>1
  <2>2. ~ BlockEnds => late' = late
    BY <1>3 DEF Next, PlayerStep, OpenAudio, Load, Start, Resume, Ask, Wake,
                ExitBlock, Close, Fail, Again, Spin, DspInterrupt, vars, card
  <2> QED  BY <2>1, <2>2
<1>5. InTime /\ Core /\ Stage
  BY <1>4 DEF IInv, InTime
<1>6. ASSUME file' = file, left' = left, played' = played, buf' = buf,
             half' = half
      PROVE  Core' /\ Got' = Got /\ Gap' = Gap
  BY <1>5, <1>6, CoreKept
<1>7. /\ Got \in 0 .. file /\ Gap = Got - Len(played) /\ Got = file - left
      /\ left \in 0 .. file /\ file \in Nat /\ i \in Nat
      /\ length \in 0 .. Chunk /\ Len(played) \in Nat
  BY <1>1, Counts DEF TypeOK
<1>8. Chunk \in Nat /\ Chunk >= 1 /\ BufLen = Chunk + Chunk
  BY ChunkFacts
<1>9. CASE OpenAudio
  <2>1. Fresh
    BY <1>5, <1>9 DEF OpenAudio, Stage
  <2>2. file' = file /\ left' = left /\ played' = played /\ i' = i
    BY <1>9 DEF OpenAudio, player
  <2>3. Got' = 0 /\ Gap' = 0 /\ Len(played') = 0
    <3>1. Got' = 0
      BY <1>7, <2>1, <2>2 DEF Fresh, Got
    <3>2. Len(played') = 0
      BY <2>1, <2>2 DEF Fresh
    <3> QED  BY <3>1, <3>2 DEF Gap
  <2>4. Core'
    <3>1. InOrder'
      BY <2>3 DEF InOrder
    <3>2. Holds'
      BY <2>3, ChunkFacts DEF Holds
    <3> QED  BY <1>8, <2>3, <3>1, <3>2 DEF Core
  <2>5. \/ pc' = "load" /\ Loading'
        \/ pc' = "done" /\ failed'
    BY <1>9, <2>1, <2>2 DEF OpenAudio, Fresh, Loading
  <2> QED  BY <2>4, <2>5 DEF InTime, Stage
<1>10. CASE Load
  BY <1>1, <1>5, <1>10, LoadStep
<1>11. CASE Start
  <2>1. Starting /\ pc' = "ask"
    BY <1>5, <1>11 DEF Start, Stage
  <2>2. /\ file' = file /\ left' = left /\ played' = played /\ buf' = buf
        /\ half' = half /\ i' = i /\ length' = length /\ pos' = pos
        /\ running' /\ auto'
    BY <1>11, <2>1 DEF Start, Starting, CardStarts, player, driver
  <2>3. Core' /\ Got' = Got
    BY <1>6, <2>2
  <2>4. Under'
    BY <2>1, <2>2, <2>3 DEF Starting, Under, First
  <2> QED  BY <2>1, <2>3, <2>4 DEF InTime, Stage
<1>12. CASE Resume
  <2>1. Resuming /\ pc' = "ask"
    BY <1>5, <1>12 DEF Resume, Stage
  <2>2. /\ file' = file /\ left' = left /\ played' = played /\ buf' = buf
        /\ half' = half /\ i' = i /\ length' = length /\ pos' = pos
        /\ running' /\ auto' = auto
    BY <1>12 DEF Resume, CardResumes, player, driver
  <2>3. Core' /\ Gap' = Gap
    BY <1>6, <2>2
  <2>4. Under'
    BY <2>1, <2>2, <2>3 DEF Resuming, Under, NextLoaded, Placed
  <2> QED  BY <2>1, <2>3, <2>4 DEF InTime, Stage
<1>13. ASSUME file' = file, left' = left, played' = played, buf' = buf,
              half' = half, i' = i, length' = length, pos' = pos,
              running' = running, auto' = auto
       PROVE  /\ Core' /\ (Under => Under') /\ (Over => Over')
              /\ (Fresh => Fresh') /\ (Loading => Loading')
              /\ (Starting => Starting') /\ (Resuming => Resuming')
              /\ (Closing => Closing')
  <2>1. Core' /\ Got' = Got /\ Gap' = Gap
    BY <1>6, <1>13
  <2>2. (First => First') /\ (Placed => Placed')
    BY <1>13, <2>1 DEF First, Placed
  <2>3. \A S : NextLoaded(S) => NextLoaded(S)'
    BY <1>13, <2>1, <2>2 DEF NextLoaded
  <2>4. (Under => Under') /\ (Over => Over')
    BY <1>13, <2>2, <2>3 DEF Under, Over
  <2>5. (Fresh => Fresh') /\ (Closing => Closing')
    BY <1>13, <2>1 DEF Fresh, Closing
  <2>6. Loading => Loading'
    BY <1>13, <2>1, <2>2 DEF Loading
  <2>7. (Starting => Starting') /\ (Resuming => Resuming')
    BY <1>13, <2>1, <2>2, <2>3 DEF Starting, Resuming
  <2> QED  BY <2>1, <2>4, <2>5, <2>6, <2>7
<1>14. CASE Ask
  <2>1. Under /\ pc' = "wait" /\ ~ heard'
    BY <1>5, <1>14 DEF Ask, Stage
  <2>2. Core' /\ Under'
    BY <1>13, <1>14, <2>1 DEF Ask, player, driver, card
  <2>3. CASE ~ irq
    <3>1. ~ irq'
      BY <1>14, <2>3 DEF Ask, card
    <3> QED  BY <2>1, <2>2, <3>1 DEF InTime, Stage
  <2>4. CASE ~ PlayerStep
    BY <1>3, <1>14, <2>4 DEF Ask, Next, PlayerStep, Spin, Again, BlockEnds,
                             DspInterrupt, vars, player, driver, card
  <2> QED  BY <2>3, <2>4 DEF PlayerStep
<1>15. CASE Wake
  <2>1. Over /\ pc' = "exit" /\ heard'
    BY <1>5, <1>15 DEF Wake, Stage
  <2>2. Core' /\ Over'
    BY <1>13, <1>15, <2>1 DEF Wake, player, driver, card
  <2> QED  BY <2>1, <2>2 DEF InTime, Stage
<1>16. CASE ExitBlock
  <2>1. Over
    BY <1>5, <1>16 DEF ExitBlock, Stage
  <2>2. /\ file' = file /\ left' = left /\ played' = played /\ buf' = buf
        /\ half' = half /\ length' = length /\ pos' = pos
        /\ running' = running /\ ~ auto'
    BY <1>16 DEF ExitBlock, CardExitsAfterBlock, driver
  <2>3. Core' /\ Got' = Got /\ Gap' = Gap
    BY <1>6, <2>2
  <2>4. CASE length < Chunk
    <3>1. pc' = "close"
      BY <1>16, <2>4 DEF ExitBlock
    <3>2. left = 0 /\ Gap <= Chunk
      <4>1. ASSUME First, Len(played) = Chunk
            PROVE  left = 0 /\ Gap <= Chunk
        BY <1>7, <1>8, <2>4, <4>1 DEF First, Min2
      <4>2. ASSUME NextLoaded({-Chunk, 0})
            PROVE  left = 0 /\ Gap <= Chunk
        BY <1>7, <1>8, <2>4, <4>2 DEF NextLoaded
      <4> QED  BY <2>1, <4>1, <4>2 DEF Over
    <3>3. Closing'
      BY <2>2, <2>3, <3>2 DEF Closing
    <3> QED  BY <2>3, <3>1, <3>3 DEF InTime, Stage
  <2>5. CASE ~ (length < Chunk)
    <3>1. pc' = "load" /\ i' = i + 1 /\ length = Chunk
      BY <1>7, <1>8, <1>16, <2>5 DEF ExitBlock
    <3>2. ASSUME First, Len(played) = Chunk, half = 1
          PROVE  Gap = Chunk /\ Placed
      <4>1. Got = BufLen
        <5>1. Got = Min2(BufLen, file) /\ Chunk = Got - Min2(Chunk, file)
          BY <3>1, <3>2 DEF First
        <5> QED  BY <1>7, <1>8, <5>1 DEF Min2
      <4>2. Gap = Chunk
        BY <1>7, <1>8, <3>2, <4>1
      <4>3. pos = BufLen
        BY <3>1, <3>2 DEF First
      <4>4. Placed
        BY <3>2, <4>2, <4>3 DEF Placed
      <4> QED  BY <4>2, <4>4
    <3>3. ASSUME NextLoaded({-Chunk, 0})
          PROVE  Gap \in {0, Chunk} /\ Placed
      <4>1. Gap \in {0, Chunk}
        BY <1>7, <1>8, <3>1, <3>3 DEF NextLoaded
      <4> QED  BY <3>1, <3>3, <4>1 DEF NextLoaded
    <3>4. Gap \in {0, Chunk} /\ Placed /\ (running => Gap = Chunk) /\ i >= 1
      BY <2>1, <3>2, <3>3, <1>7 DEF Over
    <3>5. Placed'
      BY <2>2, <2>3, <3>4 DEF Placed
    <3>6. Loading'
      BY <1>7, <2>2, <2>3, <3>1, <3>4, <3>5 DEF Loading
    <3> QED  BY <2>3, <3>1, <3>6 DEF InTime, Stage
  <2> QED  BY <2>4, <2>5
<1>17. CASE Close
  <2>1. Closing /\ pc' = "done"
    BY <1>5, <1>17 DEF Close, Stage
  <2>2. file' = file /\ left' = left /\ played' = played /\ buf' = buf
        /\ half' = half
    BY <1>17 DEF Close, CardStops, player, driver
  <2>3. Len(played') >= file' - Chunk
    BY <1>7, <1>8, <2>1, <2>2 DEF Closing
  <2> QED  BY <1>6, <2>1, <2>2, <2>3 DEF InTime, Stage
<1>18. CASE Fail
  <2>1. pc' = "done" /\ failed'
    BY <1>18 DEF Fail
  <2>2. file' = file /\ left' = left /\ played' = played /\ buf' = buf
        /\ half' = half
    BY <1>18 DEF Fail, CardStops, player, driver
  <2> QED  BY <1>6, <2>1, <2>2 DEF InTime, Stage
<1>19. CASE Again
  <2>1. pc' = "idle"
    BY <1>19 DEF Again
  <2>2. file' = file /\ left' = left /\ played' = played /\ buf' = buf
        /\ half' = half
    BY <1>19 DEF Again, player, driver, card
  <2> QED  BY <1>6, <2>1, <2>2 DEF InTime, Stage
<1>20. CASE BlockEnds
  BY <1>1, <1>4, <1>5, <1>20, BlockStep
<1>21. CASE DspInterrupt
  <2>1. Core' /\ (Under => Under') /\ (Over => Over')
        /\ (Fresh => Fresh') /\ (Loading => Loading')
        /\ (Starting => Starting') /\ (Resuming => Resuming')
        /\ (Closing => Closing')
    BY <1>13, <1>21 DEF DspInterrupt, player, driver
  <2>2. irq /\ heard' /\ pc' = pc /\ failed' = failed /\ played' = played
        /\ file' = file
    BY <1>21 DEF DspInterrupt, player
  <2>3. Stage'
    BY <1>5, <2>1, <2>2 DEF Stage
  <2> QED  BY <2>1, <2>3 DEF InTime
<1>22. CASE UNCHANGED vars
  <2>1. Core' /\ (Under => Under') /\ (Over => Over')
        /\ (Fresh => Fresh') /\ (Loading => Loading')
        /\ (Starting => Starting') /\ (Resuming => Resuming')
        /\ (Closing => Closing')
    BY <1>13, <1>22 DEF vars, player, driver, card
  <2>2. irq' = irq /\ heard' = heard /\ pc' = pc /\ failed' = failed
        /\ played' = played /\ file' = file
    BY <1>22 DEF vars, player, card
  <2>3. Stage'
    BY <1>5, <2>1, <2>2 DEF Stage
  <2> QED  BY <2>1, <2>3 DEF InTime
<1>23. CASE Spin
  BY <1>22, <1>23 DEF Spin
<1> QED  BY <1>3, <1>9, <1>10, <1>11, <1>12, <1>14, <1>15, <1>16, <1>17,
            <1>18, <1>19, <1>20, <1>21, <1>22, <1>23 DEF Next, PlayerStep
-----------------------------------------------------------------------------
LEMMA Invariance == Spec => []IInv
<1>1. IInv /\ [Next]_vars => IInv'
  BY TypeStep, HeldStep, InTimeStep DEF IInv
<1> QED  BY InitIInv, <1>1, PTL DEF Spec

(* The player and the driver keep their counts and positions in range.     *)
THEOREM SoundTypes == Spec => []TypeOK
<1>1. IInv => TypeOK
  BY DEF IInv
<1> QED  BY <1>1, Invariance, PTL

(* What a player that is never late lets the card play is the file, byte   *)
(* by byte, as far as the card has come.                                   *)
THEOREM FileInOrder == Spec => []PlaysInOrder
<1>1. IInv => PlaysInOrder
  <2> SUFFICES ASSUME IInv, ~ late
               PROVE  SubSeq(played, 1, Min2(Len(played), file)) =
                        SubSeq(Whole, 1, Min2(Len(played), file))
    BY DEF PlaysInOrder
  <2> DEFINE m == Min2(Len(played), file)
  <2>1. played \in Seq(Nat) /\ file \in Nat /\ InOrder
    BY DEF IInv, TypeOK, InTime, Core
  <2>2. Len(played) \in Nat /\ \A k \in 1 .. Len(played) : played[k] \in Nat
    BY <2>1, LenProperties
  <2>3. m \in Nat /\ m <= Len(played) /\ m <= file
    BY <2>1, <2>2 DEF Min2
  <2>4. Whole \in Seq(Nat) /\ Len(Whole) = file
        /\ \A k \in 1 .. file : Whole[k] = k
    BY <2>1, SeqDef, LenProperties DEF Whole
  <2> HIDE DEF m
  <2>5. /\ SubSeq(played, 1, m) \in Seq(Nat) /\ Len(SubSeq(played, 1, m)) = m
        /\ \A k \in 1 .. m : SubSeq(played, 1, m)[k] = played[k]
    BY <2>1, <2>2, <2>3, SubSeqProperties
  <2>6. /\ SubSeq(Whole, 1, m) \in Seq(Nat) /\ Len(SubSeq(Whole, 1, m)) = m
        /\ \A k \in 1 .. m : SubSeq(Whole, 1, m)[k] = Whole[k]
    BY <2>3, <2>4, SubSeqProperties
  <2>7. \A k \in 1 .. m : played[k] = k /\ Whole[k] = k
    BY <2>1, <2>2, <2>3, <2>4 DEF InOrder
  <2>8. SubSeq(played, 1, m) = SubSeq(Whole, 1, m)
    BY <2>5, <2>6, <2>7, SeqEqual
  <2> QED  BY <2>8 DEF m
<1> QED  BY <1>1, Invariance, PTL

(* Whenever play_wav has returned the card is stopped and free, late or    *)
(* not, and unless it failed the file is closed too.                       *)
THEOREM CardAlwaysReleased == Spec => []CardReleased
<1>1. IInv => CardReleased
  BY DEF IInv, CardHeld, CardReleased
<1> QED  BY <1>1, Invariance, PTL

(* A player that returns 0 in time has had all but the last chunk played.  *)
THEOREM OnlyTailUnplayed == Spec => []PlaysAllButTail
<1>1. IInv => PlaysAllButTail
  BY DEF IInv, InTime, Stage, PlaysAllButTail
<1> QED  BY <1>1, Invariance, PTL

(* A player in time writes to the half that the card does not play.        *)
THEOREM HalvesApart == Spec => NeverOverwrites
<1>1. ASSUME IInv, Load, ~ late, running, NEW k \in Half(half)
      PROVE  buf'[k] = buf[k]
  <2>1. TypeOK /\ Loading /\ half \in {0, 1}
    BY <1>1 DEF IInv, InTime, Stage, Load, TypeOK
  <2>2. Gap = Chunk /\ Placed
    BY <1>1, <2>1 DEF Loading
  <2>3. /\ buf' = BufAfter(file - left + 1, length')
        /\ file - left + 1 \in Nat /\ length' \in 0 .. Chunk
    BY <1>1, <2>1, LoadTypes
  <2>4. pos \in {0, Chunk, BufLen} /\ (pos = Chunk <=> half = 0)
    BY <2>2, ChunkFacts DEF Placed
  <2>5. PICK j \in 0 .. Chunk - 1 : k = At(half) + j
    <3>1. CASE half = 0
      <4>1. k \in 0 .. Chunk - 1 /\ At(half) = 0
        BY <1>1, <3>1, ChunkFacts DEF Half, At
      <4>2. k = At(half) + k
        BY <4>1
      <4> QED  BY <4>1, <4>2
    <3>2. CASE half = 1
      <4>1. k \in Chunk .. Chunk + Chunk - 1 /\ At(half) = Chunk
        BY <1>1, <3>2, ChunkFacts DEF Half, At
      <4>2. k - Chunk \in 0 .. Chunk - 1 /\ k = At(half) + (k - Chunk)
        BY <4>1, ChunkFacts
      <4> QED  BY <4>2
    <3> QED  BY <2>1, <3>1, <3>2
  <2>6. ~ ((pos = Chunk) = (half = 1))
    BY <2>1, <2>4
  <2> QED  BY <2>1, <2>3, <2>4, <2>5, <2>6, FillFacts
<1>2. IInv => [Load /\ ~ late /\ running =>
                 \A k \in Half(half) : buf'[k] = buf[k]]_vars
  BY <1>1
<1> QED  BY <1>2, Invariance, PTL DEF Spec, NeverOverwrites
=============================================================================

---------------------------- MODULE VideoProofs -----------------------------
(***************************************************************************)
(* Playing back a converted video shows the video, for every number of     *)
(* frames, frame size, run limit and content; and so it does together with *)
(* the drawing call, for every shape and screen: the composition           *)
(* implements the decoder taken alone, and what the kernel has drawn       *)
(* whenever the player goes on is the frame of the source.                 *)
(***************************************************************************)
EXTENDS Video, SequenceTheorems, TLAPS

-----------------------------------------------------------------------------
(* Facts about the operators.                                              *)

\* Splitting a byte of the stream gives back what was put into it.
LEMMA ByteSplits ==
  ASSUME NEW c \in {0, 1}, NEW r \in 0..MaxRun
  PROVE  /\ Byte(c, r) \in 0..(2 * MaxRun + 1)
         /\ ColorOf(Byte(c, r)) = c
         /\ RunOf(Byte(c, r)) = r
  <1>1. CASE c = 0
    BY <1>1, RleAssumption DEF Byte, ColorOf, RunOf
  <1>2. CASE c = 1
    BY <1>2, RleAssumption DEF Byte, ColorOf, RunOf
  <1> QED BY <1>1, <1>2

\* Frames follow one another without gap and end with the video.
LEMMA FrameBases ==
  /\ Total \in Nat
  /\ Base(0) = 0
  /\ \A f \in 0..(Frames - 1) :
       /\ Base(f) \in Nat
       /\ Base(f) + Pixels <= Total
       /\ Base(f + 1) = Base(f) + Pixels
       /\ f + 1 = Frames => Base(f) + Pixels = Total
  <1>1. Total \in Nat /\ Base(0) = 0
    BY RleAssumption DEF Total, Base
  <1>2. ASSUME NEW f \in 0..(Frames - 1)
        PROVE  /\ Base(f) \in Nat
               /\ Base(f + 1) = Base(f) + Pixels
    BY RleAssumption DEF Total, Base
  <1>3. ASSUME NEW f \in 0..(Frames - 1), f + 1 = Frames
        PROVE  Base(f) + Pixels = Total
    BY <1>2, <1>3, RleAssumption DEF Total, Base
  <1>4. ASSUME NEW f \in 0..(Frames - 1)
        PROVE  Base(f) + Pixels <= Total
    <2>1. (Frames - (f + 1)) * Pixels >= 0
      BY RleAssumption
    <2>2. Total = (f + 1) * Pixels + (Frames - (f + 1)) * Pixels
      BY RleAssumption DEF Total
    <2> QED BY <1>2, <2>1, <2>2, RleAssumption DEF Base
  <1> QED BY <1>1, <1>2, <1>3, <1>4

-----------------------------------------------------------------------------
(* The inductive invariant.                                                *)

\* Pixels below Covered are in bytes already written.
Covered == IF pc = "encode" THEN i - runLength ELSE Total

\* The run the encoder has open holds the pixels just below i.
OpenRun ==
  /\ runLength <= i
  /\ (currentColor = 2) <=> (i = 0)
  /\ i > 0 => runLength > 0
  /\ \A p \in 0..(Total - 1) :
       i - runLength <= p /\ p < i => video[p] = currentColor
  /\ pc # "encode" => i = Total

\* The bytes written cover the pixels below Covered in order, each byte with
\* the colour of all the pixels it stands for.
Stream ==
  /\ Len(start) = Len(rle)
  /\ Len(rle) = 0 => Covered = 0
  /\ Len(rle) > 0 => start[1] = 0
  /\ \A k \in 1..Len(rle) :
       /\ RunOf(rle[k]) \in 1..MaxRun
       /\ ColorOf(rle[k]) \in {0, 1}
       /\ start[k] + RunOf(rle[k]) = IF k = Len(rle) THEN Covered
                                     ELSE start[k + 1]
       /\ k - 1 <= start[k]
       /\ \A p \in 0..(Total - 1) :
            start[k] <= p /\ p < start[k] + RunOf(rle[k]) =>
              video[p] = ColorOf(rle[k])

\* The next pixel to decode.
Pos == Base(current_frame) + pixels_drawn

\* The decoder is inside (or at the end of) the run of the byte it read last.
InRun ==
  /\ pc = "encode" => rle_ptr = 0
  /\ rle_ptr = 0 => current_run = 0 /\ Pos = 0
  /\ rle_ptr > 0 =>
       /\ start[rle_ptr] + RunOf(rle[rle_ptr]) = Pos + current_run
       /\ current_run <= RunOf(rle[rle_ptr])
       /\ current_color = ColorOf(rle[rle_ptr])
  /\ pc = "draw" => pixels_drawn = Pixels

\* The buffer holds the decoded part of the frame and is dark beyond it.
Buffer ==
  \A p \in 0..(Pixels - 1) :
    frame_buffer[p] = IF p < pixels_drawn THEN video[Base(current_frame) + p]
                      ELSE 0

IInv == TypeOK /\ OpenRun /\ Stream /\ InRun /\ Buffer

-----------------------------------------------------------------------------
\* The converter starts with nothing written and the decoder at pixel 0.
LEMMA InitInv == Init => IInv
  <1> SUFFICES ASSUME Init PROVE IInv
    OBVIOUS
  <1>1. 0 \in 0..(Frames - 1) /\ Base(0) = 0 /\ Total \in Nat
    BY RleAssumption, FrameBases
  <1>2. TypeOK
    BY <1>1, RleAssumption DEF Init, TypeOK, Blank
  <1>3. OpenRun
    BY <1>1 DEF Init, OpenRun
  <1>4. Stream
    BY <1>1 DEF Init, Stream, Covered
  <1>5. InRun /\ Buffer
    BY <1>1, RleAssumption DEF Init, InRun, Buffer, Pos, Blank
  <1> QED BY <1>2, <1>3, <1>4, <1>5 DEF IInv

\* Writing the open run extends the stream to i.
LEMMA EmitStream ==
  ASSUME IInv, pc = "encode", i > 0, Emit, UNCHANGED video, Covered' = i
  PROVE  /\ Stream'
         /\ rle' \in Seq(0..(2 * MaxRun + 1))
         /\ start' \in Seq(0..Total)
         /\ Len(rle') = Len(rle) + 1
  <1> DEFINE b == Byte(currentColor, runLength)
             n == Len(rle)
  <1>1. /\ i \in Nat /\ runLength \in 1..MaxRun /\ runLength <= i
        /\ currentColor \in {0, 1} /\ i - runLength \in 0..Total
        /\ Total \in Nat /\ MaxRun \in Nat /\ i <= Total
    BY RleAssumption, FrameBases DEF IInv, TypeOK, OpenRun
  <1>2. /\ b \in 0..(2 * MaxRun + 1) /\ ColorOf(b) = currentColor
        /\ RunOf(b) = runLength
    BY <1>1, ByteSplits
  <1>3. /\ rle \in Seq(0..(2 * MaxRun + 1)) /\ start \in Seq(0..Total)
        /\ n \in Nat /\ Len(start) = n
    BY DEF IInv, TypeOK, Stream
  <1>4. /\ rle' \in Seq(0..(2 * MaxRun + 1)) /\ start' \in Seq(0..Total)
        /\ Len(rle') = n + 1 /\ Len(start') = n + 1
        /\ rle'[n + 1] = b /\ start'[n + 1] = i - runLength
        /\ \A k \in 1..n : rle'[k] = rle[k] /\ start'[k] = start[k]
    BY <1>1, <1>2, <1>3 DEF Emit
  <1>5. Covered = i - runLength
    BY DEF Covered
  <1>6. \A k \in 1..n : start[k] \in Nat
    <2> SUFFICES ASSUME NEW k \in 1..n PROVE start[k] \in Nat
      OBVIOUS
    <2>1. start \in Seq(0..Total) /\ k \in 1..Len(start)
      BY <1>3
    <2>2. start[k] \in 0..Total
      BY <2>1, ElementOfSeq
    <2> QED BY <1>1, <2>2
  <1>7. start'[1] = 0
    <2>1. CASE n = 0
      BY <1>4, <1>5, <2>1 DEF IInv, Stream
    <2>2. CASE n > 0
      BY <1>3, <1>4, <2>2 DEF IInv, Stream
    <2> QED BY <1>3, <2>1, <2>2
  <1>8. ASSUME NEW k \in 1..(n + 1)
        PROVE  /\ RunOf(rle'[k]) \in 1..MaxRun
               /\ ColorOf(rle'[k]) \in {0, 1}
               /\ start'[k] + RunOf(rle'[k]) = IF k = n + 1 THEN i
                                               ELSE start'[k + 1]
               /\ k - 1 <= start'[k]
               /\ \A p \in 0..(Total - 1) :
                    start'[k] <= p /\ p < start'[k] + RunOf(rle'[k]) =>
                      video[p] = ColorOf(rle'[k])
    <2>1. CASE k = n + 1
      <3>1. n <= i - runLength
        <4>1. CASE n = 0
          BY <1>1, <4>1
        <4>2. CASE n > 0
          <5>1. /\ n \in 1..n /\ n - 1 <= start[n] /\ RunOf(rle[n]) \in 1..MaxRun
                /\ start[n] + RunOf(rle[n]) = i - runLength
            BY <1>3, <1>5, <4>2 DEF IInv, Stream
          <5>2. start[n] \in Nat
            BY <1>6, <5>1
          <5>3. RunOf(rle[n]) \in Nat /\ RunOf(rle[n]) >= 1
            BY <5>1
          <5>4. PICK a \in Nat, r \in Nat : a = start[n] /\ r = RunOf(rle[n])
            BY <5>2, <5>3
          <5>5. r >= 1 /\ n - 1 <= a /\ a + r = i - runLength
            BY <5>1, <5>3, <5>4
          <5> HIDE DEF n
          <5> QED BY <1>1, <1>3, <5>5
        <4> QED BY <1>3, <4>1, <4>2
      <3>2. \A p \in 0..(Total - 1) :
              i - runLength <= p /\ p < i => video[p] = currentColor
        BY DEF IInv, OpenRun
      <3>3. /\ rle'[k] = b /\ start'[k] = i - runLength
            /\ i - runLength + runLength = i
        BY <1>1, <1>4, <2>1
      <3>4. RunOf(rle'[k]) = runLength /\ ColorOf(rle'[k]) = currentColor
        BY <1>2, <3>3
      <3>5. k - 1 <= i - runLength
        BY <1>1, <1>3, <2>1, <3>1
      <3> HIDE DEF b
      <3> QED BY <1>1, <2>1, <3>2, <3>3, <3>4, <3>5
    <2>2. CASE k \in 1..n
      <3>1. /\ RunOf(rle[k]) \in 1..MaxRun
            /\ ColorOf(rle[k]) \in {0, 1}
            /\ start[k] + RunOf(rle[k]) = IF k = n THEN i - runLength
                                          ELSE start[k + 1]
            /\ k - 1 <= start[k]
            /\ \A p \in 0..(Total - 1) :
                 start[k] <= p /\ p < start[k] + RunOf(rle[k]) =>
                   video[p] = ColorOf(rle[k])
        BY <1>5, <2>2 DEF IInv, Stream
      <3>2. start'[k + 1] = IF k = n THEN i - runLength ELSE start[k + 1]
        BY <1>3, <1>4, <2>2
      <3> QED BY <1>3, <1>4, <2>2, <3>1, <3>2
    <2> QED BY <1>3, <2>1, <2>2
  <1>9. video' = video
    OBVIOUS
  <1>10. Stream'
    BY <1>3, <1>4, <1>7, <1>8, <1>9 DEF Stream
  <1> QED BY <1>4, <1>10

\* Converter.process, one pixel: the open run grows, or is written and a new
\* one begins.
LEMMA EncodeInv == IInv /\ EncodePixel => IInv'
  <1> SUFFICES ASSUME IInv, EncodePixel PROVE IInv'
    OBVIOUS
  <1>1. /\ i \in 0..(Total - 1) /\ i' = i + 1 /\ Total \in Nat
        /\ video' = video /\ pc = "encode" /\ pc' = "encode"
        /\ video[i] \in {0, 1} /\ runLength \in 0..MaxRun
        /\ MaxRun \in Nat \ {0} /\ UNCHANGED decoder
    BY RleAssumption, FrameBases DEF EncodePixel, IInv, TypeOK
  <1>2. rle_ptr = 0 /\ rle_ptr' = 0
    BY <1>1 DEF IInv, InRun, decoder
  <1>3. Buffer'
    BY <1>1 DEF IInv, Buffer, decoder
  <1>4. InRun'
    BY <1>1, <1>2 DEF IInv, InRun, decoder, Pos
  <1>5. CASE currentColor = 2
    <2>1. /\ i = 0 /\ runLength' = 1 /\ currentColor' = video[i]
          /\ rle' = rle /\ start' = start /\ runLength = 0
      BY <1>1, <1>5 DEF EncodePixel, IInv, OpenRun, TypeOK
    <2>2. TypeOK'
      BY <1>1, <1>2, <2>1 DEF IInv, TypeOK, decoder
    <2>3. OpenRun'
      BY <1>1, <2>1 DEF IInv, OpenRun
    <2>4. Stream'
      BY <1>1, <2>1 DEF IInv, Stream, Covered
    <2> QED BY <1>3, <1>4, <2>2, <2>3, <2>4 DEF IInv
  <1>6. CASE currentColor # 2 /\ ExtendsRun(video[i])
    <2>1. /\ runLength' = runLength + 1 /\ currentColor' = currentColor
          /\ rle' = rle /\ start' = start /\ runLength < MaxRun
          /\ video[i] = currentColor
      BY <1>6 DEF EncodePixel, ExtendsRun
    <2>2. TypeOK'
      BY <1>1, <1>2, <2>1 DEF IInv, TypeOK, decoder
    <2>3. OpenRun'
      BY <1>1, <1>6, <2>1 DEF IInv, OpenRun
    <2>4. Covered' = Covered
      BY <1>1, <2>1 DEF Covered
    <2>5. Stream'
      BY <1>1, <2>1, <2>4 DEF IInv, Stream
    <2> QED BY <1>3, <1>4, <2>2, <2>3, <2>5 DEF IInv
  <1>7. CASE currentColor # 2 /\ ~ ExtendsRun(video[i])
    <2>1. runLength' = 1 /\ currentColor' = video[i] /\ Emit
      BY <1>7 DEF EncodePixel
    <2>2. i > 0 /\ Covered' = i
      BY <1>1, <1>7, <2>1 DEF IInv, OpenRun, Covered
    <2>3. /\ Stream'
          /\ rle' \in Seq(0..(2 * MaxRun + 1))
          /\ start' \in Seq(0..Total)
      BY <1>1, <2>1, <2>2, EmitStream
    <2>4. TypeOK'
      BY <1>1, <1>2, <2>1, <2>3 DEF IInv, TypeOK, decoder
    <2>5. OpenRun'
      BY <1>1, <2>1 DEF IInv, OpenRun
    <2> QED BY <1>3, <1>4, <2>3, <2>4, <2>5 DEF IInv
  <1> QED BY <1>5, <1>6, <1>7

\* Converter.process, after the last pixel: the open run is written, and the
\* stream covers the whole video.
LEMMA FinishInv == IInv /\ FinishEncoding => IInv'
  <1> SUFFICES ASSUME IInv, FinishEncoding PROVE IInv'
    OBVIOUS
  <1>1. /\ i = Total /\ Total \in Nat /\ Total > 0 /\ pc = "encode"
        /\ pc' = "decode" /\ video' = video /\ i' = i
        /\ currentColor' = currentColor /\ runLength' = runLength
        /\ UNCHANGED decoder
    BY RleAssumption, FrameBases DEF FinishEncoding, Total
  <1>2. runLength > 0 /\ Emit
    BY <1>1 DEF IInv, OpenRun, FinishEncoding
  <1>3. Covered' = i
    BY <1>1 DEF Covered
  <1>4. /\ Stream'
        /\ rle' \in Seq(0..(2 * MaxRun + 1))
        /\ start' \in Seq(0..Total)
        /\ Len(rle') \in Nat
    BY <1>1, <1>2, <1>3, EmitStream
  <1>5. rle_ptr = 0 /\ rle_ptr' = 0
    BY <1>1 DEF IInv, InRun, decoder
  <1>6. TypeOK'
    BY <1>1, <1>4, <1>5 DEF IInv, TypeOK, decoder
  <1>7. OpenRun' /\ Buffer' /\ InRun'
    BY <1>1, <1>5 DEF IInv, OpenRun, Buffer, InRun, Pos, decoder
  <1> QED BY <1>4, <1>6, <1>7 DEF IInv

-----------------------------------------------------------------------------
\* While a frame is being decoded the run in hand is the rest of the run of
\* one byte k, the byte fetched now if one was due; it begins at Pos.
LEMMA RunInHand ==
  ASSUME IInv, pc = "decode", pixels_drawn < Pixels
  PROVE  /\ Pos \in 0..(Total - 1)
         /\ FetchDue => rle_ptr < Len(rle)
         /\ \E k \in 1..Len(rle) :
              /\ k = IF FetchDue THEN rle_ptr + 1 ELSE rle_ptr
              /\ Color = ColorOf(rle[k])
              /\ Run \in 1..MaxRun
              /\ start[k] \in Nat
              /\ start[k] + RunOf(rle[k]) = Pos + Run
              /\ Run <= RunOf(rle[k])
  <1>1. /\ Base(current_frame) \in Nat
        /\ Base(current_frame) + Pixels <= Total
        /\ pixels_drawn \in Nat /\ Pixels \in Nat /\ Total \in Nat
        /\ rle_ptr \in 0..Len(rle) /\ Len(rle) \in Nat
        /\ current_run \in 0..MaxRun /\ MaxRun \in Nat
    BY RleAssumption, FrameBases DEF IInv, TypeOK
  <1>2. Pos \in 0..(Total - 1)
    BY <1>1 DEF Pos
  <1>3. Covered = Total
    BY DEF Covered
  <1>4. \A k \in 1..Len(rle) : start[k] \in Nat
    <2> SUFFICES ASSUME NEW k \in 1..Len(rle) PROVE start[k] \in Nat
      OBVIOUS
    <2>1. start \in Seq(0..Total) /\ k \in 1..Len(start)
      BY DEF IInv, TypeOK, Stream
    <2>2. start[k] \in 0..Total
      BY <2>1, ElementOfSeq
    <2> QED BY <1>1, <2>2
  <1>5. CASE FetchDue
    <2>1. current_run = 0
      BY <1>5 DEF FetchDue
    <2>2. rle_ptr < Len(rle) /\ start[rle_ptr + 1] = Pos
      <3>1. CASE rle_ptr = 0
        <4>1. Pos = 0 /\ Total > 0
          BY <1>1, <1>2, <3>1 DEF IInv, InRun
        <4>2. Len(rle) > 0 /\ start[1] = 0
          BY <1>1, <1>3, <4>1 DEF IInv, Stream
        <4> QED BY <3>1, <4>1, <4>2
      <3>2. CASE rle_ptr > 0
        <4>1. rle_ptr \in 1..Len(rle)
          BY <1>1, <3>2
        <4>2. start[rle_ptr] + RunOf(rle[rle_ptr]) = Pos + 0
          BY <2>1, <3>2 DEF IInv, InRun
        <4>3. start[rle_ptr] + RunOf(rle[rle_ptr]) =
                IF rle_ptr = Len(rle) THEN Total ELSE start[rle_ptr + 1]
          BY <1>3, <4>1 DEF IInv, Stream
        <4>4. rle_ptr # Len(rle)
          BY <1>1, <1>2, <4>2, <4>3
        <4> QED BY <1>1, <1>2, <4>1, <4>2, <4>3, <4>4
      <3> QED BY <1>1, <3>1, <3>2
    <2>3. rle_ptr + 1 \in 1..Len(rle)
      BY <1>1, <2>2
    <2>4. RunOf(rle[rle_ptr + 1]) \in 1..MaxRun /\ start[rle_ptr + 1] \in Nat
      BY <1>4, <2>3 DEF IInv, Stream
    <2>5. Run = RunOf(rle[rle_ptr + 1]) /\ Color = ColorOf(rle[rle_ptr + 1])
      BY <1>5 DEF Run, Color
    <2> QED BY <1>1, <1>2, <1>5, <2>2, <2>3, <2>4, <2>5
  <1>6. CASE ~ FetchDue
    <2>1. current_run # 0 /\ Run = current_run /\ Color = current_color
      BY <1>6 DEF FetchDue, Run, Color
    <2>2. rle_ptr \in 1..Len(rle)
      BY <1>1, <2>1 DEF IInv, InRun
    <2>3. /\ start[rle_ptr] + RunOf(rle[rle_ptr]) = Pos + current_run
          /\ current_run <= RunOf(rle[rle_ptr])
          /\ current_color = ColorOf(rle[rle_ptr])
      BY <1>1, <2>2 DEF IInv, InRun
    <2> QED BY <1>1, <1>2, <1>4, <1>6, <2>1, <2>2, <2>3
  <1> QED BY <1>5, <1>6

\* _start, one turn of the inner loop: the pixels painted are those of the
\* run in hand, and the run keeps its rest.
LEMMA DecodeInv == IInv /\ DecodeRun => IInv'
  <1> SUFFICES ASSUME IInv, DecodeRun PROVE IInv'
    OBVIOUS
  <1>1. /\ pc = "decode" /\ pc' = "decode" /\ pixels_drawn < Pixels
        /\ video' = video /\ UNCHANGED encoder
        /\ current_frame' = current_frame
        /\ current_color' = Color /\ current_run' = Run - ToDraw
        /\ pixels_drawn' = pixels_drawn + ToDraw
        /\ frame_buffer' = Painted(ToDraw)
        /\ rle_ptr' = IF FetchDue THEN rle_ptr + 1 ELSE rle_ptr
    BY DEF DecodeRun, RunLeft
  <1>2. Pos \in 0..(Total - 1)
    BY <1>1, RunInHand
  <1>3. PICK k \in 1..Len(rle) :
              /\ k = IF FetchDue THEN rle_ptr + 1 ELSE rle_ptr
              /\ Color = ColorOf(rle[k])
              /\ Run \in 1..MaxRun
              /\ start[k] \in Nat
              /\ start[k] + RunOf(rle[k]) = Pos + Run
              /\ Run <= RunOf(rle[k])
    BY <1>1, RunInHand
  <1>4. /\ Base(current_frame) \in Nat
        /\ Base(current_frame) + Pixels <= Total
        /\ pixels_drawn \in Nat /\ Pixels \in Nat /\ Total \in Nat
        /\ Len(rle) \in Nat /\ MaxRun \in Nat
        /\ Pos = Base(current_frame) + pixels_drawn
    BY RleAssumption, FrameBases DEF IInv, TypeOK, Pos
  <1>5. RunOf(rle[k]) \in 1..MaxRun /\ ColorOf(rle[k]) \in {0, 1}
    BY DEF IInv, Stream
  <1>6. ToDraw \in 1..Run /\ pixels_drawn + ToDraw <= Pixels
    BY <1>1, <1>3, <1>4 DEF ToDraw
  <1>7. \A p \in 0..(Total - 1) : Pos <= p /\ p < Pos + Run => video[p] = Color
    <2>1. \A p \in 0..(Total - 1) :
            start[k] <= p /\ p < start[k] + RunOf(rle[k]) =>
              video[p] = ColorOf(rle[k])
      BY DEF IInv, Stream
    <2>2. start[k] <= Pos
      <3>0. Pos \in Nat /\ start[k] \in Nat /\ RunOf(rle[k]) \in Nat /\ Run \in Nat
        <4>1. \A x \in 1..MaxRun : x \in Nat
          BY <1>4
        <4> QED BY <1>2, <1>3, <1>5, <4>1
      <3>1. PICK a \in Nat, r \in Nat, n \in Nat, p \in Nat :
              a = start[k] /\ r = RunOf(rle[k]) /\ n = Run /\ p = Pos
        BY <3>0
      <3>2. a + r = p + n /\ n <= r
        BY <1>3, <3>1
      <3>3. a <= p
        BY <3>2
      <3> QED BY <3>1, <3>3
    <2>3. ASSUME NEW p \in 0..(Total - 1), Pos <= p, p < Pos + Run
          PROVE  start[k] <= p /\ p < start[k] + RunOf(rle[k])
      <3>1. p \in Nat /\ Pos \in Nat /\ start[k] \in Nat
        BY <1>2, <1>3, <1>4
      <3> QED BY <1>3, <2>2, <2>3, <3>1
    <2> QED BY <1>3, <2>1, <2>3
  <1>8. /\ i' = i /\ currentColor' = currentColor /\ runLength' = runLength
        /\ rle' = rle /\ start' = start /\ rle_ptr' = k
    BY <1>1, <1>3 DEF encoder
  <1>9. TypeOK'
    <2>1. frame_buffer' \in [0..(Pixels - 1) -> {0, 1}]
      BY <1>1 DEF Painted, IInv, TypeOK
    <2>2. current_run' \in 0..MaxRun /\ pixels_drawn' \in 0..Pixels
      BY <1>1, <1>3, <1>4, <1>6
    <2>3. rle_ptr' \in 0..Len(rle') /\ current_color' \in {0, 1}
      BY <1>1, <1>3, <1>4, <1>5, <1>8
    <2> QED BY <1>1, <1>8, <2>1, <2>2, <2>3 DEF IInv, TypeOK
  <1>10. OpenRun'
    BY <1>1, <1>8 DEF IInv, OpenRun
  <1>11. Covered' = Covered
    BY <1>1 DEF Covered
  <1>12. Stream'
    BY <1>1, <1>8, <1>11 DEF IInv, Stream
  <1>13. InRun'
    <2>1. Pos' = Pos + ToDraw
      BY <1>1, <1>3, <1>4, <1>6 DEF Pos
    <2>2. /\ start'[rle_ptr'] + RunOf(rle'[rle_ptr']) = Pos' + current_run'
          /\ current_run' <= RunOf(rle'[rle_ptr'])
          /\ current_color' = ColorOf(rle'[rle_ptr'])
      <3>1. /\ start'[rle_ptr'] = start[k]
            /\ RunOf(rle'[rle_ptr']) = RunOf(rle[k])
            /\ ColorOf(rle'[rle_ptr']) = ColorOf(rle[k])
        BY <1>8
      <3>2. (Pos + ToDraw) + (Run - ToDraw) = Pos + Run /\ Run - ToDraw <= Run
        BY <1>2, <1>3, <1>4, <1>6
      <3>3. Run - ToDraw <= RunOf(rle[k])
        BY <1>3, <1>4, <1>5, <1>6
      <3> QED BY <1>1, <1>3, <2>1, <3>1, <3>2, <3>3
    <2>3. rle_ptr' > 0
      BY <1>4, <1>8
    <2> QED BY <1>1, <2>2, <2>3 DEF InRun
  <1>14. Buffer'
    <2> SUFFICES ASSUME NEW p \in 0..(Pixels - 1)
                 PROVE  frame_buffer'[p] =
                          IF p < pixels_drawn + ToDraw
                            THEN video[Base(current_frame) + p] ELSE 0
      BY <1>1 DEF Buffer
    <2>1. frame_buffer'[p] =
            IF Color = 1 /\ pixels_drawn <= p /\ p < pixels_drawn + ToDraw
              THEN 1 ELSE frame_buffer[p]
      BY <1>1 DEF Painted
    <2>2. frame_buffer[p] = IF p < pixels_drawn
                              THEN video[Base(current_frame) + p] ELSE 0
      BY DEF IInv, Buffer
    <2>3. p < pixels_drawn + ToDraw /\ ~ p < pixels_drawn =>
            video[Base(current_frame) + p] = Color
      <3>1. Base(current_frame) + p \in 0..(Total - 1)
        BY <1>4
      <3>2. p < pixels_drawn + ToDraw /\ ~ p < pixels_drawn =>
              /\ Pos <= Base(current_frame) + p
              /\ Base(current_frame) + p < Pos + Run
        <4>1. Run \in 1..MaxRun
          BY <1>3
        <4> QED BY <1>4, <1>6, <4>1
      <3> QED BY <1>7, <3>1, <3>2
    <2>4. Color \in {0, 1}
      BY <1>3, <1>5
    <2> QED BY <1>3, <1>4, <1>6, <2>1, <2>2, <2>3, <2>4
  <1> QED BY <1>9, <1>10, <1>12, <1>13, <1>14 DEF IInv

\* draw_frame reads the buffer and changes none of this state.
LEMMA DrawInv == IInv /\ DrawFrame => IInv'
  <1> SUFFICES ASSUME IInv, DrawFrame PROVE IInv'
    OBVIOUS
  <1> USE DEF DrawFrame, encoder, decoder
  <1>1. TypeOK'
    BY DEF IInv, TypeOK
  <1>2. OpenRun'
    BY DEF IInv, OpenRun
  <1>3. Stream'
    BY DEF IInv, Stream, Covered
  <1>4. InRun'
    BY DEF IInv, InRun, Pos
  <1>5. Buffer'
    BY DEF IInv, Buffer
  <1> QED BY <1>1, <1>2, <1>3, <1>4, <1>5 DEF IInv

\* current_frame++ with the buffer cleared: the position in the video does
\* not move, so the run in hand carries over the boundary.
LEMMA NextFrameInv == IInv /\ NextFrame => IInv'
  <1> SUFFICES ASSUME IInv, NextFrame PROVE IInv'
    OBVIOUS
  <1> USE DEF NextFrame, encoder
  <1>1. /\ current_frame \in 0..(Frames - 1)
        /\ current_frame' = current_frame + 1
        /\ current_frame' \in 0..(Frames - 1)
        /\ pixels_drawn = Pixels /\ pixels_drawn' = 0 /\ Pixels \in Nat \ {0}
    BY RleAssumption DEF IInv, TypeOK, InRun
  <1>2. Pos' = Pos
    BY <1>1, FrameBases DEF Pos
  <1>3. TypeOK'
    BY <1>1 DEF IInv, TypeOK, Blank
  <1>4. OpenRun'
    BY DEF IInv, OpenRun
  <1>5. Stream'
    BY DEF IInv, Stream, Covered
  <1>6. InRun'
    BY <1>2 DEF IInv, InRun
  <1>7. Buffer'
    BY <1>1 DEF Buffer, Blank
  <1> QED BY <1>3, <1>4, <1>5, <1>6, <1>7 DEF IInv

\* The next pass over the video starts from the first byte and pixel 0.
LEMMA RestartInv == IInv /\ Restart => IInv'
  <1> SUFFICES ASSUME IInv, Restart PROVE IInv'
    OBVIOUS
  <1> USE DEF Restart, encoder
  <1>1. /\ current_frame' = 0 /\ 0 \in 0..(Frames - 1) /\ pixels_drawn' = 0
        /\ Pixels \in Nat \ {0} /\ Len(rle) \in Nat /\ MaxRun \in Nat
    BY RleAssumption DEF IInv, TypeOK
  <1>2. Pos' = 0
    BY <1>1, FrameBases DEF Pos
  <1>3. TypeOK'
    BY <1>1 DEF IInv, TypeOK, Blank
  <1>4. OpenRun'
    BY DEF IInv, OpenRun
  <1>5. Stream'
    BY DEF IInv, Stream, Covered
  <1>6. InRun'
    BY <1>2 DEF InRun
  <1>7. Buffer'
    BY <1>1 DEF Buffer, Blank
  <1> QED BY <1>3, <1>4, <1>5, <1>6, <1>7 DEF IInv

-----------------------------------------------------------------------------
\* IInv is an inductive invariant of the converter and the player together.
THEOREM Inductive == Spec => []IInv
  <1>1. IInv /\ UNCHANGED vars => IInv'
    BY DEF vars, encoder, decoder, IInv, TypeOK, OpenRun, Stream, Covered,
           InRun, Pos, Buffer
  <1>2. IInv /\ [Next]_vars => IInv'
    BY <1>1, EncodeInv, FinishInv, DecodeInv, DrawInv, NextFrameInv,
       RestartInv DEF Next
  <1> QED BY <1>2, InitInv, PTL DEF Spec

\* Every variable of the converter and of the player keeps its type; rle_ptr
\* never runs past the stream.
THEOREM TypeCorrect == Spec => []TypeOK
  <1>1. IInv => TypeOK
    BY DEF IInv
  <1> QED BY <1>1, Inductive, PTL

\* Every frame draw_frame is given is the frame the converter read, on every
\* pass and wherever runs cross frame boundaries.
THEOREM Faithful == Spec => []DrawnIsSource
  <1>1. IInv => DrawnIsSource
    BY RleAssumption DEF IInv, Buffer, InRun, TypeOK, DrawnIsSource
  <1> QED BY <1>1, Inductive, PTL

\* The player needs no end-of-stream check: whenever it fetches a byte the
\* converter has written one.
THEOREM InBounds == Spec => []NeverPastEnd
  <1>1. IInv => NeverPastEnd
    BY RunInHand DEF NeverPastEnd
  <1> QED BY <1>1, Inductive, PTL

\* No byte is an empty run, and rleBuffer is large enough for the stream.
THEOREM Advancing == Spec => []RunsAdvance
  <1>1. ASSUME IInv PROVE RunsAdvance
    <2>1. /\ Total \in Nat /\ Len(rle) \in Nat /\ MaxRun \in Nat
          /\ i \in 0..Total /\ runLength \in 0..MaxRun /\ runLength <= i
      BY <1>1, RleAssumption, FrameBases DEF IInv, TypeOK, OpenRun
    <2>2. Covered <= Total /\ Covered \in Nat
      BY <2>1 DEF Covered
    <2>3. ASSUME Len(rle) > 0 PROVE Len(rle) <= Total
      <3>1. start \in Seq(0..Total) /\ Len(rle) \in 1..Len(start)
        BY <1>1, <2>1, <2>3 DEF IInv, TypeOK, Stream
      <3>2. start[Len(rle)] \in 0..Total
        BY <3>1, ElementOfSeq
      <3>3. /\ Len(rle) - 1 <= start[Len(rle)]
            /\ RunOf(rle[Len(rle)]) \in 1..MaxRun
            /\ start[Len(rle)] + RunOf(rle[Len(rle)]) = Covered
        BY <1>1, <2>1, <2>3 DEF IInv, Stream
      <3> QED BY <2>1, <2>2, <3>2, <3>3
    <2>4. Len(rle) <= Total
      BY <2>1, <2>3
    <2> QED BY <1>1, <2>1, <2>4 DEF RunsAdvance, IInv, Stream
  <1> QED BY <1>1, Inductive, PTL

\* The last frame ends the stream: nothing is left over and nothing is short.
THEOREM ExactLength == Spec => []ConsumedAtEnd
  <1>1. ASSUME IInv, pc = "draw", current_frame + 1 = Frames
        PROVE  rle_ptr = Len(rle) /\ current_run = 0
    <2>1. /\ Total \in Nat /\ Len(rle) \in Nat /\ MaxRun \in Nat
          /\ rle_ptr \in 0..Len(rle) /\ current_run \in 0..MaxRun
      BY <1>1, RleAssumption, FrameBases DEF IInv, TypeOK
    <2>2. Pos = Total /\ Total > 0
      BY <1>1, RleAssumption, FrameBases DEF IInv, TypeOK, InRun, Pos
    <2>3. /\ rle_ptr \in 1..Len(rle)
          /\ start[rle_ptr] + RunOf(rle[rle_ptr]) = Total + current_run
      BY <1>1, <2>1, <2>2 DEF IInv, InRun
    <2>4. Covered = Total
      BY <1>1 DEF Covered
    <2>5. \A k \in 1..Len(rle) :
            /\ RunOf(rle[k]) \in 1..MaxRun
            /\ start[k] + RunOf(rle[k]) = IF k = Len(rle) THEN Total
                                          ELSE start[k + 1]
      BY <1>1, <2>4 DEF IInv, Stream
    <2>6. \A k \in 1..Len(rle) : start[k] \in 0..Total
      <3> SUFFICES ASSUME NEW k \in 1..Len(rle) PROVE start[k] \in 0..Total
        OBVIOUS
      <3>1. start \in Seq(0..Total) /\ k \in 1..Len(start)
        BY <1>1 DEF IInv, TypeOK, Stream
      <3> QED BY <3>1, ElementOfSeq
    <2>7. rle_ptr = Len(rle)
      <3> SUFFICES ASSUME rle_ptr # Len(rle) PROVE FALSE
        OBVIOUS
      <3> DEFINE k == rle_ptr + 1
      <3>1. k \in 1..Len(rle)
        BY <2>1, <2>3
      <3>2. start[rle_ptr] + RunOf(rle[rle_ptr]) = start[k]
        BY <2>3, <2>5
      <3>3. start[k] + RunOf(rle[k]) <= Total /\ RunOf(rle[k]) >= 1
        <4>1. CASE k = Len(rle)
          BY <2>1, <2>5, <3>1, <4>1
        <4>2. CASE k # Len(rle)
          <5>1. k + 1 \in 1..Len(rle)
            BY <2>1, <3>1, <4>2
          <5>2. start[k] + RunOf(rle[k]) = start[k + 1]
            BY <2>5, <3>1, <4>2
          <5> QED BY <2>1, <2>5, <2>6, <3>1, <5>1, <5>2
        <4> QED BY <4>1, <4>2
      <3>4. start[k] \in 0..Total /\ RunOf(rle[k]) \in 1..MaxRun
        BY <2>5, <2>6, <3>1
      <3> HIDE DEF k
      <3> QED BY <2>1, <2>3, <3>2, <3>3, <3>4
    <2>8. Total + current_run = Total
      BY <2>3, <2>5, <2>7
    <2> QED BY <2>1, <2>7, <2>8
  <1>2. IInv => ConsumedAtEnd
    BY <1>1 DEF ConsumedAtEnd
  <1> QED BY <1>2, Inductive, PTL

\* Decoding uses the converter's bytes exactly: it never reads past them, never
\* stalls on an empty run, and has used all of them when the last frame ends.
THEOREM StreamRead == Spec => []StreamFits
  <1>1. NeverPastEnd /\ RunsAdvance /\ ConsumedAtEnd => StreamFits
    BY DEF StreamFits
  <1> QED BY <1>1, InBounds, Advancing, ExactLength, PTL

-----------------------------------------------------------------------------
(* The decoder at work with the drawing call.                              *)

\* Together with the kernel the converter and the decoder still take their own
\* steps, or none.
THEOREM RunsRle == VideoSpec => Spec
  <1>1. VideoInit => Init
    BY DEF VideoInit
  <1>2. [VideoNext]_all => [Next]_vars
    <2> SUFFICES ASSUME [VideoNext]_all PROVE [Next]_vars
      OBVIOUS
    <2>1. CASE Prepare
      BY <2>1 DEF Prepare, Next
    <2>2. CASE CallDraw
      BY <2>2 DEF CallDraw, Next
    <2>3. CASE Proceed
      BY <2>3 DEF Proceed, Next
    <2>4. CASE Kernel
      BY <2>4 DEF Kernel
    <2>5. CASE UNCHANGED all
      BY <2>5 DEF all
    <2> QED BY <2>1, <2>2, <2>3, <2>4, <2>5 DEF VideoNext
  <1> QED BY <1>1, <1>2, PTL DEF VideoSpec, Spec

\* What the player hands over is the frame of the source, whatever the kernel
\* does in between.
THEOREM HandsSource == VideoSpec => []DrawnIsSource
  BY RunsRle, Faithful, PTL

\* The decoder fetches only bytes the converter wrote.
THEOREM StreamReadThroughout == VideoSpec => []StreamFits
  BY RunsRle, StreamRead, PTL

-----------------------------------------------------------------------------
\* Between two frames the frame drawn last is the one before in the video.
HandInv ==
  /\ Handed
  /\ pc = "encode" => frame = NoFrame /\ current_frame = 0
  /\ pc = "decode" => frame \in {NoFrame, Source(Before(current_frame))}

\* Nothing is drawn while the video is converted.
LEMMA HandInit == VideoInit => HandInv
  BY DEF VideoInit, Init, DrawInit, HandInv, Handed

\* One step of the decoder, of the call or of the return from it.
LEMMA HandStep ==
  ASSUME TypeOK, DrawnIsSource', HandInv, [VideoNext]_all
  PROVE  HandInv'
  <1>1. CASE UNCHANGED all
    BY <1>1 DEF all, vars, encoder, decoder, drawing, HandInv, Handed, Source,
                Before
  <1>2. CASE Prepare
    <2>1. /\ frame' = frame /\ shown' = shown /\ call' = call
          /\ video' = video /\ current_frame' = current_frame
          /\ \/ pc' = pc /\ pc # "draw"
             \/ pc = "encode" /\ pc' = "decode"
      BY <1>2 DEF Prepare, EncodePixel, FinishEncoding, DecodeRun, drawing,
                  decoder, encoder
    <2> QED BY <2>1 DEF HandInv, Handed, Source, Before
  <1>3. CASE CallDraw
    <2>1. /\ pc = "decode" /\ pc' = "draw" /\ frame' = Packed
          /\ shown' = frame /\ video' = video
          /\ current_frame' = current_frame /\ frame_buffer' = frame_buffer
      BY <1>3 DEF CallDraw, DrawFrame, draw_frame, encoder, decoder
    <2>2. Packed = Source(current_frame)
      BY <2>1 DEF DrawnIsSource, Packed, Source, Base
    <2> QED BY <2>1, <2>2 DEF HandInv, Handed, Source, Before
  <1>4. CASE Proceed
    <2>1. /\ pc = "draw" /\ pc' = "decode" /\ call = "player" /\ call' = call
          /\ frame' = frame /\ video' = video
          /\ \/ /\ current_frame' = current_frame + 1
                /\ current_frame + 1 < Frames
             \/ current_frame' = 0 /\ current_frame + 1 = Frames
      BY <1>4 DEF Proceed, NextFrame, Restart, drawing, encoder
    <2>2. Before(current_frame') = current_frame
      <3>1. current_frame \in 0..(Frames - 1) /\ Frames \in Nat \ {0}
        BY RleAssumption DEF TypeOK
      <3> QED BY <2>1, <3>1 DEF Before
    <2>3. frame = Source(current_frame)
      BY <2>1 DEF HandInv, Handed
    <2> QED BY <2>1, <2>2, <2>3 DEF HandInv, Handed, Source, Before
  <1>5. CASE Kernel
    <2>1. /\ pc' = pc /\ video' = video /\ current_frame' = current_frame
          /\ frame' = frame /\ shown' = shown /\ call # "player"
      BY <1>5 DEF Kernel, InCall, MakeBackbuffer, PaintRow, PaintedAll,
                  CopyRow, CopiedAll, Fault, vars, encoder, decoder, drawing
    <2>2. pc = "draw"
      BY <2>1 DEF HandInv, Handed
    <2> QED BY <2>1, <2>2 DEF HandInv, Handed, Source, Before
  <1> QED BY <1>1, <1>2, <1>3, <1>4, <1>5 DEF VideoNext

\* The frame in the hands of the kernel is the frame of the source, and the one
\* it replaces is the frame before it.
THEOREM HandedInOrder == VideoSpec => []Handed
  <1>1. VideoSpec => []TypeOK
    BY RunsRle, TypeCorrect, PTL
  <1>2. HandInv => Handed
    BY DEF HandInv
  <1> QED BY <1>1, <1>2, HandsSource, HandInit, HandStep, PTL DEF VideoSpec
-----------------------------------------------------------------------------
(* The arithmetic of draw_frame.                                           *)

\* A quotient and a remainder that fit are the quotient and the remainder.
LEMMA Division ==
  ASSUME NEW m \in Nat \ {0}, NEW q \in Int, NEW r \in 0..(m - 1)
  PROVE  (q * m + r) % m = r /\ (q * m + r) \div m = q
  <1> DEFINE n == q * m + r
             e == n \div m
             s == n % m
  <1>1. q * m \in Int /\ n \in Int
    OBVIOUS
  <1>2. e \in Int /\ s \in 0..(m - 1) /\ n = m * e + s
    BY <1>1
  <1>3. m * e \in Int /\ m * (q - e) = q * m - m * e
    BY <1>2
  <1>4. m * (q - e) = s - r
    BY <1>1, <1>2, <1>3
  <1>5. ASSUME q - e >= 1 PROVE FALSE
    <2>1. m * (q - e) >= m
      BY <1>2, <1>5
    <2> QED BY <1>2, <1>4, <2>1
  <1>6. ASSUME q - e <= -1 PROVE FALSE
    <2>1. m * (q - e) <= -m
      BY <1>2, <1>6
    <2> QED BY <1>2, <1>4, <2>1
  <1>7. q = e /\ s = r
    BY <1>2, <1>4, <1>5, <1>6
  <1> QED BY <1>7

\* Whole bytes of a row are no more than the row, and all of it where they fill it.
LEMMA Quotient ==
  ASSUME NEW n \in Nat, NEW m \in Nat \ {0}
  PROVE  (n \div m) * m \in 0..n /\ (n % m = 0 => (n \div m) * m = n)
  <1> DEFINE q == n \div m
             r == n % m
  <1>1. n \in Int /\ m \in Int /\ m > 0
    OBVIOUS
  <1>2. q \in Int /\ r \in 0..(m - 1)
    OBVIOUS
  <1>3. r = n - m * q
    BY <1>1
  <1> HIDE DEF q, r
  <1>4. q * m = m * q /\ q * m \in Int
    BY <1>1, <1>2
  <1>5. ASSUME q < 0 PROVE FALSE
    <2>1. m * q <= -m
      BY <1>1, <1>2, <1>5
    <2> QED BY <1>1, <1>2, <1>3, <2>1
  <1>6. q * m \in Nat
    BY <1>1, <1>2, <1>4, <1>5
  <1>7. q * m \in 0..n /\ (r = 0 => q * m = n)
    BY <1>1, <1>2, <1>3, <1>4, <1>6
  <1> QED BY <1>7 DEF q, r

\* Half of a number, rounded down also below zero.
LEMMA Halved ==
  ASSUME NEW n \in Int
  PROVE  n \div 2 \in Int /\ 2 * (n \div 2) <= n /\ n <= 2 * (n \div 2) + 1
  OBVIOUS

\* Halving the unsigned difference of 64 bits and storing it in an int gives
\* half of the signed difference, so a part larger than the whole begins before
\* it by as much as it ends after it.
LEMMA HalfDifference ==
  ASSUME NEW all1 \in Nat, NEW part \in Nat, 2 * all1 < IntWord, 2 * part < IntWord
  PROVE  Start(all1, part) = (all1 - part) \div 2
  <1> DEFINE d == all1 - part
             h == d \div 2
             r == d % 2
  <1> USE DrawAssumption
  <1>1. PICK q \in Nat \ {0} : Word = q * (2 * IntWord)
    <2> DEFINE k == Word \div (2 * IntWord)
    <2>1. k \in Nat /\ Word = (2 * IntWord) * k
      OBVIOUS
    <2>2. k # 0
      BY <2>1
    <2>3. Word = k * (2 * IntWord)
      BY <2>1
    <2> HIDE DEF k
    <2> QED BY <2>1, <2>2, <2>3
  <1>2. d = 2 * h + r /\ r \in {0, 1} /\ d \in Int /\ h \in Int
    OBVIOUS
  <1>3. Word >= 2 * IntWord
    BY <1>1
  <1>4. CASE d >= 0
    <2>1. d < Word /\ d \in 0..(Word - 1)
      BY <1>2, <1>3, <1>4
    <2>2. d % Word = d
      BY <2>1
    <2>3. h \in 0..(IntWord - 1) /\ 2 * h < IntWord
      BY <1>2, <1>4
    <2>4. h % IntWord = h
      BY <2>3
    <2> QED BY <2>2, <2>3, <2>4 DEF Start, AsInt
  <1>5. CASE d < 0
    <2>1. Word + d \in 0..(Word - 1) /\ Word \in Nat \ {0} /\ -1 \in Int
      BY <1>2, <1>3, <1>5
    <2>2. d % Word = Word + d
      <3>1. (-1 * Word + (Word + d)) % Word = Word + d
        BY <2>1, Division
      <3> QED BY <3>1, <1>2, <2>1
    <2>3. (Word + d) \div 2 = q * IntWord + h
      <3>1. q * IntWord \in Int /\ Word + d = (q * IntWord + h) * 2 + r
        BY <1>1, <1>2
      <3> QED BY <3>1, <1>2, Division
    <2>4. IntWord + h \in 0..(IntWord - 1) /\ 2 * (IntWord + h) >= IntWord
      BY <1>2, <1>5
    <2>5. (q * IntWord + h) % IntWord = IntWord + h
      <3>1. q - 1 \in Int /\ IntWord \in Nat \ {0}
        OBVIOUS
      <3>2. ((q - 1) * IntWord + (IntWord + h)) % IntWord = IntWord + h
        BY <2>4, <3>1, Division
      <3>3. (q - 1) * IntWord + (IntWord + h) = q * IntWord + h
        BY <1>2
      <3> QED BY <3>2, <3>3
    <2> QED BY <1>2, <2>2, <2>3, <2>4, <2>5 DEF Start, AsInt
  <1> QED BY <1>2, <1>4, <1>5

\* Rows of an array do not overlap.
LEMMA RowsApart ==
  ASSUME NEW p \in Nat, NEW b \in Int, NEW c \in Int,
         NEW a \in 0..(p - 1), NEW e \in 0..(p - 1), b * p + a = c * p + e
  PROVE  b = c /\ a = e
  <1>1. p \in Nat \ {0}
    OBVIOUS
  <1>2. (b * p + a) \div p = b /\ (c * p + e) \div p = c
    BY <1>1, Division
  <1>3. b = c
    BY <1>2
  <1> QED BY <1>3

\* What the bootloader reports of a screen.
LEMMA Screen1 ==
  ASSUME framebuffers \in Framebuffers, framebuffers # <<>>
  PROVE  /\ fb.width \in Nat /\ fb.height \in Nat /\ fb.pitch \in Nat
         /\ fb.width <= fb.pitch
         /\ 2 * fb.width < IntWord /\ 2 * fb.height < IntWord
  <1>1. framebuffers \in Seq(Geometry)
    BY DrawAssumption
  <1>2. 1 \in 1..Len(framebuffers) /\ framebuffers[1] \in Geometry
    BY <1>1
  <1> QED BY <1>2, DrawAssumption DEF fb, Geometry

-----------------------------------------------------------------------------
(* The inductive invariant of the drawing call.                            *)

Fits == framebuffers # <<>> /\ size.w <= fb.width

\* The call has copied the first row it draws, or a call has returned.
Reached ==
  \/ call = "copy" /\ screen_y > RowsAbove
  \/ call = "player" /\ backbuffer # NULL

\* Without a screen no call goes on, within one the frame is not NoFrame and
\* from the first row on there is a back buffer; and a pixel outside of the
\* buffers has been written if the video hangs over too far and the first row
\* drawn has been copied, and only if it does.
DrawSafe ==
  /\ DrawTyped
  /\ framebuffers = <<>> => call = "player"
  /\ call # "player" => -1 \notin frame
  /\ call = "clear" => y = 0
  /\ call \in {"paint", "copy"} => backbuffer \in [Cells -> {Clear, Black, White}]
  /\ framebuffers # <<>> =>
       /\ stray => Overhangs
       /\ Overhangs /\ Reached => stray

\* Rows of the back buffer that hold the frame, rows of the screen that show it.
RowPainted(b) == call # "paint" \/ b < screen_y
RowCopied(b) == call = "player" \/ (call = "copy" /\ b < screen_y)

\* Every pixel of either buffer is one of this frame, if its row has been
\* reached, or of the frame before, and there is none before the first.
PixelDrawn(a, b) ==
  LET c == b * fb.pitch + a IN
  /\ backbuffer = NULL =>
       /\ call \in {"player", "clear", "fault"}
       /\ call = "player" => frame = NoFrame
       /\ call = "clear" => shown = NoFrame
  /\ backbuffer # NULL =>
       /\ call \in {"player", "paint", "copy"}
       /\ backbuffer[c] = Pixel(IF RowPainted(b) THEN frame ELSE shown, a, b)
       /\ vram[c] = Pixel(IF RowCopied(b) THEN frame ELSE shown, a, b)

DrawnSoFar ==
  Fits /\ size.w % ByteBits = 0 =>
    \A a \in 0..(fb.width - 1), b \in 0..(fb.height - 1) : PixelDrawn(a, b)

ScreenInv == DrawSafe /\ DrawnSoFar

\* What the player may hand over.
Frame == SUBSET (0..(size.w * size.h - 1))

-----------------------------------------------------------------------------
(* Where draw_frame writes.                                                *)

\* The video is in the middle, above and below the screen where it is higher.
LEMMA Placed ==
  ASSUME framebuffers \in Framebuffers, framebuffers # <<>>, size \in Sizes,
         y \in 0..size.h
  PROVE  /\ size.w \in Nat /\ size.h \in Nat /\ y \in Nat
         /\ start_x = (fb.width - size.w) \div 2
         /\ start_y = (fb.height - size.h) \div 2
         /\ start_x \in Int /\ start_y \in Int /\ screen_y \in Int
         /\ Fits => start_x \in Nat /\ start_x + size.w <= fb.width
         /\ bytes_per_row * ByteBits \in 0..size.w
         /\ size.w % ByteBits = 0 => bytes_per_row * ByteBits = size.w
  <1>1. /\ size.w \in Nat /\ size.h \in Nat
        /\ 2 * size.w < IntWord /\ 2 * size.h < IntWord
        /\ y \in Nat
    BY DrawAssumption DEF Size
  <1>2. /\ fb.width \in Nat /\ fb.height \in Nat
        /\ 2 * fb.width < IntWord /\ 2 * fb.height < IntWord
    BY Screen1
  <1>3. start_x = (fb.width - size.w) \div 2 /\ start_y = (fb.height - size.h) \div 2
    BY <1>1, <1>2, HalfDifference DEF start_x, start_y
  <1>4. /\ start_x \in Int /\ start_y \in Int
        /\ 2 * start_x <= fb.width - size.w /\ fb.width - size.w <= 2 * start_x + 1
    <2>1. fb.width - size.w \in Int /\ fb.height - size.h \in Int
      BY <1>1, <1>2
    <2> QED BY <2>1, <1>3, Halved
  <1>5. Fits => start_x \in Nat /\ start_x + size.w <= fb.width
    BY <1>1, <1>2, <1>4 DEF Fits
  <1>6. /\ bytes_per_row * ByteBits \in 0..size.w
        /\ size.w % ByteBits = 0 => bytes_per_row * ByteBits = size.w
    BY <1>1, DrawAssumption, Quotient DEF bytes_per_row
  <1> QED BY <1>1, <1>3, <1>4, <1>5, <1>6 DEF screen_y

\* Every pixel of the screen has a cell.
LEMMA CellOf ==
  ASSUME framebuffers \in Framebuffers, framebuffers # <<>>,
         NEW a \in 0..(fb.width - 1), NEW b \in 0..(fb.height - 1)
  PROVE  /\ b * fb.pitch + a \in Cells
         /\ a \in 0..(fb.pitch - 1)
  <1> DEFINE p == fb.pitch
             h == fb.height
  <1>1. fb.width \in Nat /\ h \in Nat /\ p \in Nat /\ fb.width <= p
    BY Screen1
  <1>2. Cells = 0..(p * h - 1)
    BY DEF Cells
  <1>3. b \in 0..(h - 1) /\ a \in 0..(p - 1)
    BY <1>1
  <1> HIDE DEF p, h
  <1>4. h - (b + 1) \in Nat /\ b * p \in Nat /\ (h - (b + 1)) * p \in Nat
    BY <1>1, <1>3
  <1>5. p * h = b * p + p + (h - (b + 1)) * p
    BY <1>1, <1>3
  <1>6. b * p + a \in Cells
    BY <1>1, <1>2, <1>3, <1>4, <1>5
  <1> QED BY <1>3, <1>6 DEF p

\* Where the overhanging columns of a wider video are, and how many rows of the
\* screen are left above and below a row of the video.
LEMMA Overhanging ==
  ASSUME framebuffers \in Framebuffers, framebuffers # <<>>, size \in Sizes,
         y \in 0..size.h
  PROVE  /\ RowsAbove \in Nat /\ start_y <= RowsAbove
         /\ size.h > 0 /\ fb.height > 0 =>
              RowsAbove < fb.height /\ RowsAbove < start_y + size.h
         /\ size.w > fb.width =>
              /\ Overhang \in Nat /\ start_x = - Overhang
              /\ size.w - Overhang <= fb.width + Overhang
         /\ ~ OffScreen => RowsAbove <= screen_y
         /\ ~ OffScreen /\ MoreRows => screen_y + 1 + RowsAbove <= fb.height
  <1> DEFINE w == size.w
             h == size.h
             fw == fb.width
             fh == fb.height
             sx == start_x
             sy == start_y
             o == (w - fw + 1) \div 2
             k == IF h < fh THEN sy ELSE 0
  <1>1. /\ w \in Nat /\ h \in Nat /\ y \in Nat /\ fw \in Nat /\ fh \in Nat
        /\ sx = (fw - w) \div 2 /\ sx \in Int
        /\ sy = (fh - h) \div 2 /\ sy \in Int
    BY Placed, Screen1
  <1>2. fh - h \in Int /\ fw - w \in Int /\ w - fw + 1 \in Int
    <2>1. w \in Nat /\ h \in Nat /\ fw \in Nat /\ fh \in Nat
      BY <1>1
    <2> HIDE DEF w, h, fw, fh
    <2> QED BY <2>1
  <1>3. /\ 2 * sy <= fh - h /\ fh - h <= 2 * sy + 1
        /\ 2 * sx <= fw - w /\ fw - w <= 2 * sx + 1
        /\ o \in Int /\ 2 * o <= w - fw + 1 /\ w - fw + 1 <= 2 * o + 1
    BY <1>1, <1>2, Halved
  <1>4. RowsAbove = k /\ Overhang = o
    BY <1>1 DEF RowsAbove, Overhang
  <1>5. screen_y = sy + y
    BY DEF screen_y
  <1>6. /\ OffScreen <=> screen_y < 0 \/ screen_y >= fh
        /\ MoreRows <=> y < h
    BY DEF OffScreen, MoreRows
  <1>7. w \in Nat /\ h \in Nat /\ fw \in Nat /\ fh \in Nat /\ sx \in Int /\ sy \in Int
    BY <1>1
  <1>8. k = IF h < fh THEN sy ELSE 0
    OBVIOUS
  <1> HIDE DEF w, h, fw, fh, sx, sy, o, k
  <1>9. y \in Nat
    BY <1>1
  <1>10. k \in Nat /\ sy <= k
    BY <1>3, <1>7, <1>8
  <1>11. h > 0 /\ fh > 0 => k < fh /\ k < sy + h
    BY <1>3, <1>7, <1>8
  <1>12. w > fw => o \in Nat /\ sx = - o /\ w - o <= fw + o
    BY <1>3, <1>7
  <1>13. ~ OffScreen => k <= screen_y
    BY <1>3, <1>5, <1>6, <1>7, <1>8, <1>9
  <1>14. ~ OffScreen /\ MoreRows => screen_y + 1 + k <= fh
    BY <1>3, <1>5, <1>6, <1>7, <1>8, <1>9
  <1> QED BY <1>4, <1>10, <1>11, <1>12, <1>13, <1>14 DEF w, h, fw, fh, sx, sy

\* A row lies inside the buffers unless the video hangs over too far: where it is
\* wider than the screen its ends lie in the rows above and below.
LEMMA RowInside ==
  ASSUME DrawTyped, framebuffers # <<>>, MoreRows, ~ OffScreen, ~ Overhangs,
         NEW n \in 0..size.w
  PROVE  RowCells(n) \subseteq Cells
  <1>1. framebuffers \in Framebuffers /\ size \in Sizes /\ y \in 0..size.h
    BY DEF DrawTyped
  <1>2. /\ size.w \in Nat /\ size.h \in Nat /\ screen_y \in Int
        /\ Fits => start_x \in Nat /\ start_x + size.w <= fb.width
    BY <1>1, Placed
  <1>3. fb.width \in Nat /\ fb.height \in Nat /\ fb.pitch \in Nat /\ fb.width <= fb.pitch
    BY <1>1, Screen1
  <1>4. screen_y \in 0..(fb.height - 1)
    BY <1>2, <1>3 DEF OffScreen
  <1>5. screen_y * fb.pitch \in Nat
    BY <1>3, <1>4
  <1> SUFFICES ASSUME NEW c \in RowCells(n) PROVE c \in Cells
    OBVIOUS
  <1>6. start_x \in Int
    BY <1>1, Placed
  <1> DEFINE row == screen_y * fb.pitch
  <1>7. row \in Nat
    BY <1>5
  <1>8. c \in Int /\ row + start_x <= c /\ c < row + start_x + size.w
    <2>1. c \in (row + start_x)..(row + start_x + n - 1)
      BY DEF RowCells, RowStart
    <2> HIDE DEF row
    <2> QED BY <1>2, <1>6, <1>7, <2>1
  <1>9. CASE Fits
    <2>1. c \in Nat /\ c - row \in 0..(fb.width - 1)
      <3>1. /\ start_x \in Nat /\ start_x + size.w <= fb.width
            /\ size.w \in Nat /\ fb.width \in Nat
        BY <1>2, <1>3, <1>9
      <3> HIDE DEF row
      <3> QED BY <1>7, <1>8, <3>1
    <2>2. screen_y * fb.pitch + (c - screen_y * fb.pitch) \in Cells
      BY <1>1, <1>4, <2>1, CellOf
    <2> QED BY <1>5, <2>1, <2>2
  <1>10. CASE ~ Fits
    <2> DEFINE p == fb.pitch
               s == screen_y
               k == RowsAbove
               g == fb.height
               o == Overhang
    <2>1. size.w > fb.width
      BY <1>2, <1>3, <1>10 DEF Fits
    <2>2. /\ k \in Nat /\ o \in Nat /\ start_x = - o
          /\ size.w - o <= fb.width + o
          /\ k <= s /\ s + 1 + k <= g
      BY <1>1, <2>1, Overhanging
    <2>3. size.h > 0 /\ g > 0
      BY <1>1, <1>2, <1>3, <1>4 DEF MoreRows
    <2>4. o <= k * p
      <3>1. k * p \in Nat
        BY <1>3, <2>2
      <3> QED BY <3>1, <2>1, <2>2, <2>3 DEF Overhangs
    <2>5. c \in Int /\ s * p - o <= c /\ c < s * p - o + size.w
      <3>1. c \in Int /\ s * p + start_x <= c /\ c < s * p + start_x + size.w
        BY <1>8
      <3>2. start_x = - o /\ o \in Nat /\ s * p \in Nat /\ size.w \in Nat
        BY <1>2, <1>5, <2>2
      <3> DEFINE q == s * p
      <3> HIDE DEF q, o
      <3> QED BY <3>1, <3>2 DEF q
    <2>6. Cells = 0..(p * g - 1) /\ p \in Nat /\ g \in Nat /\ s \in Nat
          /\ fb.width <= p /\ fb.width \in Nat /\ size.w \in Nat
      BY <1>2, <1>3, <1>4 DEF Cells
    <2> HIDE DEF p, s, k, g, o
    <2>7. k * p <= s * p
      <3>1. s - k \in Nat /\ (s - k) * p \in Nat /\ k * p \in Nat
        BY <2>2, <2>6
      <3>2. s * p = k * p + (s - k) * p
        BY <2>2, <2>6
      <3> QED BY <3>1, <3>2
    <2>8. s * p + p + k * p <= p * g
      <3>1. g - (s + 1 + k) \in Nat /\ (g - (s + 1 + k)) * p \in Nat
            /\ s * p \in Nat /\ k * p \in Nat
        BY <2>2, <2>6
      <3>2. p * g = s * p + p + k * p + (g - (s + 1 + k)) * p
        BY <2>2, <2>6
      <3> QED BY <3>1, <3>2, <2>6
    <2>9. s * p \in Nat /\ k * p \in Nat /\ p * g \in Nat
      BY <2>2, <2>6
    <2>10. size.w - o <= p + o /\ o \in Nat
      BY <2>2, <2>6
    <2> DEFINE sp == s * p
               kp == k * p
               pg == p * g
    <2>11. /\ sp \in Nat /\ kp \in Nat /\ pg \in Nat
           /\ kp <= sp /\ sp + p + kp <= pg /\ o <= kp
           /\ sp - o <= c /\ c < sp - o + size.w
      BY <2>4, <2>5, <2>7, <2>8, <2>9
    <2>12. c \in 0..(pg - 1)
      <3> HIDE DEF sp, kp, pg
      <3> QED BY <2>5, <2>6, <2>10, <2>11
    <2> QED BY <2>6, <2>12
  <1> QED BY <1>9, <1>10

\* The first row drawn of a video that hangs over too far begins before the
\* buffers.
LEMMA RowOutside ==
  ASSUME DrawTyped, framebuffers # <<>>, Overhangs, screen_y = RowsAbove
  PROVE  ~ RowCells(size.w) \subseteq Cells
  <1>1. framebuffers \in Framebuffers /\ size \in Sizes /\ y \in 0..size.h
    BY DEF DrawTyped
  <1>2. /\ size.w \in Nat /\ fb.width \in Nat /\ fb.pitch \in Nat
        /\ size.w > fb.width /\ Overhang > RowsAbove * fb.pitch
        /\ RowsAbove \in Nat /\ Overhang \in Nat /\ start_x = - Overhang
    BY <1>1, Placed, Screen1, Overhanging DEF Overhangs
  <1>3. RowsAbove * fb.pitch \in Nat
    BY <1>2
  <1>4. RowStart \in Int /\ RowStart < 0
    BY <1>2, <1>3 DEF RowStart
  <1>5. RowStart \in RowCells(size.w)
    BY <1>2, <1>4 DEF RowCells
  <1>6. RowStart \notin Cells
    BY <1>4 DEF Cells
  <1> QED BY <1>5, <1>6

\* The row of the screen a row of the video is written to is its own, and the
\* cells written are those of the pixels the video covers.
LEMMA RowShown ==
  ASSUME DrawTyped, Fits, MoreRows, ~ OffScreen, NEW f, f # NoFrame,
         NEW a \in 0..(fb.width - 1), NEW b \in 0..(fb.height - 1)
  PROVE  LET c == b * fb.pitch + a IN
         /\ c \in RowCells(size.w) =>
              /\ b = screen_y
              /\ Pixel(f, a, b) = IF y * size.w + (c - RowStart) \in f THEN White ELSE Black
         /\ c \notin RowCells(size.w) /\ b = screen_y => \A g : Pixel(g, a, b) = Clear
  <1>1. framebuffers \in Framebuffers /\ framebuffers # <<>> /\ size \in Sizes /\ y \in 0..size.h
    BY DEF DrawTyped, Fits
  <1>2. /\ size.w \in Nat /\ size.h \in Nat /\ y \in Nat
        /\ start_x = (fb.width - size.w) \div 2 /\ start_y = (fb.height - size.h) \div 2
        /\ start_x \in Nat /\ start_y \in Int /\ screen_y \in Int
        /\ start_x + size.w <= fb.width
    BY <1>1, Placed
  <1>3. fb.width \in Nat /\ fb.height \in Nat /\ fb.pitch \in Nat /\ fb.width <= fb.pitch
    BY <1>1, Screen1
  <1> DEFINE c == b * fb.pitch + a
             x == a - start_x
  <1>4. b * fb.pitch \in Nat /\ screen_y * fb.pitch \in Int
    BY <1>2, <1>3
  <1>5. screen_y - start_y = y /\ y \in 0..(size.h - 1)
    BY <1>2 DEF screen_y, MoreRows
  <1>6. ASSUME c \in RowCells(size.w)
        PROVE  b = screen_y /\ x \in 0..(size.w - 1) /\ c - RowStart = x
    <2> DEFINE e == c - screen_y * fb.pitch
    <2>1. c = screen_y * fb.pitch + e /\ e \in start_x..(start_x + size.w - 1)
      BY <1>2, <1>3, <1>4, <1>6 DEF RowCells, RowStart
    <2>2. e \in 0..(fb.pitch - 1) /\ a \in 0..(fb.pitch - 1)
      BY <1>2, <1>3, <2>1
    <2> HIDE DEF e
    <2>3. b = screen_y /\ a = e
      BY <1>2, <1>3, <2>1, <2>2, RowsApart
    <2> QED BY <1>2, <1>4, <2>1, <2>3 DEF RowStart
  <1>7. ASSUME c \notin RowCells(size.w), b = screen_y
        PROVE  x \notin 0..(size.w - 1)
    BY <1>2, <1>3, <1>4, <1>7 DEF RowCells, RowStart
  <1>8. ASSUME c \in RowCells(size.w)
        PROVE  Pixel(f, a, b) = IF y * size.w + (c - RowStart) \in f THEN White ELSE Black
    BY <1>2, <1>5, <1>6, <1>8 DEF Pixel
  <1>9. ASSUME c \notin RowCells(size.w), b = screen_y, NEW g
        PROVE  Pixel(g, a, b) = Clear
    BY <1>2, <1>7, <1>9 DEF Pixel
  <1> QED BY <1>6, <1>8, <1>9

\* Above and below the video the screen is clear.
LEMMA Around ==
  ASSUME DrawTyped, Fits, NEW f,
         NEW a \in 0..(fb.width - 1), NEW b \in 0..(fb.height - 1),
         b < start_y \/ b >= start_y + size.h
  PROVE  Pixel(f, a, b) = Clear
  <1>1. /\ size.h \in Nat /\ start_y = (fb.height - size.h) \div 2 /\ start_y \in Int
    BY Placed DEF DrawTyped, Fits
  <1>2. b - start_y \notin 0..(size.h - 1)
    BY <1>1
  <1> QED BY <1>1, <1>2 DEF Pixel

\* The row is reached after the step that draws it, or needs no drawing.
LEMMA RowReached ==
  ASSUME DrawTyped, framebuffers # <<>>, y' = y + 1, UNCHANGED <<framebuffers, size>>,
         NEW b \in 0..(fb.height - 1)
  PROVE  /\ b < screen_y' <=> (b < screen_y \/ b = screen_y)
         /\ b = screen_y => ~ OffScreen
  <1>1. screen_y \in Int /\ start_y \in Int /\ y \in Nat
    BY Placed DEF DrawTyped
  <1>2. fb' = fb /\ fb.height \in Nat
    BY Screen1 DEF DrawTyped, fb
  <1>3. screen_y' = screen_y + 1
    BY <1>1, <1>2 DEF screen_y, start_y
  <1> QED BY <1>1, <1>2, <1>3 DEF OffScreen

-----------------------------------------------------------------------------
(* One step of the drawing call.                                           *)

LEMMA SafeInit == DrawInit => ScreenInv
  <1> SUFFICES ASSUME DrawInit PROVE ScreenInv
    OBVIOUS
  <1>1. size.w \in Nat /\ size.h \in Nat
    BY DrawAssumption DEF DrawInit, Size
  <1>2. DrawTyped
    <2>1. NoFrame \subseteq -1..(size.w * size.h - 1)
      BY <1>1 DEF NoFrame
    <2>2. framebuffers # <<>> => vram \in [Cells -> {Clear, Black, White, Leftover}]
      BY DEF DrawInit
    <2>3. /\ frame = NoFrame /\ shown = NoFrame /\ y \in 0..size.h
          /\ framebuffers \in Framebuffers /\ size \in Sizes /\ backbuffer = NULL
          /\ call = "player" /\ stray = FALSE
      BY <1>1 DEF DrawInit
    <2> QED BY <2>1, <2>2, <2>3 DEF DrawTyped
  <1>3. DrawSafe
    BY <1>2 DEF DrawInit, DrawSafe, Reached
  <1>4. DrawnSoFar
    BY DEF DrawInit, DrawnSoFar, PixelDrawn
  <1> QED BY <1>3, <1>4 DEF ScreenInv

\* A pixel written is one of the three colours.
LEMMA Coloured == \A k : Colour(k) \in {Black, White}
  BY DEF Colour

\* The types, and what is written outside of the buffers.
LEMMA SafeStep ==
  ASSUME DrawSafe, (\E f \in Frame : draw_frame(f)) \/ InCall \/ Fault
  PROVE  DrawSafe'
  <1>1. /\ framebuffers' = framebuffers /\ size' = size
        /\ fb' = fb /\ Cells' = Cells /\ start_y' = start_y
        /\ RowsAbove' = RowsAbove /\ (Overhangs' <=> Overhangs)
    BY DEF draw_frame, InCall, MakeBackbuffer, PaintRow, PaintedAll, CopyRow, CopiedAll,
           Fault, drawing, fb, Cells, start_y, Start, AsInt, RowsAbove, Overhangs, Overhang
  <1>2. DrawTyped /\ size \in Sizes /\ size.w \in Nat /\ size.h \in Nat /\ y \in 0..size.h
    BY DrawAssumption DEF DrawSafe, DrawTyped, Size
  <1>3. \A b : Touches(b) => (stray' = (stray \/ ~ RowCells(b) \subseteq Cells))
    BY DEF Touches
  <1>4. framebuffers # <<>> =>
          /\ stray => Overhangs
          /\ Overhangs /\ Reached => stray
    BY DEF DrawSafe
  <1>5. CASE \E f \in Frame : draw_frame(f)
    <2>1. PICK f \in Frame : draw_frame(f)
      BY <1>5
    <2>2. f \subseteq -1..(size.w * size.h - 1) /\ -1 \notin f
      BY <1>2 DEF Frame
    <2>3. framebuffers # <<>> => call' \in {"clear", "paint"} /\ stray' = stray
      BY <2>1 DEF draw_frame
    <2> QED BY <1>1, <1>2, <1>4, <2>1, <2>2, <2>3 DEF draw_frame, DrawSafe, DrawTyped, Reached
  <1>6. CASE MakeBackbuffer
    <2>1. framebuffers # <<>> /\ call' \in {"paint", "fault"}
      BY <1>6 DEF MakeBackbuffer, DrawSafe
    <2> QED BY <1>1, <1>2, <1>4, <1>6, <2>1
            DEF MakeBackbuffer, Cleared, DrawSafe, DrawTyped, Reached
  <1>7. CASE PaintRow
    <2>1. framebuffers # <<>> /\ y + 1 \in 0..size.h
      BY <1>2, <1>7 DEF PaintRow, DrawSafe, MoreRows
    <2>2. backbuffer' \in [Cells -> {Clear, Black, White}]
      BY <1>7, Coloured DEF PaintRow, DrawSafe
    <2>3. stray' \in BOOLEAN /\ (stray' => Overhangs)
      <3>1. bytes_per_row * ByteBits \in 0..size.w
        BY <1>2, <2>1, Placed DEF DrawTyped
      <3> QED BY <1>2, <1>3, <1>4, <1>7, <2>1, <3>1, RowInside DEF PaintRow, DrawTyped
    <2>4. call' = "paint"
      BY <1>7 DEF PaintRow
    <2> QED BY <1>1, <1>2, <1>7, <2>1, <2>2, <2>3, <2>4
            DEF PaintRow, DrawSafe, DrawTyped, Reached
  <1>8. CASE CopyRow
    <2>1. framebuffers # <<>> /\ y + 1 \in 0..size.h /\ y' = y + 1 /\ MoreRows
      BY <1>2, <1>8 DEF CopyRow, DrawSafe, MoreRows
    <2>2. vram' \in [Cells -> {Clear, Black, White, Leftover}]
      BY <1>2, <1>8, <2>1 DEF CopyRow, DrawSafe, DrawTyped
    <2>3. stray' \in BOOLEAN /\ (stray' => Overhangs)
      <3>1. size.w \in 0..size.w
        BY <1>2
      <3> QED BY <1>2, <1>3, <1>4, <1>8, <2>1, <3>1, RowInside DEF CopyRow, DrawTyped
    <2>4. ASSUME Overhangs, screen_y' > RowsAbove
          PROVE  stray'
      <3>1. /\ screen_y \in Int /\ RowsAbove \in Nat /\ start_y \in Int
            /\ fb.height \in Nat /\ RowsAbove < fb.height /\ y \in Nat
        BY <1>2, <2>1, <2>4, Placed, Overhanging, Screen1 DEF DrawTyped, Overhangs
      <3>2. screen_y' = screen_y + 1
        BY <1>1, <2>1, <3>1 DEF screen_y
      <3>3. CASE screen_y > RowsAbove
        <4>1. stray
          BY <1>4, <1>8, <2>1, <2>4, <3>3 DEF CopyRow, Reached
        <4> QED BY <4>1, <1>3, <1>8 DEF CopyRow
      <3>4. CASE screen_y = RowsAbove
        <4>1. ~ OffScreen
          BY <3>1, <3>4 DEF OffScreen
        <4>2. ~ RowCells(size.w) \subseteq Cells
          BY <1>2, <2>1, <2>4, <3>4, RowOutside
        <4> QED BY <4>1, <4>2, <1>3, <1>8 DEF CopyRow
      <3> QED BY <3>1, <3>2, <3>3, <3>4, <2>4
    <2>5. call' = "copy"
      BY <1>8 DEF CopyRow
    <2> QED BY <1>1, <1>2, <1>8, <2>1, <2>2, <2>3, <2>4, <2>5
            DEF CopyRow, DrawSafe, DrawTyped, Reached
  <1>9. CASE PaintedAll
    <2>1. framebuffers # <<>> /\ y' = 0 /\ call' = "copy" /\ stray' = stray
      BY <1>9 DEF PaintedAll, DrawSafe
    <2>2. ~ (screen_y' > RowsAbove)
      <3>1. start_y <= RowsAbove /\ start_y \in Int /\ RowsAbove \in Nat
        BY <1>2, <2>1, Placed, Overhanging DEF DrawTyped
      <3> QED BY <1>1, <2>1, <3>1 DEF screen_y
    <2> QED BY <1>1, <1>2, <1>4, <1>9, <2>1, <2>2 DEF PaintedAll, DrawSafe, DrawTyped, Reached
  <1>10. CASE CopiedAll
    <2>1. framebuffers # <<>> /\ call = "copy" /\ stray' = stray /\ y = size.h
      BY <1>2, <1>10 DEF CopiedAll, DrawSafe, MoreRows
    <2>2. Overhangs => screen_y > RowsAbove
      <3>1. ASSUME Overhangs
            PROVE  RowsAbove < start_y + size.h /\ start_y \in Int /\ RowsAbove \in Nat
        BY <1>2, <2>1, <3>1, Placed, Overhanging DEF DrawTyped, Overhangs
      <3> QED BY <1>2, <2>1, <3>1 DEF screen_y
    <2> QED BY <1>1, <1>2, <1>4, <1>10, <2>1, <2>2 DEF CopiedAll, DrawSafe, DrawTyped, Reached
  <1>11. CASE Fault
    <2>1. stray' = stray /\ call' = "fault"
      BY <1>11 DEF Fault, drawing
    <2> QED BY <1>1, <1>2, <1>4, <1>11, <2>1 DEF Fault, drawing, DrawSafe, DrawTyped, Reached
  <1> QED BY <1>5, <1>6, <1>7, <1>8, <1>9, <1>10, <1>11 DEF InCall

\* A buffer with a cell is not the null pointer.
LEMMA NotNull ==
  ASSUME NEW f, NEW c \in DOMAIN f
  PROVE  f # NULL
  BY DEF NULL

\* A step in which no row is drawn.
LEMMA PixelsKept ==
  ASSUME ScreenInv, DrawSafe', UNCHANGED <<framebuffers, size>>,
         Fits, size.w % ByteBits = 0,
         NEW a \in 0..(fb.width - 1), NEW b \in 0..(fb.height - 1),
         \/ \E f \in Frame : draw_frame(f)
         \/ MakeBackbuffer \/ PaintedAll \/ CopiedAll \/ Fault
  PROVE  PixelDrawn(a, b)'
  <1> DEFINE c == b * fb.pitch + a
  <1>1. /\ framebuffers' = framebuffers /\ size' = size /\ fb' = fb /\ Cells' = Cells
        /\ start_y' = start_y /\ start_x' = start_x /\ Start(1, 1)' = Start(1, 1)
    BY DEF fb, Cells, start_x, start_y, Start, AsInt
  <1>2. PixelDrawn(a, b) /\ DrawTyped /\ DrawSafe /\ framebuffers # <<>>
    BY DEF ScreenInv, DrawSafe, DrawnSoFar, Fits
  <1>3. c \in Cells
    BY <1>2, CellOf DEF DrawTyped
  <1>4. \A g : Pixel(g, a, b)' = Pixel(g', a, b)
    BY <1>1 DEF Pixel
  <1>5. /\ screen_y \in Int /\ start_y \in Int /\ size.h \in Nat /\ y \in 0..size.h
        /\ screen_y = start_y + y /\ screen_y' = start_y + y'
    BY <1>1, <1>2, Placed DEF DrawTyped, screen_y
  <1>6. CASE \E f \in Frame : draw_frame(f)
    <2>1. /\ call = "player" /\ shown' = frame /\ backbuffer' = backbuffer /\ vram' = vram
          /\ y' = 0 /\ call' = IF backbuffer = NULL THEN "clear" ELSE "paint"
      BY <1>2, <1>6 DEF draw_frame
    <2>2. b < start_y => Pixel(frame, a, b) = Clear /\ Pixel(frame', a, b) = Clear
      BY <1>2, Around
    <2> QED BY <1>1, <1>2, <1>4, <1>5, <2>1, <2>2 DEF PixelDrawn, RowPainted, RowCopied
  <1>7. CASE MakeBackbuffer
    <2>1. call = "clear" /\ y = 0 /\ y' = y /\ frame' = frame /\ shown' = shown
      BY <1>2, <1>7 DEF MakeBackbuffer, DrawSafe
    <2>2. backbuffer = NULL /\ shown = NoFrame
      BY <1>2, <2>1 DEF PixelDrawn
    <2>3. CASE call' = "fault"
      <3>1. backbuffer' = NULL
        BY <1>7, <2>2, <2>3 DEF MakeBackbuffer
      <3> QED BY <2>3, <3>1 DEF PixelDrawn, NULL
    <2>4. CASE call' # "fault"
      <3>1. /\ call' = "paint" /\ backbuffer' = [e \in Cells |-> Clear]
            /\ vram' = [e \in Cells |-> Clear]
        BY <1>7, <2>4 DEF MakeBackbuffer, Cleared
      <3>2. backbuffer' # NULL /\ backbuffer'[c] = Clear /\ vram'[c] = Clear
        BY <1>3, <3>1, NotNull
      <3>3. Pixel(shown, a, b) = Clear
        BY <2>2 DEF Pixel
      <3>4. b < start_y => Pixel(frame, a, b) = Clear
        BY <1>2, Around
      <3> QED BY <1>1, <1>4, <1>5, <2>1, <3>1, <3>2, <3>3, <3>4
              DEF PixelDrawn, RowPainted, RowCopied, NULL
    <2> QED BY <2>3, <2>4
  <1>8. CASE PaintedAll
    <2>1. /\ call = "paint" /\ call' = "copy" /\ y >= size.h /\ y' = 0
          /\ frame' = frame /\ shown' = shown /\ backbuffer' = backbuffer /\ vram' = vram
      BY <1>5, <1>8 DEF PaintedAll, MoreRows
    <2>2. b < start_y \/ b >= start_y + size.h =>
            Pixel(frame, a, b) = Clear /\ Pixel(shown, a, b) = Clear
      BY <1>2, Around
    <2> QED BY <1>1, <1>2, <1>4, <1>5, <2>1, <2>2 DEF PixelDrawn, RowPainted, RowCopied, NULL
  <1>9. CASE CopiedAll
    <2>1. /\ call = "copy" /\ call' = "player" /\ y >= size.h
          /\ frame' = frame /\ shown' = shown /\ backbuffer' = backbuffer /\ vram' = vram
      BY <1>5, <1>9 DEF CopiedAll, MoreRows
    <2>2. b >= start_y + size.h => Pixel(frame, a, b) = Clear /\ Pixel(shown, a, b) = Clear
      BY <1>2, Around
    <2> QED BY <1>1, <1>2, <1>4, <1>5, <2>1, <2>2 DEF PixelDrawn, RowPainted, RowCopied, NULL
  <1>10. CASE Fault
    <2>1. UNCHANGED <<call, y, frame, shown, backbuffer, vram>>
      BY <1>10 DEF Fault, drawing
    <2> QED BY <1>1, <1>2, <1>4, <1>5, <2>1 DEF PixelDrawn, RowPainted, RowCopied, NULL
  <1> QED BY <1>6, <1>7, <1>8, <1>9, <1>10

\* A row of the back buffer is painted: its pixels are those of this frame, and
\* no other row is touched.
LEMMA PixelsPainted ==
  ASSUME ScreenInv, PaintRow, Fits, size.w % ByteBits = 0,
         NEW a \in 0..(fb.width - 1), NEW b \in 0..(fb.height - 1)
  PROVE  PixelDrawn(a, b)'
  <1> DEFINE c == b * fb.pitch + a
  <1>1. /\ framebuffers' = framebuffers /\ size' = size /\ fb' = fb /\ Cells' = Cells
        /\ start_y' = start_y /\ start_x' = start_x
        /\ call = "paint" /\ call' = "paint" /\ MoreRows /\ y' = y + 1
        /\ frame' = frame /\ shown' = shown /\ vram' = vram
    BY DEF PaintRow, fb, Cells, start_x, start_y, Start, AsInt
  <1>2. PixelDrawn(a, b) /\ DrawTyped /\ DrawSafe /\ framebuffers # <<>>
    BY DEF ScreenInv, DrawSafe, DrawnSoFar, Fits
  <1>3. c \in Cells
    BY <1>2, CellOf DEF DrawTyped
  <1>4. \A g : Pixel(g, a, b)' = Pixel(g', a, b)
    BY <1>1 DEF Pixel
  <1>5. /\ backbuffer # NULL
        /\ backbuffer[c] = Pixel(IF b < screen_y THEN frame ELSE shown, a, b)
        /\ vram[c] = Pixel(shown, a, b)
    BY <1>1, <1>2 DEF PixelDrawn, RowPainted, RowCopied
  <1>6. /\ b < screen_y' <=> (b < screen_y \/ b = screen_y)
        /\ b = screen_y => ~ OffScreen /\ ~ b < screen_y
    BY <1>1, <1>2, RowReached
  <1>7. bytes_per_row * ByteBits = size.w
    BY <1>2, Placed DEF DrawTyped
  <1>8. frame # NoFrame
    BY <1>1, <1>2 DEF DrawSafe, NoFrame
  <1>9. /\ backbuffer' # NULL
        /\ backbuffer'[c] = Pixel(IF b < screen_y' THEN frame ELSE shown, a, b)
    <2>1. CASE OffScreen
      BY <1>5, <1>6, <2>1 DEF PaintRow
    <2>2. CASE ~ OffScreen
      <3>1. backbuffer' = [e \in Cells |-> IF e \in RowCells(size.w)
                             THEN Colour(e - RowStart) ELSE backbuffer[e]]
        BY <1>7, <2>2 DEF PaintRow
      <3>2. backbuffer' # NULL
        BY <1>3, <3>1, NotNull
      <3>3. CASE c \in RowCells(size.w)
        <4>1. backbuffer'[c] = Colour(c - RowStart)
          BY <1>3, <3>1, <3>3
        <4>2. /\ b = screen_y
              /\ Pixel(frame, a, b) = IF y * size.w + (c - RowStart) \in frame
                                        THEN White ELSE Black
          BY <1>1, <1>2, <1>8, <2>2, <3>3, RowShown
        <4>3. y * bytes_per_row * ByteBits = y * size.w
          <5>1. /\ y \in Int /\ bytes_per_row \in Int /\ ByteBits \in Int
                /\ y * (bytes_per_row * ByteBits) = y * size.w
            BY <1>2, <1>7, DrawAssumption DEF DrawTyped, bytes_per_row, Size
          <5> QED BY <5>1
        <4> QED BY <1>6, <3>2, <4>1, <4>2, <4>3 DEF Colour
      <3>4. CASE c \notin RowCells(size.w)
        <4>1. backbuffer'[c] = backbuffer[c]
          BY <1>3, <3>1, <3>4
        <4>2. b = screen_y => \A g : Pixel(g, a, b) = Clear
          BY <1>1, <1>2, <1>8, <2>2, <3>4, RowShown
        <4>3. b = screen_y => Pixel(frame, a, b) = Clear /\ Pixel(shown, a, b) = Clear
          BY <4>2
        <4> QED BY <1>5, <1>6, <3>2, <4>1, <4>3
      <3> QED BY <3>3, <3>4
    <2> QED BY <2>1, <2>2
  <1> QED BY <1>1, <1>4, <1>5, <1>9 DEF PixelDrawn, RowPainted, RowCopied, NULL

\* A row is copied to the screen: it shows what the back buffer holds, this
\* frame, and no other row is touched.
LEMMA PixelsCopied ==
  ASSUME ScreenInv, CopyRow, Fits, size.w % ByteBits = 0,
         NEW a \in 0..(fb.width - 1), NEW b \in 0..(fb.height - 1)
  PROVE  PixelDrawn(a, b)'
  <1> DEFINE c == b * fb.pitch + a
  <1>1. /\ framebuffers' = framebuffers /\ size' = size /\ fb' = fb /\ Cells' = Cells
        /\ start_y' = start_y /\ start_x' = start_x
        /\ call = "copy" /\ call' = "copy" /\ MoreRows /\ y' = y + 1
        /\ frame' = frame /\ shown' = shown /\ backbuffer' = backbuffer
    BY DEF CopyRow, fb, Cells, start_x, start_y, Start, AsInt
  <1>2. PixelDrawn(a, b) /\ DrawTyped /\ DrawSafe /\ framebuffers # <<>>
    BY DEF ScreenInv, DrawSafe, DrawnSoFar, Fits
  <1>3. c \in Cells
    BY <1>2, CellOf DEF DrawTyped
  <1>4. \A g : Pixel(g, a, b)' = Pixel(g', a, b)
    BY <1>1 DEF Pixel
  <1>5. /\ backbuffer # NULL
        /\ backbuffer[c] = Pixel(frame, a, b)
        /\ vram[c] = Pixel(IF b < screen_y THEN frame ELSE shown, a, b)
    BY <1>1, <1>2 DEF PixelDrawn, RowPainted, RowCopied
  <1>6. /\ b < screen_y' <=> (b < screen_y \/ b = screen_y)
        /\ b = screen_y => ~ OffScreen /\ ~ b < screen_y
    BY <1>1, <1>2, RowReached
  <1>7. frame # NoFrame
    BY <1>1, <1>2 DEF DrawSafe, NoFrame
  <1>8. vram'[c] = Pixel(IF b < screen_y' THEN frame ELSE shown, a, b)
    <2>1. CASE OffScreen
      BY <1>5, <1>6, <2>1 DEF CopyRow
    <2>2. CASE ~ OffScreen
      <3>1. vram'[c] = IF c \in RowCells(size.w) THEN backbuffer[c] ELSE vram[c]
        BY <1>3, <2>2 DEF CopyRow
      <3>2. c \in RowCells(size.w) => b = screen_y
        BY <1>1, <1>2, <1>7, <2>2, RowShown
      <3>3. c \notin RowCells(size.w) /\ b = screen_y =>
              Pixel(frame, a, b) = Clear /\ Pixel(shown, a, b) = Clear
        BY <1>1, <1>2, <1>7, <2>2, RowShown
      <3>4. CASE b = screen_y
        <4>1. b < screen_y' /\ ~ b < screen_y
          BY <1>6, <3>4
        <4> QED BY <1>5, <3>1, <3>3, <3>4, <4>1
      <3>5. CASE b # screen_y
        <4>1. c \notin RowCells(size.w) /\ (b < screen_y' <=> b < screen_y)
          BY <1>6, <3>2, <3>5
        <4> QED BY <1>5, <3>1, <4>1
      <3> QED BY <3>4, <3>5
    <2> QED BY <2>1, <2>2
  <1> QED BY <1>1, <1>4, <1>5, <1>8 DEF PixelDrawn, RowPainted, RowCopied, NULL

LEMMA ScreenStep ==
  ASSUME ScreenInv, (\E f \in Frame : draw_frame(f)) \/ InCall \/ Fault
  PROVE  ScreenInv'
  <1>1. DrawSafe'
    BY SafeStep DEF ScreenInv
  <1>2. /\ UNCHANGED <<framebuffers, size>> /\ fb' = fb /\ (Fits' <=> Fits)
    BY DEF draw_frame, InCall, MakeBackbuffer, PaintRow, PaintedAll, CopyRow,
           CopiedAll, Fault, drawing, fb, Fits
  <1>3. ASSUME Fits, size.w % ByteBits = 0,
               NEW a \in 0..(fb.width - 1), NEW b \in 0..(fb.height - 1)
        PROVE  PixelDrawn(a, b)'
    BY <1>1, <1>2, <1>3, PixelsKept, PixelsPainted, PixelsCopied DEF InCall
  <1>4. DrawnSoFar'
    BY <1>2, <1>3 DEF DrawnSoFar
  <1> QED BY <1>1, <1>4 DEF ScreenInv

\* While the player is busy with itself nothing of the screen changes.
LEMMA Untouched == ScreenInv /\ UNCHANGED drawing => ScreenInv'
  <1> SUFFICES ASSUME ScreenInv, UNCHANGED drawing PROVE ScreenInv'
    OBVIOUS
  <1>1. /\ UNCHANGED <<framebuffers, size, frame, shown, call, y, backbuffer, vram, stray>>
        /\ fb' = fb /\ Cells' = Cells /\ (Fits' <=> Fits)
    BY DEF drawing, fb, Cells, Fits
  <1>2. DrawSafe'
    <2>1. /\ RowsAbove' = RowsAbove /\ (Overhangs' <=> Overhangs)
          /\ screen_y' = screen_y /\ NULL' = NULL
      BY <1>1 DEF RowsAbove, Overhangs, Overhang, screen_y, start_y, Start, AsInt, NULL
    <2> QED BY <1>1, <2>1 DEF ScreenInv, DrawSafe, DrawTyped, Reached
  <1>3. \A a, b : PixelDrawn(a, b)' <=> PixelDrawn(a, b)
    BY <1>1 DEF PixelDrawn, RowPainted, RowCopied, screen_y, start_y, Start, AsInt, Pixel, NULL
  <1> QED BY <1>1, <1>2, <1>3 DEF ScreenInv, DrawnSoFar

\* What the decoder hands over is a frame of the size of the video.
LEMMA PackedFrame == size \in Sizes => Packed \in Frame
  BY VideoAssumption DEF Packed, Frame

THEOREM Drawn == VideoSpec => []ScreenInv
  <1>1. VideoInit => ScreenInv
    BY SafeInit DEF VideoInit
  <1>2. ScreenInv /\ [VideoNext]_all => ScreenInv'
    <2> SUFFICES ASSUME ScreenInv, [VideoNext]_all PROVE ScreenInv'
      OBVIOUS
    <2>1. CASE UNCHANGED drawing
      BY <2>1, Untouched
    <2>2. CASE CallDraw
      BY <2>2, ScreenStep, PackedFrame DEF CallDraw, ScreenInv, DrawSafe, DrawTyped
    <2>3. CASE Kernel
      BY <2>3, ScreenStep DEF Kernel
    <2> QED BY <2>1, <2>2, <2>3 DEF VideoNext, Prepare, Proceed, all
  <1> QED BY <1>1, <1>2, PTL DEF VideoSpec

\* Pixels are written outside of the buffers exactly when the video hangs over the
\* screen by more columns than the rows above it have pixels.
THEOREM DrawsInside == VideoSpec => []InsideBuffers
  <1>1. ScreenInv => InsideBuffers
    BY DEF ScreenInv, DrawSafe, InsideBuffers, Reached
  <1> QED BY <1>1, Drawn, PTL

\* The screen shows every video that is no wider than it and whose rows are whole
\* bytes: the rows done the frame of the source, the others the frame before it.
THEOREM ShowsVideo == VideoSpec => []VideoShown
  <1>1. ScreenInv => FrameShown
    <2> SUFFICES ASSUME ScreenInv, size.w % ByteBits = 0, framebuffers # <<>>,
                        backbuffer # NULL, size.w <= fb.width,
                        NEW b \in 0..(fb.height - 1), NEW a \in 0..(fb.width - 1)
                 PROVE  vram[b * fb.pitch + a] = Pixel(IF RowCopied(b) THEN frame ELSE shown, a, b)
      BY DEF FrameShown, ShowsFrame, RowCopied
    <2> QED BY DEF ScreenInv, DrawnSoFar, Fits, PixelDrawn
  <1> QED BY <1>1, HandedInOrder, Drawn, PTL DEF VideoShown
=============================================================================

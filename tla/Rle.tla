-------------------------------- MODULE Rle --------------------------------
(***************************************************************************)
(* The video format: Converter.process of misc/index.js writes the frames  *)
(* as one run-length encoded stream, and _start of userland/init/init.c    *)
(* decodes that stream frame by frame while it plays.  Runs cross frame    *)
(* boundaries, so the decoder carries the rest of a run from one frame to  *)
(* the next.                                                               *)
(*                                                                         *)
(* A pixel is its isBright bit.  Pixels are numbered through the whole     *)
(* video: pixel i of frame f is f * pixels_per_frame + i.  The encoder     *)
(* takes one step per pixel, the decoder one per turn of its inner loop.   *)
(***************************************************************************)
EXTENDS Naturals, Sequences

CONSTANTS
  Frames,     \* frames.length, total_frames
  Pixels,     \* width * height, pixels_per_frame
  MaxRun      \* 127, the largest run seven bits hold

ASSUME RleAssumption ==
  /\ Frames \in Nat \ {0}
  /\ Pixels \in Nat \ {0}
  /\ MaxRun \in Nat \ {0}

Total == Frames * Pixels
Base(f) == f * Pixels

VARIABLES
  video,          \* the pixels the converter was given
  pc,             \* "encode", "decode", "draw"
  i,              \* encoder: pixels looked at
  currentColor, runLength,
  rle,            \* the bytes after the header
  start,          \* history: start[k] is the pixel byte k begins at
  current_frame,  \* decoder
  rle_ptr,        \* bytes consumed
  current_color, current_run,
  pixels_drawn,
  frame_buffer    \* one bit per pixel of a frame

encoder == <<i, currentColor, runLength, rle, start>>
decoder == <<current_frame, rle_ptr, current_color, current_run,
             pixels_drawn, frame_buffer>>
vars == <<video, pc, encoder, decoder>>

-----------------------------------------------------------------------------
\* A byte of the stream: the colour in the top bit, the run below it.
Byte(color, run) == color * (MaxRun + 1) + run
ColorOf(b) == b \div (MaxRun + 1)
RunOf(b) == b % (MaxRun + 1)

\* Mutated ExtendsRun: the length of a run is not bounded.
ExtendsLong(p) == currentColor = p
ExtendsRun(p) == currentColor = p /\ runLength < MaxRun

Emit ==
  /\ rle' = Append(rle, Byte(currentColor, runLength))
  /\ start' = Append(start, i - runLength)

Blank == [p \in 0..(Pixels - 1) |-> 0]

Init ==
  /\ video \in [0..(Total - 1) -> {0, 1}]
  /\ pc = "encode"
  /\ i = 0
  /\ currentColor = 2         \* -1 in the source: no pixel seen yet
  /\ runLength = 0
  /\ rle = <<>>
  /\ start = <<>>
  /\ current_frame = 0
  /\ rle_ptr = 0
  /\ current_color = 0
  /\ current_run = 0
  /\ pixels_drawn = 0
  /\ frame_buffer = Blank

EncodePixel ==
  LET isBright == video[i] IN
  /\ pc = "encode"
  /\ i < Total
  /\ i' = i + 1
  /\ \/ /\ currentColor = 2
        /\ runLength' = 1
        /\ currentColor' = isBright
        /\ UNCHANGED <<rle, start>>
     \/ /\ currentColor # 2
        /\ ExtendsRun(isBright)
        /\ runLength' = runLength + 1
        /\ UNCHANGED <<currentColor, rle, start>>
     \/ /\ currentColor # 2
        /\ ~ ExtendsRun(isBright)
        /\ Emit
        /\ runLength' = 1
        /\ currentColor' = isBright
  /\ UNCHANGED <<video, pc, decoder>>

\* Mutated FinishEncoding: the run still open is not written.
FinishWithoutFlush ==
  /\ pc = "encode"
  /\ i = Total
  /\ pc' = "decode"
  /\ UNCHANGED <<video, encoder, decoder>>
FinishEncoding ==
  /\ pc = "encode"
  /\ i = Total
  /\ IF runLength > 0 THEN Emit ELSE UNCHANGED <<rle, start>>
  /\ pc' = "decode"
  /\ UNCHANGED <<video, i, currentColor, runLength, decoder>>

-----------------------------------------------------------------------------
\* The run in hand and the number of bytes consumed once the next byte has
\* been fetched, if one was due.
FetchDue == current_run = 0
Color == IF FetchDue THEN ColorOf(rle[rle_ptr + 1]) ELSE current_color
Run == IF FetchDue THEN RunOf(rle[rle_ptr + 1]) ELSE current_run
ToDraw == IF pixels_drawn + Run > Pixels THEN Pixels - pixels_drawn ELSE Run

RunLeft == Run - ToDraw

Painted(n) ==
  [p \in 0..(Pixels - 1) |->
     IF Color = 1 /\ pixels_drawn <= p /\ p < pixels_drawn + n
       THEN 1 ELSE frame_buffer[p]]

DecodeRun ==
  /\ pc = "decode"
  /\ pixels_drawn < Pixels
  /\ rle_ptr' = IF FetchDue THEN rle_ptr + 1 ELSE rle_ptr
  /\ current_color' = Color
  /\ current_run' = RunLeft
  /\ pixels_drawn' = pixels_drawn + ToDraw
  /\ frame_buffer' = Painted(ToDraw)
  /\ UNCHANGED <<video, pc, encoder, current_frame>>

\* The frame is complete: draw_frame reads frame_buffer.
DrawFrame ==
  /\ pc = "decode"
  /\ pixels_drawn = Pixels
  /\ pc' = "draw"
  /\ UNCHANGED <<video, encoder, decoder>>

\* Mutated NextFrame: the buffer is not cleared before the next frame.
NextFrameDirty ==
  /\ pc = "draw"
  /\ current_frame + 1 < Frames
  /\ current_frame' = current_frame + 1
  /\ pixels_drawn' = 0
  /\ pc' = "decode"
  /\ UNCHANGED <<video, encoder, rle_ptr, current_color, current_run,
                 frame_buffer>>
NextFrame ==
  /\ pc = "draw"
  /\ current_frame + 1 < Frames
  /\ current_frame' = current_frame + 1
  /\ pixels_drawn' = 0
  /\ frame_buffer' = Blank
  /\ pc' = "decode"
  /\ UNCHANGED <<video, encoder, rle_ptr, current_color, current_run>>

\* The last frame has been drawn: while (1) starts the video again.
Restart ==
  /\ pc = "draw"
  /\ current_frame + 1 = Frames
  /\ current_frame' = 0
  /\ rle_ptr' = 0
  /\ current_color' = 0
  /\ current_run' = 0
  /\ pixels_drawn' = 0
  /\ frame_buffer' = Blank
  /\ pc' = "decode"
  /\ UNCHANGED <<video, encoder>>

Next ==
  \/ EncodePixel
  \/ FinishEncoding
  \/ DecodeRun
  \/ DrawFrame
  \/ NextFrame
  \/ Restart

Spec == Init /\ [][Next]_vars

-----------------------------------------------------------------------------
TypeOK ==
  /\ video \in [0..(Total - 1) -> {0, 1}]
  /\ pc \in {"encode", "decode", "draw"}
  /\ i \in 0..Total
  /\ currentColor \in {0, 1, 2}
  /\ runLength \in 0..MaxRun
  /\ rle \in Seq(0..(2 * MaxRun + 1))
  /\ start \in Seq(0..Total)
  /\ current_frame \in 0..(Frames - 1)
  /\ rle_ptr \in 0..Len(rle)
  /\ current_color \in {0, 1}
  /\ current_run \in 0..MaxRun
  /\ pixels_drawn \in 0..Pixels
  /\ frame_buffer \in [0..(Pixels - 1) -> {0, 1}]

\* What is drawn is the frame the converter was given, for every frame and on
\* every pass over the video.
DrawnIsSource ==
  pc = "draw" =>
    \A p \in 0..(Pixels - 1) :
      frame_buffer[p] = video[Base(current_frame) + p]

\* The decoder never reads past the bytes the converter wrote: whenever the
\* loop needs a byte there is one.
NeverPastEnd ==
  pc = "decode" /\ pixels_drawn < Pixels /\ FetchDue => rle_ptr < Len(rle)

\* Every byte written is a run of at least one pixel, so the decoder's inner
\* loop always advances, and the stream fits the rleBuffer the converter
\* allocated (one byte per pixel).
RunsAdvance ==
  /\ \A k \in 1..Len(rle) : RunOf(rle[k]) > 0
  /\ Len(rle) <= Total

\* The stream is used up exactly when the last frame is complete.
ConsumedAtEnd ==
  pc = "draw" /\ current_frame + 1 = Frames =>
    rle_ptr = Len(rle) /\ current_run = 0

\* The stream fits the frames: it is never overrun, never stalls the decoder
\* and is never left over.
StreamFits == NeverPastEnd /\ RunsAdvance /\ ConsumedAtEnd
=============================================================================

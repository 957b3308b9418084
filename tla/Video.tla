------------------------------- MODULE Video --------------------------------
(***************************************************************************)
(* From the converter to the screen: the decoder of the player (Rle) hands *)
(* each frame it completes to system call 4 (Draw), in the one array       *)
(* frame_buffer, and goes on when the call returns.                        *)
(***************************************************************************)
EXTENDS Rle, Draw

CONSTANT
  Sources     \* the videos given to the converter

ASSUME VideoAssumption ==
  /\ Sources \subseteq [0..(Total - 1) -> {0, 1}]
  /\ \A s \in Sizes : s.w * s.h = Pixels

all == <<vars, drawing>>

VideoInit ==
  /\ video \in Sources
  /\ Init
  /\ DrawInit

\* What the call finds at the address it is given.
Packed == {p \in 0..(Pixels - 1) : frame_buffer[p] = 1}

\* draw_frame(frame_buffer, w, h) at the end of a frame.
CallDraw == DrawFrame /\ draw_frame(Packed)

Prepare == (EncodePixel \/ FinishEncoding \/ DecodeRun) /\ UNCHANGED drawing

\* The call has returned.
Proceed == call = "player" /\ (NextFrame \/ Restart) /\ UNCHANGED drawing

Kernel == (InCall \/ Fault) /\ UNCHANGED vars

VideoNext == Prepare \/ CallDraw \/ Proceed \/ Kernel

VideoSpec == VideoInit /\ [][VideoNext]_all

-----------------------------------------------------------------------------
\* The bright pixels of a frame of the source.
Source(f) == {p \in 0..(Pixels - 1) : video[Base(f) + p] = 1}
Before(f) == IF f = 0 THEN Frames - 1 ELSE f - 1

\* What is handed to the call is the frame of the source, after the frame
\* before it in the video, in every pass, and the player waits for the call.
Handed ==
  /\ pc = "draw" => /\ frame = Source(current_frame)
                    /\ shown \in {NoFrame, Source(Before(current_frame))}
  /\ pc # "draw" => call = "player"

\* What the screen shows is the video: while a frame is drawn the rows done
\* show this frame of the source and the others the frame before it, although
\* one buffer serves all frames and the decoder and the kernel exchange no more
\* than its address.
VideoShown == Handed /\ FrameShown

\* README.md:21 says that the frame is rendered to the framebuffer, whatever
\* the width of the video.
FrameShownAnyWidth == ShowsFrame
=============================================================================

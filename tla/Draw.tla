-------------------------------- MODULE Draw --------------------------------
(***************************************************************************)
(* System call 4 (kernel/kernel/syscall.c): a frame of one bit a pixel is  *)
(* painted into the back buffer, row by row, and then copied to the        *)
(* screen, row by row.  The player makes one call per frame, all of the    *)
(* same size, and packs the pixels of a frame without a gap between rows   *)
(* (userland/init/init.c).                                                 *)
(*                                                                         *)
(* Screen and back buffer are arrays of pixels, rows one after the other.  *)
(***************************************************************************)
EXTENDS Integers, Sequences

CONSTANTS
  Framebuffers,  \* what the bootloader may report: lists of framebuffers
  Sizes,         \* the widths and heights of a video
  ByteBits,      \* pixels in a byte, 8 in the source
  Word, IntWord, \* 2^64 and 2^32
  HeapRoom       \* the largest buffer kmalloc can grant

Geometry == [width : Nat, height : Nat, pitch : Nat]
Size == [w : Nat, h : Nat]

ASSUME DrawAssumption ==
  /\ ByteBits \in Nat \ {0} /\ HeapRoom \in Nat
  /\ Word \in Nat \ {0} /\ IntWord \in Nat \ {0} /\ Word % (2 * IntWord) = 0
  /\ Framebuffers \subseteq Seq(Geometry) /\ Sizes \subseteq Size
  /\ \A l \in Framebuffers : \A k \in 1..Len(l) :
       l[k].width <= l[k].pitch /\ 2 * l[k].width < IntWord /\ 2 * l[k].height < IntWord
  /\ \A s \in Sizes : 2 * s.w < IntWord /\ 2 * s.h < IntWord

VARIABLES
  framebuffers,
  size,        \* w and h
  frame,       \* the bright pixels of the frame drawn
  shown,       \* history: the frame drawn before
  call,        \* "player", "clear", "paint", "copy", "fault"
  y,
  backbuffer,  \* <<>> for NULL
  vram,
  stray        \* history: a pixel outside of a buffer was written

drawing == <<framebuffers, size, frame, shown, call, y, backbuffer, vram, stray>>

Clear == "clear"
Black == "black"
White == "white"
Leftover == "leftover"
NULL == <<>>
NoFrame == {-1}

fb == framebuffers[1]
Cells == 0..(fb.pitch * fb.height - 1)

DrawInit ==
  /\ framebuffers \in Framebuffers
  /\ size \in Sizes
  /\ frame = NoFrame
  /\ shown = NoFrame
  /\ call = "player"
  /\ y = 0
  /\ backbuffer = NULL
  /\ vram = IF framebuffers = <<>> THEN NULL ELSE [c \in Cells |-> Leftover]
  /\ stray = FALSE

\* A number of 64 bits, halved and stored in an int.
AsInt(n) == LET k == n % IntWord IN IF 2 * k < IntWord THEN k ELSE k - IntWord

\* (fb->width - w) / 2, where the difference is unsigned.
Start(all, part) == AsInt(((all - part) % Word) \div 2)
start_x == Start(fb.width, size.w)
start_y == Start(fb.height, size.h)
screen_y == start_y + y

bytes_per_row == size.w \div ByteBits

\* The rows above and below the screen are skipped.
\* Mutated OffScreen: one row too many is drawn.
OffScreenLate == screen_y < 0 \/ screen_y > fb.height
OffScreen == screen_y < 0 \/ screen_y >= fb.height

MoreRows == y < size.h

RowStart == screen_y * fb.pitch + start_x
RowCells(n) == RowStart..(RowStart + n - 1)
Touches(n) == stray' = (stray \/ ~ RowCells(n) \subseteq Cells)

-----------------------------------------------------------------------------
\* The player calls with its next frame.  Without a screen nothing is done.
draw_frame(f) ==
  /\ call = "player"
  /\ frame' = f
  /\ shown' = frame
  /\ y' = 0
  /\ call' = IF framebuffers = <<>> THEN "player"
             ELSE IF backbuffer = NULL THEN "clear" ELSE "paint"
  /\ UNCHANGED <<framebuffers, size, backbuffer, vram, stray>>

Cleared == [c \in Cells |-> Clear]

\* The first call makes the back buffer and clears the screen from it.  What
\* kmalloc returns is not looked at, and page 0 is not mapped.
MakeBackbuffer ==
  /\ call = "clear"
  /\ \/ /\ fb.pitch * fb.height <= HeapRoom
        /\ backbuffer' = [c \in Cells |-> Clear]
        /\ vram' = Cleared
        /\ call' = "paint"
     \/ /\ fb.pitch * fb.height > HeapRoom
        /\ call' = "fault"
        /\ UNCHANGED <<backbuffer, vram>>
  /\ UNCHANGED <<framebuffers, size, frame, shown, y, stray>>

\* The bit that ends up k pixels into the row, where the player put it.
\* Mutated Colour: the next row begins a byte too early.
ColourShort(k) == IF y * (bytes_per_row - 1) * ByteBits + k \in frame
                    THEN White ELSE Black
Colour(k) == IF y * bytes_per_row * ByteBits + k \in frame THEN White ELSE Black

PaintRow ==
  LET painted == RowCells(bytes_per_row * ByteBits) IN
  /\ call = "paint"
  /\ MoreRows
  /\ IF OffScreen
       THEN UNCHANGED <<backbuffer, stray>>
       ELSE /\ backbuffer' = [c \in Cells |-> IF c \in painted
                                THEN Colour(c - RowStart) ELSE backbuffer[c]]
            /\ Touches(bytes_per_row * ByteBits)
  /\ y' = y + 1
  /\ UNCHANGED <<framebuffers, size, frame, shown, call, vram>>

PaintedAll ==
  /\ call = "paint"
  /\ ~ MoreRows
  /\ y' = 0
  /\ call' = "copy"
  /\ UNCHANGED <<framebuffers, size, frame, shown, backbuffer, vram, stray>>

CopyRow ==
  /\ call = "copy"
  /\ MoreRows
  /\ IF OffScreen
       THEN UNCHANGED <<vram, stray>>
       ELSE /\ vram' = [c \in Cells |-> IF c \in RowCells(size.w)
                                          THEN backbuffer[c] ELSE vram[c]]
            /\ Touches(size.w)
  /\ y' = y + 1
  /\ UNCHANGED <<framebuffers, size, frame, shown, call, backbuffer>>

CopiedAll ==
  /\ call = "copy"
  /\ ~ MoreRows
  /\ call' = "player"
  /\ UNCHANGED <<framebuffers, size, frame, shown, y, backbuffer, vram, stray>>

\* The machine has stopped in the page fault handler.
Fault == call = "fault" /\ UNCHANGED drawing

InCall == MakeBackbuffer \/ PaintRow \/ PaintedAll \/ CopyRow \/ CopiedAll

-----------------------------------------------------------------------------
DrawTyped ==
  /\ framebuffers \in Framebuffers /\ size \in Sizes
  /\ frame \subseteq -1..(size.w * size.h - 1)
  /\ shown \subseteq -1..(size.w * size.h - 1)
  /\ call \in {"player", "clear", "paint", "copy", "fault"}
  /\ y \in 0..size.h
  /\ stray \in BOOLEAN
  /\ framebuffers # <<>> =>
       /\ backbuffer = NULL \/ backbuffer \in [Cells -> {Clear, Black, White}]
       /\ vram \in [Cells -> {Clear, Black, White, Leftover}]

\* The columns a wider video reaches over the left edge of the screen; over the
\* right edge it reaches as many or one less.
Overhang == (size.w - fb.width + 1) \div 2
RowsAbove == IF size.h < fb.height THEN (fb.height - size.h) \div 2 ELSE 0

\* The columns before the first row that is drawn are more than the pixels of the
\* rows above it.
Overhangs ==
  /\ size.w > fb.width /\ size.h > 0 /\ fb.height > 0
  /\ Overhang > RowsAbove * fb.pitch

\* A call writes outside of the buffers exactly when the video is wider than the
\* screen and hangs over it by more than the rows above it take up: rows are
\* clipped and columns are not.  However high, a video no wider than the screen
\* stays inside; and what the buffers hold are pixels.
InsideBuffers ==
  /\ DrawTyped
  /\ framebuffers # <<>> =>
       /\ stray => Overhangs
       /\ call = "player" /\ backbuffer # NULL /\ Overhangs => stray

\* What the pixel at column a of row b of the screen shows of a frame.
Pixel(f, a, b) ==
  LET x == a - (fb.width - size.w) \div 2
      row == b - (fb.height - size.h) \div 2
  IN  IF f = NoFrame \/ x \notin 0..(size.w - 1) \/ row \notin 0..(size.h - 1)
        THEN Clear
        ELSE IF row * size.w + x \in f THEN White ELSE Black

\* The screen shows the frame the player packed, pixel by pixel and in the
\* middle, also when the frame is the higher of the two, and nothing around
\* it; while it is redrawn the rows done show the frame and the others show
\* the one before, never a mixture within a row.
ShowsFrame ==
  framebuffers # <<>> /\ backbuffer # NULL /\ size.w <= fb.width =>
    \A b \in 0..(fb.height - 1), a \in 0..(fb.width - 1) :
      LET done == call = "player" \/ (call = "copy" /\ b < screen_y) IN
      vram[b * fb.pitch + a] = Pixel(IF done THEN frame ELSE shown, a, b)
FrameShown == size.w % ByteBits = 0 => ShowsFrame
=============================================================================

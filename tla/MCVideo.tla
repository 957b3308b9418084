------------------------------ MODULE MCVideo -------------------------------
(***************************************************************************)
(* Three frames of six pixels, every shape six pixels can have, on screens *)
(* smaller and larger than it in each direction, with and without a gap    *)
(* between rows, one too large for the heap, and no screen at all.  Bytes  *)
(* of two pixels.  The videos are those in which the colour changes at     *)
(* most twice, every single pixel and every run across the frames among    *)
(* them, and those that alternate.                                         *)
(***************************************************************************)
EXTENDS Video

Screen(w, h, p) == [width |-> w, height |-> h, pitch |-> p]
MCFramebuffers == {<<>>, <<Screen(4, 2, 5)>>, <<Screen(3, 5, 3)>>,
                   <<Screen(6, 3, 7)>>, <<Screen(5, 5, 5)>>}
MCSizes == {[w |-> 6, h |-> 1], [w |-> 3, h |-> 2], [w |-> 2, h |-> 3],
            [w |-> 1, h |-> 6]}

Span == 0..(Total - 1)
Bar(a, b, c) == [p \in Span |-> IF a <= p /\ p < b THEN c ELSE 1 - c]
MCSources ==
  {Bar(a, b, c) : a \in Span, b \in 0..Total, c \in {0, 1}}
    \cup {[p \in Span |-> (p \div n) % 2] : n \in 1..3}
=============================================================================

------------------------------ MODULE KeyQueue ------------------------------
(***************************************************************************)
(* What the keyboard promises its reader: characters come out once each    *)
(* and in the order they were typed, and when the buffer is full it is the *)
(* newest that is lost.                                                    *)
(***************************************************************************)
EXTENDS Naturals, Sequences

CONSTANTS
  Chars,
  Capacity

VARIABLES
  queue,
  taken   \* the character read last

vars == <<queue, taken>>

Push(ch) ==
  /\ Len(queue) < Capacity
  /\ queue' = Append(queue, ch)
  /\ UNCHANGED taken

Pop ==
  /\ queue # <<>>
  /\ taken' = Head(queue)
  /\ queue' = Tail(queue)

Init == queue = <<>> /\ taken \in Chars

Next == Pop \/ \E ch \in Chars : Push(ch)

Spec == Init /\ [][Next]_vars
=============================================================================

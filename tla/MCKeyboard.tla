----------------------------- MODULE MCKeyboard -----------------------------
(***************************************************************************)
(* A ring of three, so that it is full with two characters; a letter with  *)
(* its capital, the two keys that edit, and one without a character; lines *)
(* of no character, one and two; up to five key presses, so that the ring  *)
(* fills and goes round.                                                   *)
(***************************************************************************)
EXTENDS Keyboard

MCKeys == {"a", "enter", "backspace", "f1"}
MCPlain == [k \in MCKeys |-> CASE k = "f1" -> "0" [] OTHER -> k]
MCShifted == [k \in MCKeys |-> CASE k = "f1" -> "0" [] k = "a" -> "A" [] OTHER -> k]
=============================================================================

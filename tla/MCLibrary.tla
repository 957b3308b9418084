----------------------------- MODULE MCLibrary -----------------------------
(***************************************************************************)
(* printf with all formats of up to four characters over %, c, d, s, x and *)
(* a; strings that are empty or hold a %; integers of eight bits with      *)
(* zero, both ends of the range and one, two and three digits.             *)
(*                                                                         *)
(* Memories of five bytes out of 0, 1 and 200: the end of a string, and    *)
(* two bytes whose order as signed numbers is the other one.  movsq moves  *)
(* two of them.                                                            *)
(***************************************************************************)
EXTENDS Library

MCFormats == BoundedSeq({Percent, 99, 100, 115, 120, 97}, 4)
MCCharArgs == {97, 200}
MCTexts == {<<>>, <<Percent, 100>>}
MCInts == {-128, -127, -10, -1, 0, 9, 10, 16, 127}

MCMemories == [0..4 -> {0, 1, 200}]
=============================================================================

------------------------------ MODULE Library ------------------------------
(***************************************************************************)
(* The C library as a whole: once the port is set up a caller makes one    *)
(* call, of printf and its kin (Libc) or of a function on memory (Strings).*)
(***************************************************************************)
EXTENDS Libc, Strings

library == <<libc, strings>>

LibraryInit == LibcInit /\ StringsInit

PrintCall == place = "caller" /\ LibcNext /\ UNCHANGED strings
MemoryCall == stage = "idle" /\ StringsNext /\ UNCHANGED libc

LibraryNext == PrintCall \/ MemoryCall
LibrarySpec == LibraryInit /\ [][LibraryNext]_library

\* The fairness of either module.
FairLibrary ==
  /\ LibrarySpec
  /\ WF_library(place = "caller" /\ Kernel /\ UNCHANGED strings)
  /\ WF_library(Transmit /\ UNCHANGED strings)
  /\ WF_library(Loops /\ UNCHANGED libc)

-----------------------------------------------------------------------------
\* Every call of printf returns, whatever is behind the port, and every loop of
\* the functions on memory ends: each string has its 0 where the loop comes to
\* it, also while strcpy writes.
CallsReturn ==
  /\ stage = "format" ~> stage = "done"
  /\ place = "loop" ~> place = "returned"
=============================================================================

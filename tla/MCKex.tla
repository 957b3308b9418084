------------------------------- MODULE MCKex -------------------------------
(***************************************************************************)
(* Pages of three bytes, headers and commands of one; every program of one *)
(* or two segments of at most five bytes that begin at, one or two bytes   *)
(* after, or a page after the first page: aligned and not, with and        *)
(* without data, sharing a page, overlapping, and reaching into the stack; *)
(* and headers that are not loaded before and after them.                  *)
(***************************************************************************)
EXTENDS Kex

MaxSize == 5
Begins == {3, 4, 6, 8}
MCSegments == {[load |-> TRUE, vaddr |-> v, memsz |-> n, filesz |-> d] :
                 v \in Begins, n \in 0..MaxSize, d \in 0..MaxSize}
Legal == {s \in MCSegments : s.filesz <= s.memsz}
\* PT_GNU_RELRO, PT_NOTE: headers that are not loaded lie inside of others.
Other(s) == [s EXCEPT !.load = FALSE]
MCImages == {<<s>> : s \in Legal} \cup {<<s, t>> : s, t \in Legal}
              \cup {<<Other(s), s>> : s \in Legal} \cup {<<s, Other(s)>> : s \in Legal}

\* Two pages for each of two segments, and the stack.
MCFrameIds == 1..5
MCRamdisks == {"kex", "other", "missing"}
=============================================================================

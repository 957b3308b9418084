------------------------------ MODULE HeapSpec ------------------------------
(***************************************************************************)
(* What the kernel heap promises its callers, independent of how it keeps  *)
(* its books: every granted range lies in the arena and overlaps no other  *)
(* range still held.  A request may always be refused (kmalloc may return  *)
(* NULL), which here is a step that changes nothing.                       *)
(***************************************************************************)
EXTENDS Naturals

CONSTANTS
  HeapSize,   \* bytes handed to kheap_initialize
  Requests    \* the sizes callers ask for

VARIABLE
  live        \* pointer held by a caller |-> number of bytes it asked for

Apart(p, n, q, m) == p + n <= q \/ q + m <= p

Grant(p, n) ==
  /\ p \notin DOMAIN live
  /\ p + n <= HeapSize
  /\ \A q \in DOMAIN live : Apart(p, n, q, live[q])
  /\ live' = [q \in DOMAIN live \cup {p} |-> IF q = p THEN n ELSE live[q]]

Release(p) ==
  /\ p \in DOMAIN live
  /\ live' = [q \in DOMAIN live \ {p} |-> live[q]]

Init == live = [q \in {} |-> 0]

Next ==
  \/ \E p \in 0..HeapSize, n \in Requests : Grant(p, n)
  \/ \E p \in DOMAIN live : Release(p)

Spec == Init /\ [][Next]_live
=============================================================================

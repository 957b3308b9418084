----------------------------- MODULE FrameSpec -----------------------------
(***************************************************************************)
(* What the physical memory manager promises its callers: a block it       *)
(* grants is one of the allocatable ones and nobody holds it already.  A   *)
(* request may be refused, which changes nothing here.                     *)
(***************************************************************************)
EXTENDS Naturals

VARIABLES
  allocatable,  \* the blocks that may be granted, fixed once booted
  held          \* the blocks granted and not freed

vars == <<allocatable, held>>

Boot(S) ==
  /\ allocatable = {}
  /\ allocatable' = S
  /\ UNCHANGED held

Grant(b) ==
  /\ b \in allocatable \ held
  /\ held' = held \cup {b}
  /\ UNCHANGED allocatable

Release(b) ==
  /\ b \in held
  /\ held' = held \ {b}
  /\ UNCHANGED allocatable

Init == allocatable = {} /\ held = {}

Next ==
  \/ Boot(allocatable')
  \/ \E b \in allocatable : Grant(b) \/ Release(b)

Spec == Init /\ [][Next]_vars
=============================================================================

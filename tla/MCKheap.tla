------------------------------ MODULE MCKheap ------------------------------
(***************************************************************************)
(* A heap of a few header sizes: large enough for three blocks in use, for *)
(* a split that leaves a remainder with room for a header and no more, for *)
(* free neighbours that are not merged, and for refusals.                  *)
(***************************************************************************)
EXTENDS Kheap

MCRequests == {0, 1, 2, 5}
=============================================================================

------------------------------- MODULE MCPmm -------------------------------
(***************************************************************************)
(* Every memory map of one or two usable entries on a machine of at most   *)
(* MaxTop blocks that can hold its bitmap; an entry may begin at block 0,  *)
(* and the bitmap be put there or not.  With three blocks to a byte        *)
(* and two bytes to a block there are bitmaps of one and two blocks,       *)
(* partial last bytes whose blocks are all usable or not (TailUsable), and *)
(* partial last bytes that start a block of their own (TailReserved).      *)
(***************************************************************************)
EXTENDS Pmm

MaxTop == 10

MCEntries ==
  {e \in [base : 0..(MaxTop - 1), length : 1..MaxTop] :
     e.base + e.length <= MaxTop}

MCMemMaps ==
  {m \in {<<e>> : e \in MCEntries} \cup (MCEntries \X MCEntries) :
     FromBootloader(m) /\ BitmapPlaced(m)}
=============================================================================

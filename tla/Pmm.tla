-------------------------------- MODULE Pmm --------------------------------
(***************************************************************************)
(* The physical memory manager: the bitmap of kernel/kernel/pmm.c and the  *)
(* part of _start (kernel/kernel/kernel.c) that sets it up from the        *)
(* bootloader's memory map, block by block.                                *)
(*                                                                         *)
(* Addresses and sizes are in blocks of 4096 bytes: the bootloader aligns  *)
(* usable entries to them.  The bitmap is the set of bits that are set,    *)
(* and lies in the memory it describes.                                    *)
(***************************************************************************)
EXTENDS Naturals, Sequences, FiniteSets, FiniteSetsExt

CONSTANTS
  BlocksPerByte,  \* 8
  BytesPerBlock,  \* BLOCK_SIZE, 4096
  MinRegion,      \* 0x100000 in blocks: an entry the bitmap may be put in
  MemMaps         \* the usable entries of each memory map considered

Entries(m) == {m[i] : i \in 1..Len(m)}
EntryBlocks(e) == e.base..(e.base + e.length - 1)
Usable(m) == UNION {EntryBlocks(e) : e \in Entries(m)}

\* mem_size / BLOCK_SIZE: the end of the highest usable entry.
MemTop(m) == Max({0} \cup {e.base + e.length : e \in Entries(m)})

\* The base of the first usable entry that is large enough and does not begin at
\* block 0 (bitmap_phys == 0 means none was found yet); 0 if there is none.
BitmapPhys(m) ==
  LET large == {i \in 1..Len(m) : m[i].length >= MinRegion /\ m[i].base # 0}
  IN  IF large = {} THEN 0 ELSE m[Min(large)].base

Tracked(m) == 0..(MemTop(m) - 1)
WholeBytes(m) == 0..(BlocksPerByte * (MemTop(m) \div BlocksPerByte) - 1)

CeilDiv(a, b) == (a + b - 1) \div b

\* The blocks _start sets aside for the bitmap: bitmap_size rounds down to
\* bytes, pmm_deinit_region rounds up to blocks.
ReservedLen(m) == CeilDiv(MemTop(m) \div BlocksPerByte, BytesPerBlock)
Reserved(m) == BitmapPhys(m)..(BitmapPhys(m) + ReservedLen(m) - 1)

\* The blocks the bits of the tracked blocks really lie in.
Home(m) ==
  BitmapPhys(m)..
    (BitmapPhys(m)
      + CeilDiv(CeilDiv(MemTop(m), BlocksPerByte), BytesPerBlock) - 1)

\* What the bootloader guarantees of the usable entries: in ascending order,
\* apart, none empty.  The first may begin at block 0: base revision 3, which the
\* kernel asks for (kernel.c:20), does not rule that out.
FromBootloader(m) ==
  /\ \A i \in 1..Len(m) : m[i].length > 0
  /\ \A i, j \in 1..Len(m) : i < j => m[i].base + m[i].length <= m[j].base

(***************************************************************************)
(* What _start further relies on without checking it.                      *)
(*   BitmapPlaced: some entry is large enough, and the first that is holds *)
(*     the whole bitmap.                                                   *)
(*   TailUsable: memset clears whole bytes of the bitmap only, so the      *)
(*     blocks of the last, partial byte must all be usable for their bits  *)
(*     to be written before they are read.                                 *)
(*   TailReserved: the byte that bitmap_size rounds away does not start a  *)
(*     block of its own.                                                   *)
(***************************************************************************)
BitmapPlaced(m) ==
  \E i \in 1..Len(m) :
    /\ m[i].base = BitmapPhys(m)
    /\ m[i].length >= MinRegion
    /\ m[i].length >= ReservedLen(m)
TailUsable(m) == Tracked(m) \ WholeBytes(m) \subseteq Usable(m)
TailReserved(m) == Home(m) \subseteq Reserved(m)

ASSUME PmmAssumption ==
  /\ BlocksPerByte \in Nat \ {0}
  /\ BytesPerBlock \in Nat \ {0}
  /\ MinRegion \in Nat \ {0}
  /\ MemMaps \subseteq Seq([base : Nat, length : Nat])
  /\ \A m \in MemMaps : FromBootloader(m) /\ BitmapPlaced(m)

VARIABLES
  memmap,       \* the usable entries, as the bootloader reports them
  pc,           \* "start", "regions", "reserve", "ready"
  entry,        \* the entry _start is at
  max_blocks,
  used_blocks,
  bits,         \* the bits set in pmm_bitmap
  held          \* history: blocks callers hold

vars == <<memmap, pc, entry, max_blocks, used_blocks, bits, held>>

-----------------------------------------------------------------------------
Init ==
  /\ memmap \in MemMaps
  /\ pc = "start"
  /\ entry = 1
  /\ max_blocks = 0
  /\ used_blocks = 0
  /\ bits = {}
  /\ held = {}

\* The bits of the last, partial byte keep what the memory held before.
pmm_initialize(leftover) ==
  /\ pc = "start"
  /\ max_blocks' = MemTop(memmap)
  /\ used_blocks' = MemTop(memmap)
  /\ bits' = WholeBytes(memmap) \cup leftover
  /\ pc' = "regions"
  /\ UNCHANGED <<memmap, entry, held>>

\* Mutated Freed: one block too many is cleared.
FreedOneMore(e) == e.base..(e.base + e.length)
Freed(e) == EntryBlocks(e)

\* mmap_set(0) takes block 0 back, if the entry had it, without counting it.
pmm_init_region ==
  /\ pc = "regions"
  /\ entry <= Len(memmap)
  /\ bits' = (bits \ Freed(memmap[entry])) \cup {0}
  /\ used_blocks' = used_blocks - memmap[entry].length
  /\ entry' = entry + 1
  /\ UNCHANGED <<memmap, pc, max_blocks, held>>

RegionsDone ==
  /\ pc = "regions"
  /\ entry > Len(memmap)
  /\ pc' = "reserve"
  /\ UNCHANGED <<memmap, entry, max_blocks, used_blocks, bits, held>>

\* Mutated SetAside: the last, partial block of the bitmap is not counted.
SetAsideDown ==
  BitmapPhys(memmap)..
    (BitmapPhys(memmap) + (max_blocks \div BlocksPerByte) \div BytesPerBlock - 1)
SetAside == Reserved(memmap)

pmm_deinit_region ==
  /\ pc = "reserve"
  /\ bits' = bits \cup SetAside
  /\ used_blocks' = used_blocks + ReservedLen(memmap)
  /\ pc' = "ready"
  /\ UNCHANGED <<memmap, entry, max_blocks, held>>

FreeBits == 0..(max_blocks - 1) \ bits

\* The loop stops at the first bit that is clear.
pmm_alloc_block ==
  /\ pc = "ready"
  /\ \E i \in FreeBits :
       /\ 0..(i - 1) \subseteq bits
       /\ bits' = bits \cup {i}
       /\ held' = held \cup {i}
  /\ used_blocks' = used_blocks + 1
  /\ UNCHANGED <<memmap, pc, entry, max_blocks>>

\* With no bit clear the call prints a message and returns 0.
pmm_alloc_block_oom ==
  /\ pc = "ready"
  /\ FreeBits = {}
  /\ UNCHANGED vars

\* Mutated UsedAfterFree: the count is left alone.
UsedAfterFreeSame == used_blocks
UsedAfterFree == used_blocks - 1

\* A caller gives back a block it holds.
pmm_free_block(b) ==
  /\ pc = "ready"
  /\ b \in held
  /\ bits' = bits \ {b}
  /\ held' = held \ {b}
  /\ used_blocks' = UsedAfterFree
  /\ UNCHANGED <<memmap, pc, entry, max_blocks>>

Next ==
  \/ \E leftover \in SUBSET (Tracked(memmap) \ WholeBytes(memmap)) :
       pmm_initialize(leftover)
  \/ pmm_init_region
  \/ RegionsDone
  \/ pmm_deinit_region
  \/ pmm_alloc_block
  \/ pmm_alloc_block_oom
  \/ \E b \in held : pmm_free_block(b)

Spec == Init /\ [][Next]_vars

-----------------------------------------------------------------------------
\* used_blocks may pass max_blocks: on a map that is not TailUsable a block that
\* was never counted free can be granted, and is then counted a second time.
TypeOK ==
  /\ memmap \in MemMaps
  /\ pc \in {"start", "regions", "reserve", "ready"}
  /\ entry \in 1..(Len(memmap) + 1)
  /\ max_blocks \in {0, MemTop(memmap)}
  /\ used_blocks \in 0..(2 * MemTop(memmap))
  /\ bits \subseteq Tracked(memmap)
  /\ held \subseteq Tracked(memmap)

\* What may be granted: usable memory the bitmap does not occupy, without block 0.
Allocatable == Usable(memmap) \ (Reserved(memmap) \cup {0})

\* Once booted the bitmap is exact: the blocks marked used are those that are
\* not usable, those set aside for the bitmap, block 0 and those callers hold.
\* Nothing is granted twice, nothing else usable is lost, nothing unusable is
\* granted; and block 0 is not, usable or not, so that a return value of 0 means
\* out of memory.
BitmapExact ==
  pc = "ready" /\ TailUsable(memmap) =>
    /\ bits = (Tracked(memmap) \ Allocatable) \cup held
    /\ held \subseteq Allocatable

\* Block 0 when it was counted free with its entry, marked by mmap_set(0) without
\* a count, and not yet set aside for the bitmap, which does count.
Uncounted ==
  {0} \cap (Usable(memmap) \ (IF pc = "ready" THEN Reserved(memmap) ELSE {}))

\* used_blocks, kept by increments and decrements all through boot and use, is
\* the number of blocks marked used, but for block 0: when an entry begins there
\* it is one less, unless the bitmap is put there.
UsedIsCount ==
  pc \in {"reserve", "ready"} /\ TailUsable(memmap) =>
    used_blocks = Cardinality(bits \ Uncounted)

\* No caller holds a block that the bitmap itself occupies, so no caller's
\* data is ever read as bits.
BitmapKept ==
  pc = "ready" /\ TailUsable(memmap) /\ TailReserved(memmap) =>
    held \cap Home(memmap) = {}

\* Both together: what is marked is right, and the marks themselves are safe.
BitmapSound == BitmapExact /\ BitmapKept

\* The manager implements the abstract one, whose allocatable blocks are fixed
\* when boot ends, on every machine whose map is TailUsable (on the others the
\* mapping shows nothing).
Frames == INSTANCE FrameSpec WITH
  allocatable <- IF pc = "ready" /\ TailUsable(memmap) THEN Allocatable ELSE {},
  held <- IF TailUsable(memmap) THEN held ELSE {}
ImplementsFrameSpec == Frames!Spec

\* "Bitmap initialized at 0x%x, tracking %d blocks" (pmm.c:33), with
\* used_blocks = max_blocks: once pmm_initialize returns, every tracked block is
\* marked used.
TrackedInitialized ==
  pc = "regions" /\ entry = 1 => bits = 0..(max_blocks - 1)
=============================================================================

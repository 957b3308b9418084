----------------------------- MODULE PmmProofs -----------------------------
(***************************************************************************)
(* Proofs about the physical memory manager, for every byte and block size *)
(* and every set of memory maps allowed by PmmAssumption.                  *)
(***************************************************************************)
EXTENDS Pmm, FiniteSetTheorems, SequenceTheorems, TLAPS

\* The blocks of the entries before entry k.
Done(m, k) == UNION {EntryBlocks(m[i]) : i \in 1..(k - 1)}

\* A run of n blocks has n blocks.
LEMMA RunOfBlocks ==
  ASSUME NEW a \in Nat, NEW n \in Nat
  PROVE  /\ IsFiniteSet(a..(a + n - 1))
         /\ Cardinality(a..(a + n - 1)) = n
  BY FS_Interval, a \in Int, a + n - 1 \in Int

\* What is left of a finite set when a part of it is taken out.
LEMMA TakenOut ==
  ASSUME NEW S, IsFiniteSet(S), NEW R, R \subseteq S
  PROVE  /\ IsFiniteSet(S \ R)
         /\ IsFiniteSet(R)
         /\ Cardinality(S \ R) = Cardinality(S) - Cardinality(R)
         /\ Cardinality(S) \in Nat
         /\ Cardinality(R) \in Nat
         /\ Cardinality(S \ R) \in Nat
  <1>1. R \in SUBSET S
    OBVIOUS
  <1>2. S \cap R = R
    OBVIOUS
  <1>3. IsFiniteSet(R) /\ IsFiniteSet(S \ R)
    BY <1>1, FS_Subset, FS_Difference
  <1>4. Cardinality(S \ R) = Cardinality(S) - Cardinality(R)
    BY <1>2, FS_Difference
  <1> QED
    BY <1>3, <1>4, FS_CardinalityType

\* The entries of a memory map lie below MemTop, and MemTop is not 0.
LEMMA MapFacts ==
  ASSUME NEW m \in MemMaps
  PROVE  /\ MemTop(m) \in Nat \ {0}
         /\ Len(m) \in Nat \ {0}
         /\ \A i \in 1..Len(m) :
              /\ m[i].base \in Nat
              /\ m[i].length \in Nat \ {0}
              /\ m[i].base + m[i].length <= MemTop(m)
  <1>1. /\ m \in Seq([base : Nat, length : Nat])
        /\ FromBootloader(m)
        /\ BitmapPlaced(m)
    BY PmmAssumption
  <1>2. Len(m) \in Nat \ {0}
    BY <1>1 DEF BitmapPlaced
  <1>3. ASSUME NEW i \in 1..Len(m)
        PROVE  m[i].base \in Nat /\ m[i].length \in Nat \ {0}
    <2>1. m[i] \in [base : Nat, length : Nat]
      BY <1>1, ElementOfSeq
    <2>2. m[i].length > 0
      BY <1>1 DEF FromBootloader
    <2>3. m[i].base \in Nat /\ m[i].length \in Nat
      BY <2>1
    <2> QED
      BY <2>2, <2>3
  <1> DEFINE last == m[Len(m)].base + m[Len(m)].length
             S == {0} \cup {e.base + e.length : e \in Entries(m)}
  <1>4. Len(m) \in 1..Len(m)
    BY <1>2
  <1>5. last \in S /\ last \in Nat
    BY <1>3, <1>4 DEF Entries
  <1>6. ASSUME NEW i \in 1..Len(m)
        PROVE  m[i].base + m[i].length \in Nat /\ m[i].base + m[i].length <= last
    <2>1. CASE i = Len(m)
      BY <2>1, <1>3
    <2>2. CASE i # Len(m)
      <3>1. m[i].base + m[i].length <= m[Len(m)].base
        BY <2>2, <1>1, <1>2, <1>4 DEF FromBootloader
      <3>2. /\ m[i].base \in Nat /\ m[i].length \in Nat
            /\ m[Len(m)].base \in Nat /\ m[Len(m)].length \in Nat
        BY <1>3, <1>4
      <3> QED
        BY <3>1, <3>2
    <2> QED
      BY <2>1, <2>2
  <1>7. \A x \in S : x \in Nat /\ last >= x
    BY <1>5, <1>6 DEF Entries
  <1>8. \E x \in S : \A y \in S : x >= y
    BY <1>5, <1>7
  <1>9. MemTop(m) \in S /\ \A y \in S : MemTop(m) >= y
    BY <1>8 DEF MemTop, Max
  <1>10. MemTop(m) \in Nat /\ MemTop(m) >= last
    BY <1>5, <1>7, <1>9
  <1>11. last > 0
    BY <1>3, <1>4
  <1> HIDE DEF last
  <1>12. MemTop(m) \in Nat \ {0}
    BY <1>5, <1>10, <1>11
  <1>13. \A i \in 1..Len(m) : m[i].base + m[i].length <= MemTop(m)
    BY <1>5, <1>6, <1>10
  <1> QED
    BY <1>2, <1>3, <1>12, <1>13

\* The blocks set aside for the bitmap are usable ones.
LEMMA ReservedFacts ==
  ASSUME NEW m \in MemMaps
  PROVE  /\ ReservedLen(m) \in Nat
         /\ IsFiniteSet(Reserved(m))
         /\ Cardinality(Reserved(m)) = ReservedLen(m)
         /\ Reserved(m) \subseteq Usable(m)
  <1>1. PICK i \in 1..Len(m) :
          /\ m[i].base = BitmapPhys(m)
          /\ m[i].length >= ReservedLen(m)
    BY PmmAssumption DEF BitmapPlaced
  <1>2. MemTop(m) \in Nat /\ BitmapPhys(m) \in Nat /\ m[i].length \in Nat
    BY <1>1, MapFacts
  <1>3. BlocksPerByte \in Nat \ {0} /\ BytesPerBlock \in Nat \ {0}
    BY PmmAssumption
  <1>4. MemTop(m) \div BlocksPerByte \in Nat
    BY <1>2, <1>3
  <1>5. \A a \in Nat : a + BytesPerBlock - 1 \in Nat
    BY <1>3
  <1>6. ReservedLen(m) \in Nat
    BY <1>3, <1>4, <1>5 DEF ReservedLen, CeilDiv
  <1>7. IsFiniteSet(Reserved(m)) /\ Cardinality(Reserved(m)) = ReservedLen(m)
    BY <1>2, <1>6, RunOfBlocks DEF Reserved
  <1>8. Reserved(m) \subseteq EntryBlocks(m[i])
    BY <1>1, <1>2, <1>6 DEF Reserved, EntryBlocks
  <1>9. EntryBlocks(m[i]) \subseteq Usable(m)
    BY DEF Usable, Entries
  <1> QED
    BY <1>6, <1>7, <1>8, <1>9

\* The tracked blocks, those of whole bytes among them, are finitely many.
LEMMA TrackedFacts ==
  ASSUME NEW m \in MemMaps
  PROVE  /\ IsFiniteSet(Tracked(m))
         /\ Cardinality(Tracked(m)) = MemTop(m)
         /\ WholeBytes(m) \subseteq Tracked(m)
         /\ 0 \in Tracked(m)
  <1>1. MemTop(m) \in Nat \ {0} /\ BlocksPerByte \in Nat \ {0}
    BY MapFacts, PmmAssumption
  <1>2. IsFiniteSet(Tracked(m)) /\ Cardinality(Tracked(m)) = MemTop(m)
    BY <1>1, RunOfBlocks DEF Tracked
  <1> DEFINE q == MemTop(m) \div BlocksPerByte
  <1>3. q \in Nat /\ BlocksPerByte * q <= MemTop(m)
    BY <1>1
  <1>4. BlocksPerByte * q \in Nat
    BY <1>1, <1>3
  <1> HIDE DEF q
  <1>5. 0..(BlocksPerByte * q - 1) \subseteq 0..(MemTop(m) - 1)
    BY <1>1, <1>3, <1>4
  <1> QED
    BY <1>1, <1>2, <1>5 DEF Tracked, WholeBytes, q

\* The usable blocks are tracked.
LEMMA UsableFacts ==
  ASSUME NEW m \in MemMaps
  PROVE  Usable(m) \subseteq Tracked(m)
  <1>1. ASSUME NEW i \in 1..Len(m)
        PROVE  EntryBlocks(m[i]) \subseteq Tracked(m)
    BY MapFacts DEF EntryBlocks, Tracked
  <1> QED
    BY <1>1 DEF Usable, Entries

\* Entry k brings blocks that no entry before it had.
LEMMA DoneStep ==
  ASSUME NEW m \in MemMaps, NEW k \in 1..Len(m)
  PROVE  /\ Done(m, k + 1) = Done(m, k) \cup EntryBlocks(m[k])
         /\ EntryBlocks(m[k]) \subseteq Tracked(m) \ Done(m, k)
         /\ IsFiniteSet(EntryBlocks(m[k]))
         /\ Cardinality(EntryBlocks(m[k])) = m[k].length
  <1>1. Len(m) \in Nat
    BY MapFacts
  <1>2. 1..((k + 1) - 1) = 1..(k - 1) \cup {k}
    BY <1>1
  <1>3. Done(m, k + 1) = Done(m, k) \cup EntryBlocks(m[k])
    BY <1>2 DEF Done
  <1>4. EntryBlocks(m[k]) \subseteq Tracked(m)
    BY UsableFacts DEF Usable, Entries
  <1>5. ASSUME NEW i \in 1..(k - 1)
        PROVE  EntryBlocks(m[i]) \cap EntryBlocks(m[k]) = {}
    <2>1. i \in 1..Len(m) /\ i < k
      BY <1>1
    <2>2. m[i].base + m[i].length <= m[k].base
      BY <2>1, PmmAssumption DEF FromBootloader
    <2>3. /\ m[i].base \in Nat /\ m[i].length \in Nat
          /\ m[k].base \in Nat /\ m[k].length \in Nat
      BY <2>1, MapFacts
    <2>4. ASSUME NEW b \in EntryBlocks(m[i]), b \in EntryBlocks(m[k])
          PROVE  FALSE
      BY <2>2, <2>3, <2>4 DEF EntryBlocks
    <2> QED
      BY <2>4
  <1>6. EntryBlocks(m[k]) \cap Done(m, k) = {}
    BY <1>5 DEF Done
  <1>7. IsFiniteSet(EntryBlocks(m[k])) /\ Cardinality(EntryBlocks(m[k])) = m[k].length
    BY MapFacts, RunOfBlocks DEF EntryBlocks
  <1> QED
    BY <1>3, <1>4, <1>6, <1>7

\* Before the first entry nothing is done, after the last one everything is.
LEMMA DoneEnds ==
  ASSUME NEW m \in MemMaps
  PROVE  Done(m, 1) = {} /\ Done(m, Len(m) + 1) = Usable(m)
  <1>1. Len(m) \in Nat
    BY MapFacts
  <1>2. 1..(1 - 1) = {} /\ 1..((Len(m) + 1) - 1) = 1..Len(m)
    BY <1>1
  <1> QED
    BY <1>2 DEF Done, Usable, Entries

\* The entries done are usable ones.
LEMMA DoneUsable ==
  ASSUME NEW m \in MemMaps, NEW k \in 1..(Len(m) + 1)
  PROVE  Done(m, k) \subseteq Usable(m)
  <1>1. 1..(k - 1) \subseteq 1..Len(m)
    BY MapFacts
  <1> QED
    BY <1>1 DEF Done, Usable, Entries

-----------------------------------------------------------------------------
(***************************************************************************)
(* The inductive invariant.  While the entries are gone through, the bits  *)
(* of the blocks done are clear but for block 0, those of the other whole  *)
(* bytes are set, and used_blocks counts the blocks not done.  Later it    *)
(* counts the blocks that were not free once the bitmap had its place and  *)
(* those held, on any map.                                                 *)
(***************************************************************************)

\* Nothing but the memory map is fixed before the manager starts.
NotStarted ==
  pc = "start" =>
    /\ max_blocks = 0
    /\ used_blocks = 0
    /\ bits = {}
    /\ entry = 1

\* What boot has reached at the entry it is at.
Booting ==
  pc \in {"regions", "reserve"} =>
    /\ bits \cap Done(memmap, entry) \subseteq {0}
    /\ entry > 1 => 0 \in bits
    /\ WholeBytes(memmap) \ Done(memmap, entry) \subseteq bits
    /\ used_blocks = Cardinality(Tracked(memmap) \ Done(memmap, entry))

\* The usable blocks that are not set aside, block 0 included if it is usable.
Left == Usable(memmap) \ Reserved(memmap)

\* What is counted once booted.
Counting ==
  pc = "ready" =>
    used_blocks = Cardinality(Tracked(memmap) \ Left) + Cardinality(held)

BootInv ==
  /\ memmap \in MemMaps
  /\ pc \in {"start", "regions", "reserve", "ready"}
  /\ entry \in 1..(Len(memmap) + 1)
  /\ pc # "start" => max_blocks = MemTop(memmap)
  /\ pc = "reserve" => entry = Len(memmap) + 1
  /\ pc # "ready" => held = {}
  /\ bits \subseteq Tracked(memmap)
  /\ held \subseteq bits

IInv ==
  /\ BootInv
  /\ NotStarted
  /\ Booting
  /\ Counting
  /\ BitmapExact

\* The blocks that may be granted are among those left, which are tracked.
LEMMA LeftFacts ==
  ASSUME memmap \in MemMaps
  PROVE  /\ Allocatable = Left \ {0} /\ Left \subseteq Tracked(memmap)
         /\ IsFiniteSet(Tracked(memmap) \ Left)
         /\ Cardinality(Tracked(memmap) \ Left) \in Nat
  <1>1. Allocatable = Left \ {0} /\ Left \subseteq Tracked(memmap)
    BY UsableFacts DEF Allocatable, Left
  <1> QED
    BY <1>1, TrackedFacts, FS_Difference, FS_CardinalityType

\* The counts of the initial state and of the step that marks every block.
LEMMA InitInv == Init => IInv
  <1> SUFFICES ASSUME Init PROVE IInv
    OBVIOUS
  <1>1. Len(memmap) \in Nat
    BY MapFacts DEF Init
  <1> QED
    BY <1>1
    DEF Init, IInv, BootInv, NotStarted, Booting, Counting, BitmapExact

\* pmm_initialize leaves at most the bits of the last, partial byte clear.
LEMMA InitializeInv ==
  ASSUME IInv,
         NEW leftover \in SUBSET (Tracked(memmap) \ WholeBytes(memmap)),
         pmm_initialize(leftover)
  PROVE  IInv'
  <1>1. /\ memmap' = memmap /\ entry' = entry /\ held' = held
        /\ pc = "start" /\ pc' = "regions"
        /\ max_blocks' = MemTop(memmap) /\ used_blocks' = MemTop(memmap)
        /\ bits' = WholeBytes(memmap) \cup leftover
    BY DEF pmm_initialize
  <1>2. memmap \in MemMaps /\ entry = 1 /\ held = {}
    BY <1>1 DEF IInv, BootInv, NotStarted
  <1>3. Done(memmap, 1) = {}
    BY <1>2, DoneEnds
  <1>4. Tracked(memmap) \ {} = Tracked(memmap)
    OBVIOUS
  <1>5. BootInv'
    BY <1>1, <1>2, TrackedFacts DEF IInv, BootInv
  <1>6. Booting'
    BY <1>1, <1>2, <1>3, <1>4, TrackedFacts DEF Booting
  <1> QED
    BY <1>1, <1>5, <1>6 DEF IInv, NotStarted, Counting, BitmapExact

\* pmm_init_region clears the bits of its entry and counts them free, and sets the
\* bit of block 0 whether or not the entry has it.
LEMMA InitRegionInv == IInv /\ pmm_init_region => IInv'
  <1> SUFFICES ASSUME IInv, pmm_init_region PROVE IInv'
    OBVIOUS
  <1> DEFINE E == EntryBlocks(memmap[entry])
             D == Done(memmap, entry)
             U == Tracked(memmap) \ D
  <1>1. /\ memmap' = memmap /\ entry' = entry + 1 /\ held' = held
        /\ pc = "regions" /\ pc' = pc /\ max_blocks' = max_blocks
        /\ used_blocks' = used_blocks - memmap[entry].length
        /\ bits' = (bits \ E) \cup {0}
        /\ entry <= Len(memmap)
    BY DEF pmm_init_region, Freed
  <1>2. /\ memmap \in MemMaps /\ entry \in 1..(Len(memmap) + 1) /\ held = {}
        /\ bits \subseteq Tracked(memmap)
    BY <1>1 DEF IInv, BootInv
  <1>3. Len(memmap) \in Nat /\ memmap[entry].length \in Nat
        /\ entry \in 1..Len(memmap)
    BY <1>1, <1>2, MapFacts
  <1>4. /\ bits \cap D \subseteq {0}
        /\ WholeBytes(memmap) \ D \subseteq bits
        /\ used_blocks = Cardinality(U)
    BY <1>1 DEF IInv, Booting
  <1>5. /\ Done(memmap, entry + 1) = D \cup E
        /\ E \subseteq U
        /\ IsFiniteSet(E)
        /\ Cardinality(E) = memmap[entry].length
    BY <1>2, <1>3, DoneStep
  <1>6. IsFiniteSet(U)
    BY <1>2, TrackedFacts, FS_Difference
  <1>7. Cardinality(U \ E) = Cardinality(U) - Cardinality(E)
    BY <1>5, <1>6, TakenOut
  <1>8. Tracked(memmap) \ (D \cup E) = U \ E
    OBVIOUS
  <1>9. 0 \in Tracked(memmap)
    BY <1>2, TrackedFacts
  <1>10. BootInv'
    <2>1. entry' \in 1..(Len(memmap') + 1)
      BY <1>1, <1>3
    <2> QED
      BY <2>1, <1>1, <1>2, <1>9 DEF IInv, BootInv
  <1>11. Booting'
    <2>1. used_blocks' = Cardinality(Tracked(memmap) \ (D \cup E))
      BY <1>1, <1>4, <1>5, <1>7, <1>8
    <2>2. bits' \cap (D \cup E) \subseteq {0} /\ 0 \in bits'
      BY <1>1, <1>4
    <2>3. WholeBytes(memmap) \ (D \cup E) \subseteq bits'
      BY <1>1, <1>4
    <2> QED
      BY <1>1, <1>5, <2>1, <2>2, <2>3 DEF Booting
  <1> QED
    BY <1>1, <1>10, <1>11 DEF IInv, NotStarted, Counting, BitmapExact

\* Leaving the loop changes nothing but the place.
LEMMA RegionsDoneInv == IInv /\ RegionsDone => IInv'
  <1> SUFFICES ASSUME IInv, RegionsDone PROVE IInv'
    OBVIOUS
  <1>1. Len(memmap) \in Nat
    BY MapFacts DEF IInv, BootInv
  <1>2. entry = Len(memmap) + 1
    BY <1>1 DEF IInv, BootInv, RegionsDone
  <1>3. BootInv'
    BY <1>2 DEF IInv, BootInv, RegionsDone
  <1>4. Booting'
    BY DEF IInv, Booting, RegionsDone
  <1> QED
    BY <1>3, <1>4 DEF RegionsDone, IInv, NotStarted, Counting, BitmapExact

\* pmm_deinit_region sets aside usable blocks that are still clear; what is then
\* clear is what may be granted.
LEMMA DeinitRegionInv == IInv /\ pmm_deinit_region => IInv'
  <1> SUFFICES ASSUME IInv, pmm_deinit_region PROVE IInv'
    OBVIOUS
  <1> DEFINE R == Reserved(memmap)
             U == Usable(memmap)
             N == Tracked(memmap) \ U
  <1>1. /\ memmap' = memmap /\ entry' = entry /\ held' = held
        /\ pc = "reserve" /\ pc' = "ready" /\ max_blocks' = max_blocks
        /\ used_blocks' = used_blocks + ReservedLen(memmap)
        /\ bits' = bits \cup R
    BY DEF pmm_deinit_region, SetAside
  <1>2. /\ memmap \in MemMaps /\ entry = Len(memmap) + 1 /\ held = {}
        /\ bits \subseteq Tracked(memmap)
    BY <1>1 DEF IInv, BootInv
  <1>3. Done(memmap, entry) = U
    BY <1>2, DoneEnds
  <1>4. /\ bits \cap U \subseteq {0} /\ 0 \in bits
        /\ WholeBytes(memmap) \ U \subseteq bits
        /\ used_blocks = Cardinality(N)
    <2>1. entry > 1
      BY <1>2, MapFacts
    <2> QED
      BY <2>1, <1>1, <1>3 DEF IInv, Booting
  <1>5. /\ R \subseteq U /\ IsFiniteSet(R)
        /\ ReservedLen(memmap) \in Nat /\ Cardinality(R) = ReservedLen(memmap)
    BY <1>2, ReservedFacts
  <1>6. U \subseteq Tracked(memmap)
    BY <1>2, UsableFacts
  <1>7. Left' = U \ R /\ Allocatable' = U \ (R \cup {0})
    BY <1>1 DEF Left, Allocatable
  <1>8. Tracked(memmap) \ (U \ R) = N \cup R /\ N \cap R = {}
    BY <1>5, <1>6
  <1>9. IsFiniteSet(N) /\ Cardinality(N) \in Nat
    BY <1>2, TrackedFacts, FS_Difference, FS_CardinalityType
  <1>10. Cardinality(N \cup R) = Cardinality(N) + Cardinality(R)
    <2>1. Cardinality(N \cap R) = 0
      BY <1>8, FS_EmptySet
    <2> QED
      <3>1. Cardinality(N \cup R) =
              Cardinality(N) + Cardinality(R) - Cardinality(N \cap R)
        BY <1>5, <1>9, FS_Union
      <3>2. Cardinality(R) \in Nat
        BY <1>5
      <3> HIDE DEF N, R
      <3> QED
        BY <3>1, <3>2, <2>1, <1>9
  <1>11. Cardinality({}) = 0
    BY FS_EmptySet
  <1>12. Counting'
    <2>1. used_blocks' = Cardinality(N \cup R) + 0
      BY <1>1, <1>4, <1>5, <1>9, <1>10
    <2> QED
      BY <2>1, <1>1, <1>2, <1>7, <1>8, <1>11 DEF Counting
  <1>13. BitmapExact'
    <2> SUFFICES ASSUME TailUsable(memmap)
                 PROVE  bits' = (Tracked(memmap) \ (U \ (R \cup {0}))) \cup {}
      BY <1>1, <1>2, <1>7 DEF BitmapExact
    <2>1. N \subseteq WholeBytes(memmap) \ U
      BY DEF TailUsable
    <2>2. bits = N \cup {0}
      BY <2>1, <1>2, <1>4
    <2>3. 0 \in Tracked(memmap)
      BY <1>2, TrackedFacts
    <2> QED
      BY <2>2, <2>3, <1>1, <1>8
  <1>14. BootInv'
    BY <1>1, <1>2, <1>5, <1>6 DEF IInv, BootInv
  <1> QED
    BY <1>1, <1>12, <1>13, <1>14 DEF IInv, NotStarted, Booting

\* pmm_alloc_block marks and grants a block that was clear.
LEMMA AllocInv == IInv /\ pmm_alloc_block => IInv'
  <1> SUFFICES ASSUME IInv, pmm_alloc_block PROVE IInv'
    OBVIOUS
  <1>1. PICK i \in FreeBits : bits' = bits \cup {i} /\ held' = held \cup {i}
    BY DEF pmm_alloc_block
  <1>2. /\ memmap' = memmap /\ entry' = entry
        /\ pc = "ready" /\ pc' = "ready" /\ max_blocks' = max_blocks
        /\ used_blocks' = used_blocks + 1
    BY DEF pmm_alloc_block
  <1>3. /\ memmap \in MemMaps /\ max_blocks = MemTop(memmap)
        /\ bits \subseteq Tracked(memmap) /\ held \subseteq bits
    BY <1>2 DEF IInv, BootInv
  <1>4. i \in Tracked(memmap) \ bits
    BY <1>1, <1>3 DEF FreeBits, Tracked
  <1>5. i \notin held
    BY <1>3, <1>4
  <1>6. IsFiniteSet(held) /\ Cardinality(held) \in Nat
    BY <1>3, TrackedFacts, TakenOut
  <1>7. Cardinality(held') = Cardinality(held) + 1
    BY <1>1, <1>5, <1>6, FS_AddElement
  <1>8. Allocatable' = Allocatable /\ Left' = Left
    BY <1>2 DEF Allocatable, Left
  <1>9. Counting'
    BY <1>2, <1>3, <1>6, <1>7, <1>8, LeftFacts DEF IInv, Counting
  <1>10. BitmapExact'
    <2> SUFFICES ASSUME TailUsable(memmap)
                 PROVE  /\ bits' = (Tracked(memmap) \ Allocatable) \cup held'
                        /\ held' \subseteq Allocatable
      BY <1>2, <1>8 DEF BitmapExact
    <2>1. bits = (Tracked(memmap) \ Allocatable) \cup held /\ held \subseteq Allocatable
      BY <1>2 DEF IInv, BitmapExact
    <2> QED
      BY <2>1, <1>1, <1>4
  <1>11. BootInv'
    BY <1>1, <1>2, <1>4 DEF IInv, BootInv
  <1> QED
    BY <1>2, <1>9, <1>10, <1>11 DEF IInv, NotStarted, Booting

\* pmm_free_block clears the bit of a block that was held.
LEMMA FreeInv ==
  ASSUME IInv, NEW b \in held, pmm_free_block(b)
  PROVE  IInv'
  <1>1. /\ memmap' = memmap /\ entry' = entry
        /\ pc = "ready" /\ pc' = "ready" /\ max_blocks' = max_blocks
        /\ used_blocks' = used_blocks - 1
        /\ bits' = bits \ {b} /\ held' = held \ {b}
    BY DEF pmm_free_block, UsedAfterFree
  <1>2. /\ memmap \in MemMaps
        /\ bits \subseteq Tracked(memmap) /\ held \subseteq bits
    BY <1>1 DEF IInv, BootInv
  <1>3. IsFiniteSet(held) /\ Cardinality(held) \in Nat
    BY <1>2, TrackedFacts, TakenOut
  <1>4. Cardinality(held') = Cardinality(held) - 1
    BY <1>1, <1>3, FS_RemoveElement
  <1>5. Allocatable' = Allocatable /\ Left' = Left
    BY <1>1 DEF Allocatable, Left
  <1>6. Counting'
    BY <1>1, <1>2, <1>3, <1>4, <1>5, LeftFacts DEF IInv, Counting
  <1>7. BitmapExact'
    <2> SUFFICES ASSUME TailUsable(memmap)
                 PROVE  /\ bits' = (Tracked(memmap) \ Allocatable) \cup held'
                        /\ held' \subseteq Allocatable
      BY <1>1, <1>5 DEF BitmapExact
    <2>1. bits = (Tracked(memmap) \ Allocatable) \cup held /\ held \subseteq Allocatable
      BY <1>1 DEF IInv, BitmapExact
    <2> QED
      BY <2>1, <1>1
  <1>8. BootInv'
    BY <1>1 DEF IInv, BootInv
  <1> QED
    BY <1>1, <1>6, <1>7, <1>8 DEF IInv, NotStarted, Booting

\* Every step keeps the invariant.
LEMMA NextInv == IInv /\ [Next]_vars => IInv'
  <1> SUFFICES ASSUME IInv, [Next]_vars PROVE IInv'
    OBVIOUS
  <1>1. ASSUME NEW leftover \in SUBSET (Tracked(memmap) \ WholeBytes(memmap)),
               pmm_initialize(leftover)
        PROVE  IInv'
    BY <1>1, InitializeInv
  <1>2. CASE pmm_init_region
    BY <1>2, InitRegionInv
  <1>3. CASE RegionsDone
    BY <1>3, RegionsDoneInv
  <1>4. CASE pmm_deinit_region
    BY <1>4, DeinitRegionInv
  <1>5. CASE pmm_alloc_block
    BY <1>5, AllocInv
  <1>6. ASSUME NEW b \in held, pmm_free_block(b)
        PROVE  IInv'
    BY <1>6, FreeInv
  <1>7. CASE pmm_alloc_block_oom \/ UNCHANGED vars
    <2>1. UNCHANGED vars
      BY <1>7 DEF pmm_alloc_block_oom
    <2> QED
      BY <2>1
      DEF vars, IInv, BootInv, NotStarted, Booting, Counting, BitmapExact,
          Allocatable, Left
  <1> QED
    BY <1>1, <1>2, <1>3, <1>4, <1>5, <1>6, <1>7 DEF Next

\* The invariant holds on every machine, whatever its memory held before boot.
THEOREM Inductive == Spec => []IInv
  BY InitInv, NextInv, PTL DEF Spec

-----------------------------------------------------------------------------
\* The counts stay within bounds on every map.
LEMMA InvType == IInv => TypeOK
  <1> SUFFICES ASSUME IInv PROVE TypeOK
    OBVIOUS
  <1> DEFINE top == MemTop(memmap)
             T == Tracked(memmap)
  <1>1. memmap \in MemMaps /\ bits \subseteq T /\ held \subseteq T
    BY DEF IInv, BootInv
  <1>2. top \in Nat /\ IsFiniteSet(T) /\ Cardinality(T) = top
    BY <1>1, MapFacts, TrackedFacts
  <1>3. ASSUME NEW R \in SUBSET T
        PROVE  Cardinality(R) \in 0..top
    BY <1>2, FS_Subset, FS_CardinalityType
  <1>4. Cardinality(T \ Done(memmap, entry)) \in 0..top
    BY <1>3
  <1>5. Cardinality(T \ Left) \in 0..top /\ Cardinality(held) \in 0..top
    BY <1>1, <1>3
  <1>6. used_blocks \in 0..(2 * top)
    <2>1. CASE pc = "start"
      BY <2>1, <1>2 DEF IInv, NotStarted
    <2>2. CASE pc \in {"regions", "reserve"}
      BY <2>2, <1>2, <1>4 DEF IInv, Booting
    <2>3. CASE pc = "ready"
      <3>1. used_blocks = Cardinality(T \ Left) + Cardinality(held)
        BY <2>3 DEF IInv, Counting
      <3> QED
        BY <3>1, <1>2, <1>5
    <2> QED
      BY <2>1, <2>2, <2>3 DEF IInv, BootInv
  <1>7. max_blocks \in {0, top}
    BY DEF IInv, BootInv, NotStarted
  <1> QED
    BY <1>1, <1>6, <1>7 DEF IInv, BootInv, TypeOK

\* The manager's variables keep their types for every memory map.
THEOREM TypeCorrect == Spec => []TypeOK
  BY Inductive, InvType, PTL

\* Once booted, the blocks marked used are exactly those that are not usable,
\* those set aside for the bitmap, block 0 and those callers hold.
THEOREM Exact == Spec => []BitmapExact
  <1>1. IInv => BitmapExact
    BY DEF IInv
  <1> QED
    BY <1>1, Inductive, PTL

\* With the bitmap exact, what is counted is what is marked, but for block 0.
LEMMA InvCount == IInv => UsedIsCount
  <1> SUFFICES ASSUME IInv, pc \in {"reserve", "ready"}, TailUsable(memmap)
               PROVE  used_blocks = Cardinality(bits \ Uncounted)
    BY DEF UsedIsCount
  <1> DEFINE T == Tracked(memmap)
  <1>1. memmap \in MemMaps /\ bits \subseteq T /\ held \subseteq T
    BY DEF IInv, BootInv
  <1>2. CASE pc = "reserve"
    <2>1. entry = Len(memmap) + 1 /\ entry > 1
      BY <1>1, <1>2, MapFacts DEF IInv, BootInv
    <2>2. Done(memmap, entry) = Usable(memmap)
      BY <1>1, <2>1, DoneEnds
    <2>3. /\ bits \cap Usable(memmap) \subseteq {0}
          /\ WholeBytes(memmap) \ Usable(memmap) \subseteq bits
          /\ used_blocks = Cardinality(T \ Usable(memmap))
      BY <1>2, <2>2 DEF IInv, Booting
    <2>4. Uncounted = {0} \cap Usable(memmap)
      BY <1>2 DEF Uncounted
    <2>5. bits \ Uncounted = T \ Usable(memmap)
      BY <1>1, <2>3, <2>4 DEF TailUsable
    <2> QED
      BY <2>3, <2>5
  <1>3. CASE pc = "ready"
    <2> DEFINE N == T \ Left
    <2>1. bits \ Uncounted = N \cup held /\ held \subseteq Left
      <3>1. bits = (T \ Allocatable) \cup held /\ held \subseteq Allocatable
        BY <1>3 DEF IInv, BitmapExact
      <3>2. Uncounted = {0} \cap Left
        BY <1>3 DEF Uncounted, Left
      <3>3. Allocatable = Left \ {0} /\ Left \subseteq T
        BY <1>1, LeftFacts
      <3> QED
        BY <3>1, <3>2, <3>3
    <2>2. used_blocks = Cardinality(N) + Cardinality(held)
      BY <1>3 DEF IInv, Counting
    <2>3. IsFiniteSet(N) /\ Cardinality(N) \in Nat
      BY <1>1, LeftFacts
    <2>4. IsFiniteSet(held) /\ Cardinality(held) \in Nat
      BY <1>1, TrackedFacts, TakenOut
    <2>5. Cardinality(N \cap held) = 0
      <3>1. N \cap held = {}
        BY <2>1
      <3> QED
        BY <3>1, FS_EmptySet
    <2>6. Cardinality(N \cup held) =
            Cardinality(N) + Cardinality(held) - Cardinality(N \cap held)
      BY <2>3, <2>4, FS_Union
    <2>7. Cardinality(bits \ Uncounted) = Cardinality(N \cup held)
      BY <2>1
    <2> HIDE DEF N
    <2> QED
      BY <2>2, <2>3, <2>4, <2>5, <2>6, <2>7
  <1> QED
    BY <1>2, <1>3

\* used_blocks is the number of blocks marked used, or one less when block 0 was
\* counted free with its entry and marked by mmap_set(0).
THEOREM Counted == Spec => []UsedIsCount
  BY Inductive, InvCount, PTL

\* The blocks the bitmap lies in are never granted.
THEOREM Kept == Spec => []BitmapKept
  <1>1. IInv => BitmapKept
    BY DEF IInv, BitmapExact, BitmapKept, Allocatable, TailReserved
  <1> QED
    BY <1>1, Inductive, PTL

\* Once booted the bitmap is right and safe: exactly the blocks that may not be
\* granted are marked, and the marks are in no caller's block.
THEOREM Sound == Spec => []BitmapSound
  <1>1. BitmapExact /\ BitmapKept => BitmapSound
    BY DEF BitmapSound
  <1> QED
    BY <1>1, Exact, Kept, PTL

-----------------------------------------------------------------------------
\* Every step of the manager is one of the abstract manager or a stutter: the
\* end of boot fixes what may be granted, an allocation grants, a free releases.
LEMMA RefinesNext == IInv /\ IInv' /\ [Next]_vars => [Frames!Next]_(Frames!vars)
  <1> SUFFICES ASSUME IInv, IInv', [Next]_vars
               PROVE  [Frames!Next]_(Frames!vars)
    OBVIOUS
  <1> USE DEF Frames!vars
  <1>1. CASE ~ TailUsable(memmap)
    <2>1. memmap' = memmap
      BY DEF Next, vars, pmm_initialize, pmm_init_region, RegionsDone,
             pmm_deinit_region, pmm_alloc_block, pmm_alloc_block_oom,
             pmm_free_block
    <2> QED
      BY <1>1, <2>1
  <1>2. CASE TailUsable(memmap)
    <2>1. CASE \/ \E leftover \in SUBSET (Tracked(memmap) \ WholeBytes(memmap)) :
                    pmm_initialize(leftover)
               \/ pmm_init_region
               \/ RegionsDone
      BY <2>1 DEF pmm_initialize, pmm_init_region, RegionsDone
    <2>2. CASE pmm_deinit_region
      <3>1. held' = held /\ memmap' = memmap /\ pc = "reserve" /\ pc' = "ready"
        BY <2>2 DEF pmm_deinit_region
      <3> QED
        BY <3>1, <1>2 DEF Frames!Next, Frames!Boot, IInv, BootInv, Allocatable
    <2>3. CASE pmm_alloc_block
      <3>1. PICK i \in FreeBits : held' = held \cup {i}
        BY <2>3 DEF pmm_alloc_block
      <3>2. pc = "ready" /\ pc' = "ready" /\ memmap' = memmap
        BY <2>3 DEF pmm_alloc_block
      <3>3. i \in Tracked(memmap) \ bits
        BY <3>1, <3>2 DEF FreeBits, Tracked, IInv, BootInv
      <3>4. bits = (Tracked(memmap) \ Allocatable) \cup held
        BY <3>2, <1>2 DEF IInv, BitmapExact
      <3>5. i \in Allocatable \ held
        BY <3>3, <3>4
      <3>6. Allocatable' = Allocatable
        BY <3>2 DEF Allocatable
      <3> QED
        BY <3>1, <3>2, <3>5, <3>6, <1>2 DEF Frames!Next, Frames!Grant
    <2>4. ASSUME NEW b \in held, pmm_free_block(b)
          PROVE  [Frames!Next]_(Frames!vars)
      <3>1. pc = "ready" /\ pc' = "ready" /\ memmap' = memmap /\ held' = held \ {b}
        BY <2>4 DEF pmm_free_block
      <3>2. b \in Allocatable
        BY <3>1, <1>2 DEF IInv, BitmapExact
      <3>3. Allocatable' = Allocatable
        BY <3>1 DEF Allocatable
      <3> QED
        BY <3>1, <3>2, <3>3, <1>2 DEF Frames!Next, Frames!Release
    <2>5. CASE pmm_alloc_block_oom \/ UNCHANGED vars
      BY <2>5 DEF pmm_alloc_block_oom, vars, Allocatable
    <2> QED
      BY <2>1, <2>2, <2>3, <2>4, <2>5 DEF Next
  <1> QED
    BY <1>1, <1>2

\* The manager keeps the promise of FrameSpec: what it grants may be granted and
\* nobody holds it.
THEOREM Refinement == Spec => ImplementsFrameSpec
  <1>1. Init => Frames!Init
    BY DEF Init, Frames!Init
  <1> QED
    BY <1>1, Inductive, RefinesNext, PTL DEF Spec, ImplementsFrameSpec, Frames!Spec
=============================================================================

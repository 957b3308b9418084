---------------------------- MODULE KheapProofs ----------------------------
(***************************************************************************)
(* Proofs about the kernel heap, for every arena size, header size and set *)
(* of request sizes allowed by KheapAssumption.                            *)
(***************************************************************************)
EXTENDS Kheap, TLAPS

\* kmalloc's local variables: current is a block of the list or NULL, is NULL
\* between calls, and a search only happens on an initialised heap.
ScanInv ==
  /\ cur \in Blocks \cup {NULL}
  /\ pc = "idle" => cur = NULL
  /\ pc = "scan" => free_list # NULL /\ req \in Requests
  /\ free_list = NULL => Blocks = {}

IInv ==
  /\ TypeOK
  /\ ListTiles
  /\ BlocksApart
  /\ InUseIsHeld
  /\ PassedDoNotFit
  /\ ScanInv

\* Adding the header to a request never wraps size_t.
LEMMA TotalSizeExact ==
  ASSUME NEW n \in Requests
  PROVE  n \in Nat /\ TotalSize(n) = n + HDR
  BY KheapAssumption DEF TotalSize

\* Every block ends inside the arena.
LEMMA BlockEnds ==
  ASSUME TypeOK, ListTiles, free_list # NULL, NEW b \in Blocks
  PROVE  b \in Nat /\ hdr[b] \in Header /\ b + hdr[b].size <= HeapSize
  BY KheapAssumption DEF TypeOK, ListTiles, Header

\* The initial state satisfies the invariant.
LEMMA InitInv == Init => IInv
  BY KheapAssumption
  DEF Init, IInv, TypeOK, ListTiles, BlocksApart, InUseIsHeld, PassedDoNotFit,
      ScanInv, Blocks, NoHeaders, Header

\* kheap_initialize makes one free block of the whole arena.
LEMMA InitializeInv == IInv /\ kheap_initialize => IInv'
  BY KheapAssumption
  DEF kheap_initialize, IInv, TypeOK, ListTiles, BlocksApart, InUseIsHeld,
      PassedDoNotFit, ScanInv, Blocks, Header

\* A call of kmalloc starts at the head of the list with nothing passed yet.
LEMMA CallInv ==
  ASSUME NEW n \in Requests
  PROVE  IInv /\ kmalloc(n) => IInv'
  BY KheapAssumption
  DEF kmalloc, IInv, TypeOK, ListTiles, BlocksApart, InUseIsHeld,
      PassedDoNotFit, ScanInv, Blocks, Header, Fits

\* kmalloc moving on: the block it leaves behind does not fit.
LEMMA PassInv == IInv /\ kmalloc_next => IInv'
  <1> SUFFICES ASSUME IInv, kmalloc_next PROVE IInv'
    OBVIOUS
  <1>1. cur \in Blocks /\ free_list # NULL /\ req \in Requests
    BY DEF IInv, ScanInv, kmalloc_next
  <1>2. TypeOK' /\ ListTiles' /\ BlocksApart' /\ InUseIsHeld'
    BY <1>1, KheapAssumption
    DEF kmalloc_next, IInv, TypeOK, ListTiles, BlocksApart, InUseIsHeld,
        Blocks, Header
  <1>3. ScanInv'
    BY <1>1 DEF kmalloc_next, IInv, ListTiles, ScanInv, Blocks
  <1>4. PassedDoNotFit'
    <2> SUFFICES ASSUME NEW b \in Blocks, cur' = NULL \/ b < cur'
                 PROVE  hdr[b].is_free = 0 \/ hdr[b].size < req + HDR
      BY DEF kmalloc_next, PassedDoNotFit, Blocks
    <2>1. b \in Nat /\ b + hdr[b].size <= HeapSize /\ hdr[b].size \in Nat
          /\ hdr[b].size >= HDR /\ hdr[b].is_free \in {0, 1} /\ cur \in Nat /\ hdr[cur].size \in Nat
      BY <1>1, BlockEnds DEF IInv, Header, ListTiles
    <2>2. b = cur \/ b < cur
      <3>1. b > cur => cur + hdr[cur].size <= b
        BY <1>1 DEF IInv, BlocksApart
      <3>2. cur' = NULL => cur + hdr[cur].size = HeapSize
        BY <1>1 DEF IInv, ListTiles, kmalloc_next
      <3>3. cur' # NULL => cur' = cur + hdr[cur].size
        BY <1>1 DEF IInv, ListTiles, kmalloc_next
      <3> QED BY <2>1, <3>1, <3>2, <3>3, KheapAssumption
    <2>3. CASE b = cur
      <3>1. ~ Fits(b, req + HDR)
        BY <2>3, <1>1, TotalSizeExact DEF kmalloc_next
      <3>2. req + HDR \in Nat
        BY <1>1, KheapAssumption
      <3> QED BY <2>1, <3>1, <3>2 DEF Fits
    <2>4. CASE b < cur
      BY <2>4, <1>1 DEF IInv, PassedDoNotFit, kmalloc_next
    <2> QED BY <2>2, <2>3, <2>4
  <1> QED BY <1>2, <1>3, <1>4 DEF IInv

\* kmalloc returning NULL leaves the list as it was.
LEMMA OomInv == IInv /\ kmalloc_oom => IInv'
  BY KheapAssumption
  DEF kmalloc_oom, IInv, TypeOK, ListTiles, BlocksApart, InUseIsHeld,
      PassedDoNotFit, ScanInv, Blocks, Header, Fits

\* kmalloc granting a block, split or whole.
LEMMA GrantInv == IInv /\ kmalloc_grant => IInv'
  <1> SUFFICES ASSUME IInv, kmalloc_grant PROVE IInv'
    OBVIOUS
  <1> DEFINE total == req + HDR
  <1> DEFINE p == cur + HDR
  <1>0. cur \in Blocks /\ free_list # NULL /\ req \in Requests
    BY DEF IInv, ScanInv, kmalloc_grant
  <1>1. /\ cur \in Blocks /\ free_list # NULL /\ req \in Requests
        /\ req \in Nat /\ total \in Nat /\ TotalSize(req) = total
    BY <1>0, TotalSizeExact, KheapAssumption
  <1>2. /\ cur \in Nat /\ hdr[cur] \in Header /\ hdr[cur].size \in Nat
        /\ hdr[cur].is_free = 1 /\ hdr[cur].size >= total
        /\ cur + hdr[cur].size <= HeapSize
    BY <1>1, BlockEnds DEF IInv, Header, kmalloc_grant, Fits
  <1>3. p \in Nat /\ p \notin DOMAIN live
    BY <1>1, <1>2, KheapAssumption DEF IInv, InUseIsHeld
  <1>4. live' = [q \in DOMAIN live \cup {p} |-> IF q = p THEN req ELSE live[q]]
    BY DEF kmalloc_grant
  <1>5. /\ pc' = "idle" /\ cur' = NULL /\ req' = 0
        /\ free_list' = free_list
    BY DEF kmalloc_grant
  <1>6. PassedDoNotFit' /\ ScanInv'
    BY <1>1, <1>5 DEF PassedDoNotFit, ScanInv
  <1>7. CASE Splits(cur, total)
    <2> DEFINE nb == cur + total
    <2>1. /\ nb \in Nat /\ nb > cur /\ hdr[cur].size > total + HDR
          /\ nb + HDR < cur + hdr[cur].size
      BY <1>1, <1>2, <1>7, KheapAssumption DEF Splits
    <2>2. nb \notin Blocks
      BY <1>1, <1>2, <2>1, KheapAssumption DEF IInv, BlocksApart
    <2>3. /\ Blocks' = Blocks \cup {nb}
          /\ hdr' \in [Blocks \cup {nb} -> Header]
          /\ hdr'[nb] = [next |-> hdr[cur].next, size |-> hdr[cur].size - total,
                         is_free |-> 1]
          /\ hdr'[cur] = [next |-> nb, size |-> total, is_free |-> 0]
          /\ \A c \in Blocks \ {cur} : hdr'[c] = hdr[c]
      BY <1>1, <1>2, <1>7, <2>1, <2>2
      DEF kmalloc_grant, SplitAt, Blocks, IInv, TypeOK, Header
    <2>4. TypeOK'
      BY <1>1, <1>2, <1>3, <1>4, <1>5, <2>1, <2>3, KheapAssumption
      DEF IInv, TypeOK
    <2>5. ListTiles'
      <3> SUFFICES ASSUME NEW b \in Blocks'
                   PROVE /\ hdr'[b].size >= HDR
                         /\ IF hdr'[b].next = NULL
                              THEN b + hdr'[b].size = HeapSize
                              ELSE /\ hdr'[b].next \in Blocks'
                                   /\ hdr'[b].next = b + hdr'[b].size
        BY <1>1, <1>5, <2>3 DEF IInv, ListTiles
      <3>1. CASE b = nb
        BY <1>1, <1>2, <2>1, <2>3, <3>1, KheapAssumption DEF IInv, ListTiles
      <3>2. CASE b = cur
        BY <1>1, <1>2, <2>1, <2>3, <3>2, KheapAssumption
      <3>3. CASE b \in Blocks \ {cur}
        BY <1>1, <2>3, <3>3 DEF IInv, ListTiles
      <3> QED BY <2>3, <3>1, <3>2, <3>3
    <2>6. BlocksApart'
      <3> SUFFICES ASSUME NEW b \in Blocks', NEW c \in Blocks', b < c
                   PROVE  b + hdr'[b].size <= c
        BY DEF BlocksApart
      <3>1. \A d \in Blocks : d \in Nat /\ hdr[d].size \in Nat
        BY DEF IInv, TypeOK, Header
      <3>2. CASE b \in Blocks /\ c \in Blocks
        <4>1. CASE b = cur
          BY <1>1, <1>2, <2>1, <2>3, <3>1, <3>2, <4>1 DEF IInv, BlocksApart
        <4>2. CASE b # cur
          BY <2>3, <3>2, <4>2 DEF IInv, BlocksApart
        <4> QED BY <4>1, <4>2
      <3>3. CASE b = nb /\ c \in Blocks
        <4>1. c \in Nat /\ cur < c
          BY <1>2, <2>1, <3>1, <3>3
        <4>2. cur + hdr[cur].size <= c
          BY <1>1, <3>3, <4>1 DEF IInv, BlocksApart
        <4>3. nb + hdr'[nb].size = cur + hdr[cur].size
          <5>1. hdr'[nb].size = hdr[cur].size - total
            BY <2>3
          <5> QED
            BY <5>1, <1>1, <1>2
        <4> QED BY <3>3, <4>2, <4>3
      <3>4. CASE b \in Blocks /\ c = nb
        <4>1. CASE b = cur
          BY <1>1, <1>2, <2>1, <2>3, <3>4, <4>1
        <4>2. CASE b < cur
          BY <1>1, <1>2, <2>1, <2>3, <3>1, <3>4, <4>2 DEF IInv, BlocksApart
        <4>3. CASE b > cur
          BY <1>1, <1>2, <2>1, <3>1, <3>4, <4>3 DEF IInv, BlocksApart
        <4> QED BY <1>2, <3>1, <3>4, <4>1, <4>2, <4>3
      <3> QED BY <2>1, <2>3, <3>2, <3>3, <3>4
    <2>7. InUseIsHeld'
      <3>1. ASSUME NEW q \in DOMAIN live'
            PROVE /\ q >= HDR /\ q - HDR \in Blocks'
                  /\ hdr'[q - HDR].is_free = 0
                  /\ live'[q] + HDR <= hdr'[q - HDR].size
        <4>1. CASE q = p
          BY <1>1, <1>2, <1>3, <1>4, <2>3, <4>1, KheapAssumption
        <4>2. CASE q \in DOMAIN live /\ q # p
          <5>1. q - HDR \in Blocks /\ q - HDR # cur
            BY <1>2, <4>2 DEF IInv, InUseIsHeld
          <5> QED BY <1>4, <2>3, <4>2, <5>1 DEF IInv, InUseIsHeld
        <4> QED BY <1>4, <4>1, <4>2
      <3>2. ASSUME NEW b \in Blocks', hdr'[b].is_free = 0
            PROVE  b + HDR \in DOMAIN live'
        BY <1>4, <2>3, <3>2 DEF IInv, InUseIsHeld
      <3> QED BY <3>1, <3>2 DEF InUseIsHeld
    <2> QED BY <1>6, <2>4, <2>5, <2>6, <2>7 DEF IInv
  <1>8. CASE ~ Splits(cur, total)
    <2>1. /\ Blocks' = Blocks
          /\ hdr' \in [Blocks -> Header]
          /\ hdr'[cur].next = hdr[cur].next /\ hdr'[cur].size = hdr[cur].size
          /\ hdr'[cur].is_free = 0
          /\ \A c \in Blocks \ {cur} : hdr'[c] = hdr[c]
      BY <1>1, <1>2, <1>8
      DEF kmalloc_grant, Marked, Blocks, IInv, TypeOK, Header
    <2>2. TypeOK'
      BY <1>1, <1>2, <1>3, <1>4, <1>5, <2>1, KheapAssumption
      DEF IInv, TypeOK
    <2>3. ListTiles' /\ BlocksApart'
      BY <1>1, <1>5, <2>1 DEF IInv, ListTiles, BlocksApart
    <2>4. InUseIsHeld'
      <3>1. ASSUME NEW q \in DOMAIN live'
            PROVE /\ q >= HDR /\ q - HDR \in Blocks'
                  /\ hdr'[q - HDR].is_free = 0
                  /\ live'[q] + HDR <= hdr'[q - HDR].size
        <4>1. CASE q = p
          BY <1>1, <1>2, <1>3, <1>4, <2>1, <4>1, KheapAssumption
        <4>2. CASE q \in DOMAIN live /\ q # p
          <5>1. q - HDR \in Blocks /\ q - HDR # cur
            BY <1>2, <4>2 DEF IInv, InUseIsHeld
          <5> QED BY <1>4, <2>1, <4>2, <5>1 DEF IInv, InUseIsHeld
        <4> QED BY <1>4, <4>1, <4>2
      <3>2. ASSUME NEW b \in Blocks', hdr'[b].is_free = 0
            PROVE  b + HDR \in DOMAIN live'
        BY <1>4, <2>1, <3>2 DEF IInv, InUseIsHeld
      <3> QED BY <3>1, <3>2 DEF InUseIsHeld
    <2> QED BY <1>6, <2>2, <2>3, <2>4 DEF IInv
  <1> QED BY <1>7, <1>8

\* kfree of a held pointer, with or without absorbing the next block.
LEMMA FreeInv ==
  ASSUME IInv, NEW p \in DOMAIN live, kfree(p)
  PROVE  IInv'
  <1> DEFINE block == p - HDR
  <1>1. /\ p \in Nat /\ p >= HDR /\ block \in Blocks /\ block \in Nat
        /\ hdr[block].is_free = 0 /\ HDR \in Nat
    BY KheapAssumption DEF IInv, InUseIsHeld, TypeOK
  <1>2. free_list # NULL
    BY <1>1 DEF IInv, ScanInv
  <1>3. live' = [q \in DOMAIN live \ {p} |-> live[q]]
    BY DEF kfree
  <1>4. /\ pc' = "idle" /\ pc = "idle" /\ cur' = NULL /\ req' = req
        /\ free_list' = free_list
    BY DEF kfree, IInv, ScanInv
  <1>5. PassedDoNotFit' /\ ScanInv'
    BY <1>2, <1>4 DEF PassedDoNotFit, ScanInv
  <1>6. \A b \in Blocks : /\ b \in Nat /\ hdr[b] \in Header
                          /\ hdr[b].size \in Nat /\ hdr[b].size >= HDR
    BY <1>2, BlockEnds DEF IInv, ListTiles, Header
  <1>7. CASE Absorbs(block)
    <2> DEFINE n == hdr[block].next
    <2>1. /\ n \in Blocks /\ n = block + hdr[block].size /\ n # block
          /\ n \in Nat /\ hdr[n].is_free = 1
      BY <1>1, <1>2, <1>6, <1>7, KheapAssumption DEF Absorbs, IInv, ListTiles
    <2>2. /\ Blocks' = Blocks \ {n}
          /\ hdr' \in [Blocks \ {n} -> Header]
          /\ hdr'[block] = [next |-> hdr[n].next,
                            size |-> hdr[block].size + hdr[n].size,
                            is_free |-> 1]
          /\ \A c \in Blocks \ {n, block} : hdr'[c] = hdr[c]
      BY <1>1, <1>6, <1>7, <2>1 DEF kfree, Absorb, Blocks, Header
    <2>3. TypeOK'
      BY <1>1, <1>3, <1>4, <2>2 DEF IInv, TypeOK
    <2>4. \A c \in Blocks \ {block} : hdr[c].next # n
      <3> SUFFICES ASSUME NEW c \in Blocks \ {block}, hdr[c].next = n
                   PROVE  FALSE
        OBVIOUS
      <3>1. c + hdr[c].size = n
        BY <1>2, <2>1, KheapAssumption DEF IInv, ListTiles
      <3>2. c < block \/ block < c
        BY <1>1, <1>6
      <3>3. CASE c < block
        BY <1>1, <1>6, <2>1, <3>1, <3>3, KheapAssumption DEF IInv, BlocksApart
      <3>4. CASE block < c
        BY <1>1, <1>6, <2>1, <3>1, <3>4, KheapAssumption DEF IInv, BlocksApart
      <3> QED BY <3>2, <3>3, <3>4
    <2>5. ListTiles'
      <3>1. 0 \in Blocks'
        BY <1>1, <1>2, <1>6, <2>1, <2>2, KheapAssumption DEF IInv, ListTiles
      <3> SUFFICES ASSUME NEW b \in Blocks'
                   PROVE /\ hdr'[b].size >= HDR
                         /\ IF hdr'[b].next = NULL
                              THEN b + hdr'[b].size = HeapSize
                              ELSE /\ hdr'[b].next \in Blocks'
                                   /\ hdr'[b].next = b + hdr'[b].size
        BY <1>2, <1>4, <3>1 DEF ListTiles
      <3>2. CASE b = block
        <4>1. hdr[n].next # n
          BY <1>2, <1>6, <2>1, KheapAssumption DEF IInv, ListTiles
        <4> QED
          BY <1>1, <1>2, <1>6, <2>1, <2>2, <3>2, <4>1 DEF IInv, ListTiles
      <3>3. CASE b # block
        BY <1>2, <2>2, <2>4, <3>3 DEF IInv, ListTiles
      <3> QED BY <3>2, <3>3
    <2>6. BlocksApart'
      <3> SUFFICES ASSUME NEW b \in Blocks', NEW c \in Blocks', b < c
                   PROVE  b + hdr'[b].size <= c
        BY DEF BlocksApart
      <3>1. CASE b = block
        <4>1. n <= c
          BY <1>1, <1>6, <2>1, <2>2, <3>1 DEF IInv, BlocksApart
        <4>2. n + hdr[n].size <= c
          BY <1>6, <2>1, <2>2, <4>1 DEF IInv, BlocksApart
        <4> QED BY <1>1, <1>6, <2>1, <2>2, <3>1, <4>2
      <3>2. CASE b # block
        BY <2>2, <3>2 DEF IInv, BlocksApart
      <3> QED BY <3>1, <3>2
    <2>7. InUseIsHeld'
      <3>1. ASSUME NEW q \in DOMAIN live'
            PROVE /\ q >= HDR /\ q - HDR \in Blocks'
                  /\ hdr'[q - HDR].is_free = 0
                  /\ live'[q] + HDR <= hdr'[q - HDR].size
        <4>1. q \in DOMAIN live /\ q # p /\ q \in Nat /\ live'[q] = live[q]
          BY <1>3 DEF IInv, TypeOK
        <4>2. q - HDR \in Blocks /\ q - HDR # n /\ q - HDR # block
          BY <1>1, <2>1, <4>1 DEF IInv, InUseIsHeld
        <4> QED BY <2>2, <4>1, <4>2 DEF IInv, InUseIsHeld
      <3>2. ASSUME NEW b \in Blocks', hdr'[b].is_free = 0
            PROVE  b + HDR \in DOMAIN live'
        <4>1. b \in Blocks /\ b # block /\ hdr[b].is_free = 0
          BY <2>2, <3>2
        <4>2. b + HDR \in DOMAIN live /\ b + HDR # p
          BY <1>1, <1>6, <4>1 DEF IInv, InUseIsHeld
        <4> QED BY <1>3, <4>2
      <3> QED BY <3>1, <3>2 DEF InUseIsHeld
    <2> QED BY <1>5, <2>3, <2>5, <2>6, <2>7 DEF IInv
  <1>8. CASE ~ Absorbs(block)
    <2>1. /\ Blocks' = Blocks
          /\ hdr' \in [Blocks -> Header]
          /\ hdr'[block].next = hdr[block].next
          /\ hdr'[block].size = hdr[block].size
          /\ hdr'[block].is_free = 1
          /\ \A c \in Blocks \ {block} : hdr'[c] = hdr[c]
      BY <1>1, <1>6, <1>8 DEF kfree, Marked, Blocks, IInv, TypeOK, Header
    <2>2. TypeOK'
      BY <1>1, <1>3, <1>4, <2>1 DEF IInv, TypeOK
    <2>3. ListTiles' /\ BlocksApart'
      BY <1>1, <1>4, <2>1 DEF IInv, ListTiles, BlocksApart
    <2>4. InUseIsHeld'
      <3>1. ASSUME NEW q \in DOMAIN live'
            PROVE /\ q >= HDR /\ q - HDR \in Blocks'
                  /\ hdr'[q - HDR].is_free = 0
                  /\ live'[q] + HDR <= hdr'[q - HDR].size
        <4>1. q \in DOMAIN live /\ q # p /\ q \in Nat /\ live'[q] = live[q]
          BY <1>3 DEF IInv, TypeOK
        <4>2. q - HDR \in Blocks /\ q - HDR # block
          BY <1>1, <4>1 DEF IInv, InUseIsHeld
        <4> QED BY <2>1, <4>1, <4>2 DEF IInv, InUseIsHeld
      <3>2. ASSUME NEW b \in Blocks', hdr'[b].is_free = 0
            PROVE  b + HDR \in DOMAIN live'
        <4>1. b \in Blocks /\ b # block /\ hdr[b].is_free = 0
          BY <2>1, <3>2
        <4>2. b + HDR \in DOMAIN live /\ b + HDR # p
          BY <1>1, <1>6, <4>1 DEF IInv, InUseIsHeld
        <4> QED BY <1>3, <4>2
      <3> QED BY <3>1, <3>2 DEF InUseIsHeld
    <2> QED BY <1>5, <2>2, <2>3, <2>4 DEF IInv
  <1> QED BY <1>7, <1>8

-----------------------------------------------------------------------------
\* Every step of the heap preserves the invariant.
LEMMA StepInv == IInv /\ [Next]_vars => IInv'
  <1> SUFFICES ASSUME IInv, [Next]_vars PROVE IInv'
    OBVIOUS
  <1>1. CASE kheap_initialize
    BY <1>1, InitializeInv
  <1>2. ASSUME NEW n \in Requests, kmalloc(n) PROVE IInv'
    BY <1>2, CallInv
  <1>3. CASE kmalloc_next
    BY <1>3, PassInv
  <1>4. CASE kmalloc_grant
    BY <1>4, GrantInv
  <1>5. CASE kmalloc_oom
    BY <1>5, OomInv
  <1>6. ASSUME NEW p \in DOMAIN live, kfree(p) PROVE IInv'
    BY <1>6, FreeInv
  <1>7. CASE UNCHANGED vars
    BY <1>7
    DEF vars, IInv, TypeOK, ListTiles, BlocksApart, InUseIsHeld,
        PassedDoNotFit, ScanInv, Blocks, Fits
  <1> QED BY <1>1, <1>2, <1>3, <1>4, <1>5, <1>6, <1>7 DEF Next

\* The inductive invariant holds of every behaviour of the heap.
THEOREM Inductive == Spec => []IInv
  BY InitInv, StepInv, PTL DEF Spec

\* The variables of kheap.c keep their types.
THEOREM TypeCorrect == Spec => []TypeOK
  <1>1. IInv => TypeOK
    BY DEF IInv
  <1> QED BY <1>1, Inductive, PTL

\* The block list tiles the arena whatever sequence of kmalloc and kfree calls
\* is made.
THEOREM Tiling == Spec => []ListSound
  <1>1. IInv => ListSound
    BY DEF IInv, ListSound
  <1> QED BY <1>1, Inductive, PTL

\* Blocks in use and pointers held by callers correspond one to one, and each
\* held block is large enough for the request it was granted for.
THEOREM Ownership == Spec => []InUseIsHeld
  <1>1. IInv => InUseIsHeld
    BY DEF IInv
  <1> QED BY <1>1, Inductive, PTL

\* kmalloc passes over no block that would do, so it refuses a request only
\* when no free block is large enough.
THEOREM HonestOom == Spec => []PassedDoNotFit
  <1>1. IInv => PassedDoNotFit
    BY DEF IInv
  <1> QED BY <1>1, Inductive, PTL

-----------------------------------------------------------------------------
\* A step leaves the header of a block that stays held as it was.
LEMMA StepKeepsHeld ==
  ASSUME IInv, Next, NEW q \in DOMAIN live \cap DOMAIN live'
  PROVE  hdr'[q - HDR] = hdr[q - HDR]
  <1>1. /\ q \in Nat /\ HDR \in Nat /\ q - HDR \in Blocks
        /\ hdr[q - HDR].is_free = 0 /\ free_list # NULL
    BY KheapAssumption DEF IInv, InUseIsHeld, TypeOK, ScanInv
  <1>2. CASE kheap_initialize
    BY <1>1, <1>2 DEF kheap_initialize
  <1>3. ASSUME NEW n \in Requests, kmalloc(n)
        PROVE  hdr'[q - HDR] = hdr[q - HDR]
    BY <1>3 DEF kmalloc
  <1>4. CASE kmalloc_next \/ kmalloc_oom
    BY <1>4 DEF kmalloc_next, kmalloc_oom
  <1>5. CASE kmalloc_grant
    <2>1. /\ cur \in Blocks /\ req \in Requests
          /\ hdr[cur].is_free = 1 /\ hdr[cur].size >= TotalSize(req)
      BY <1>5 DEF IInv, ScanInv, kmalloc_grant, Fits
    <2>2. /\ req \in Nat /\ TotalSize(req) = req + HDR
          /\ cur \in Nat /\ hdr[cur].size \in Nat
      BY <1>1, <2>1, TotalSizeExact, BlockEnds DEF IInv, Header
    <2>3. q - HDR # cur
      BY <1>1, <2>1
    <2>4. CASE Splits(cur, TotalSize(req))
      <3>1. cur + TotalSize(req) \notin Blocks
        BY <1>1, <2>1, <2>2, <2>4, KheapAssumption
        DEF IInv, BlocksApart, Splits
      <3> QED BY <1>1, <1>5, <2>3, <2>4, <3>1
          DEF kmalloc_grant, SplitAt, Blocks
    <2>5. CASE ~ Splits(cur, TotalSize(req))
      BY <1>1, <1>5, <2>3, <2>5 DEF kmalloc_grant, Marked, Blocks
    <2> QED BY <2>4, <2>5
  <1>6. ASSUME NEW p \in DOMAIN live, kfree(p)
        PROVE  hdr'[q - HDR] = hdr[q - HDR]
    <2>1. /\ p # q /\ p \in Nat /\ p - HDR \in Blocks
      BY <1>6 DEF kfree, IInv, InUseIsHeld, TypeOK
    <2>2. q - HDR # p - HDR
      BY <1>1, <2>1
    <2>3. CASE Absorbs(p - HDR)
      <3>1. hdr[p - HDR].next # q - HDR
        BY <1>1, <2>3 DEF Absorbs
      <3> QED BY <1>1, <1>6, <2>2, <2>3, <3>1 DEF kfree, Absorb, Blocks
    <2>4. CASE ~ Absorbs(p - HDR)
      BY <1>1, <1>6, <2>2, <2>4 DEF kfree, Marked, Blocks
    <2> QED BY <2>3, <2>4
  <1> QED BY <1>2, <1>3, <1>4, <1>5, <1>6 DEF Next

\* No call made for one caller rewrites the header of a block that another
\* caller holds.
THEOREM HeldStable == Spec => HeldHeaderStable
  <1>1. IInv /\ [Next]_vars
        => [\A p \in DOMAIN live \cap DOMAIN live' :
              hdr'[p - HDR] = hdr[p - HDR]]_vars
    BY StepKeepsHeld
  <1> QED BY <1>1, Inductive, PTL DEF Spec, HeldHeaderStable

\* kheap.c implements the abstract allocator of HeapSpec.
THEOREM Refinement == Spec => ImplementsHeapSpec
  <1>1. Init => Abstract!Init
    BY DEF Init, Abstract!Init
  <1>2. IInv /\ IInv' /\ [Next]_vars => [Abstract!Next]_live
    <2> SUFFICES ASSUME IInv, IInv', Next
                 PROVE  Abstract!Next \/ UNCHANGED live
      BY DEF vars
    <2>1. CASE kheap_initialize \/ kmalloc_next \/ kmalloc_oom
      BY <2>1 DEF kheap_initialize, kmalloc_next, kmalloc_oom
    <2>2. ASSUME NEW n \in Requests, kmalloc(n) PROVE UNCHANGED live
      BY <2>2 DEF kmalloc
    <2>3. CASE kmalloc_grant
      <3> DEFINE p == cur + HDR
      <3>1. cur \in Blocks /\ req \in Requests /\ free_list # NULL
            /\ hdr[cur].is_free = 1
        BY <2>3 DEF IInv, ScanInv, kmalloc_grant, Fits
      <3>2. /\ cur \in Nat /\ req \in Nat /\ HDR \in Nat /\ HeapSize \in Nat
            /\ p \in DOMAIN live' /\ live'[p] = req
            /\ p - HDR = cur
        BY <2>3, <3>1, KheapAssumption DEF IInv, TypeOK, kmalloc_grant
      <3>3. p \notin DOMAIN live
        BY <3>1, <3>2 DEF IInv, InUseIsHeld
      <3>4. /\ cur \in Blocks' /\ hdr'[cur].size \in Nat
            /\ req + HDR <= hdr'[cur].size
            /\ cur + hdr'[cur].size <= HeapSize
        <4>1. cur \in Blocks' /\ req + HDR <= hdr'[cur].size
          BY <3>2 DEF IInv, InUseIsHeld
        <4>2. free_list' # NULL
          BY <2>3, <3>1 DEF kmalloc_grant
        <4>3. hdr'[cur] \in Header
          BY <4>1 DEF IInv, TypeOK
        <4>4. cur + hdr'[cur].size <= HeapSize
          BY <3>2, <4>1, <4>2, <4>3
          DEF IInv, ListTiles, TypeOK, Header
        <4> QED BY <4>1, <4>3, <4>4 DEF Header
      <3>5. ASSUME NEW q \in DOMAIN live
            PROVE  Abstract!Apart(p, req, q, live[q])
        <4>1. /\ q \in DOMAIN live' /\ live'[q] = live[q] /\ q # p
              /\ q \in Nat /\ live[q] \in Nat
          BY <2>3, <3>3 DEF kmalloc_grant, IInv, TypeOK
        <4>2. /\ q >= HDR /\ q - HDR \in Blocks'
              /\ live[q] + HDR <= hdr'[q - HDR].size
          BY <4>1 DEF IInv, InUseIsHeld
        <4>3. hdr'[q - HDR].size \in Nat
          BY <4>2 DEF IInv, TypeOK, Header
        <4>4. cur < q - HDR => cur + hdr'[cur].size <= q - HDR
          BY <3>4, <4>2 DEF IInv, BlocksApart
        <4>5. q - HDR < cur => q - HDR + hdr'[q - HDR].size <= cur
          BY <3>4, <4>2 DEF IInv, BlocksApart
        <4> QED BY <3>2, <3>4, <4>1, <4>2, <4>3, <4>4, <4>5
            DEF Abstract!Apart
      <3>6. p \in 0..HeapSize /\ p + req <= HeapSize
        BY <3>2, <3>4
      <3>7. Abstract!Grant(p, req)
        BY <2>3, <3>3, <3>5, <3>6 DEF kmalloc_grant, Abstract!Grant
      <3> QED BY <3>1, <3>6, <3>7 DEF Abstract!Next
    <2>4. ASSUME NEW p \in DOMAIN live, kfree(p) PROVE Abstract!Next
      BY <2>4 DEF kfree, Abstract!Next, Abstract!Release
    <2> QED BY <2>1, <2>2, <2>3, <2>4 DEF Next
  <1> QED
    BY <1>1, <1>2, Inductive, PTL
    DEF Spec, ImplementsHeapSpec, Abstract!Spec
=============================================================================

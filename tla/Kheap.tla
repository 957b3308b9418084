------------------------------- MODULE Kheap -------------------------------
(***************************************************************************)
(* The kernel heap of kernel/kernel/kheap.c: an address-ordered list of    *)
(* blocks, each a header followed by its payload, searched from the front  *)
(* by kmalloc and split on the way; kfree marks a block free and absorbs   *)
(* its successor when that one is free too.                                *)
(*                                                                         *)
(* Addresses are byte offsets from start_addr.  The search loop of kmalloc *)
(* takes one step per block so that what it has established about the      *)
(* blocks it has passed can be stated.                                     *)
(***************************************************************************)
EXTENDS Naturals

CONSTANTS
  HeapSize,   \* total_size given to kheap_initialize
  HDR,        \* sizeof(struct kheap_block)
  SizeMod,    \* 2^(width of size_t)
  Requests,   \* the sizes kmalloc is called with
  NULL

(***************************************************************************)
(* kmalloc is called with sizeof(process_t) and with pitch * height of the *)
(* framebuffer; neither comes near wrapping a 64-bit size_t.               *)
(***************************************************************************)
ASSUME KheapAssumption ==
  /\ HDR \in Nat \ {0}
  /\ HeapSize \in Nat /\ HeapSize >= HDR
  /\ SizeMod \in Nat
  /\ Requests \subseteq Nat
  /\ \A n \in Requests : n + HDR < SizeMod
  /\ NULL \notin Nat

VARIABLES
  free_list,  \* head of the list, NULL until kheap_initialize
  hdr,        \* address |-> header, for the headers on the list
  pc,         \* "idle", or "scan" while kmalloc walks the list
  cur,        \* kmalloc's current
  req,        \* kmalloc's size
  live        \* history: pointer held by a caller |-> size it asked for

vars == <<free_list, hdr, pc, cur, req, live>>

Blocks == DOMAIN hdr
NoHeaders == [b \in {} |-> 0]

-----------------------------------------------------------------------------
TotalSize(n) == (n + HDR) % SizeMod

\* Mutated Fits: the free mark is not looked at.
FitsInUse(b, total) == hdr[b].size >= total
\* Mutated Fits: a block of exactly the wanted size is passed over.
FitsStrictly(b, total) == hdr[b].is_free = 1 /\ hdr[b].size > total
Fits(b, total) == hdr[b].is_free = 1 /\ hdr[b].size >= total

\* Mutated Splits: no room is kept for the header of the new block.
SplitsTight(b, total) == hdr[b].size > total
Splits(b, total) == hdr[b].size > total + HDR

\* Mutated SplitAt: the new block keeps the size of the old one.
SplitKeepsSize(b, total) ==
  LET new_block == b + total IN
  [c \in Blocks \cup {new_block} |->
     IF c = new_block
       THEN [next |-> hdr[b].next, size |-> hdr[b].size, is_free |-> 1]
     ELSE IF c = b
       THEN [next |-> new_block, size |-> total, is_free |-> 0]
     ELSE hdr[c]]
SplitAt(b, total) ==
  LET new_block == b + total IN
  [c \in Blocks \cup {new_block} |->
     IF c = new_block
       THEN [next |-> hdr[b].next, size |-> hdr[b].size - total, is_free |-> 1]
     ELSE IF c = b
       THEN [next |-> new_block, size |-> total, is_free |-> 0]
     ELSE hdr[c]]

Marked(b, free) ==
  [hdr EXCEPT ![b] = [next |-> @.next, size |-> @.size, is_free |-> free]]

\* Mutated Absorbs: the successor is absorbed whether or not it is free.
AbsorbsAlways(b) == hdr[b].next # NULL
Absorbs(b) == hdr[b].next # NULL /\ hdr[hdr[b].next].is_free = 1

Absorb(b) ==
  LET n == hdr[b].next IN
  [c \in Blocks \ {n} |->
     IF c = b
       THEN [next |-> hdr[n].next, size |-> hdr[b].size + hdr[n].size,
             is_free |-> 1]
     ELSE hdr[c]]

-----------------------------------------------------------------------------
Init ==
  /\ free_list = NULL
  /\ hdr = NoHeaders
  /\ pc = "idle"
  /\ cur = NULL
  /\ req = 0
  /\ live = [p \in {} |-> 0]

kheap_initialize ==
  /\ free_list = NULL
  /\ free_list' = 0
  /\ hdr' = [b \in {0} |-> [next |-> NULL, size |-> HeapSize, is_free |-> 1]]
  /\ UNCHANGED <<pc, cur, req, live>>

(***************************************************************************)
(* kmalloc(n): the call, one step per block passed over, and its two ends. *)
(***************************************************************************)
kmalloc(n) ==
  /\ free_list # NULL
  /\ pc = "idle"
  /\ pc' = "scan"
  /\ req' = n
  /\ cur' = free_list
  /\ UNCHANGED <<free_list, hdr, live>>

\* Mutated kmalloc_next: past the last block the search starts over.
kmalloc_nextWraps ==
  /\ pc = "scan"
  /\ cur # NULL
  /\ ~ Fits(cur, TotalSize(req))
  /\ cur' = IF hdr[cur].next = NULL THEN free_list ELSE hdr[cur].next
  /\ UNCHANGED <<free_list, hdr, pc, req, live>>
kmalloc_next ==
  /\ pc = "scan"
  /\ cur # NULL
  /\ ~ Fits(cur, TotalSize(req))
  /\ cur' = hdr[cur].next
  /\ UNCHANGED <<free_list, hdr, pc, req, live>>

kmalloc_grant ==
  LET total == TotalSize(req) IN
  /\ pc = "scan"
  /\ cur # NULL
  /\ Fits(cur, total)
  /\ hdr' = IF Splits(cur, total) THEN SplitAt(cur, total) ELSE Marked(cur, 0)
  /\ live' = [p \in DOMAIN live \cup {cur + HDR} |->
                IF p = cur + HDR THEN req ELSE live[p]]
  /\ pc' = "idle"
  /\ cur' = NULL
  /\ req' = 0
  /\ UNCHANGED free_list

kmalloc_oom ==
  /\ pc = "scan"
  /\ cur = NULL
  /\ pc' = "idle"
  /\ req' = 0
  /\ UNCHANGED <<free_list, hdr, cur, live>>

(***************************************************************************)
(* kfree(p) of a pointer a caller holds.  kfree(NULL) returns at once.     *)
(***************************************************************************)
kfree(p) ==
  LET block == p - HDR IN
  /\ pc = "idle"
  /\ p \in DOMAIN live
  /\ hdr' = IF Absorbs(block) THEN Absorb(block) ELSE Marked(block, 1)
  /\ live' = [q \in DOMAIN live \ {p} |-> live[q]]
  /\ UNCHANGED <<free_list, pc, cur, req>>

Search == kmalloc_next \/ kmalloc_grant \/ kmalloc_oom

Next ==
  \/ kheap_initialize
  \/ \E n \in Requests : kmalloc(n)
  \/ kmalloc_next
  \/ kmalloc_grant
  \/ kmalloc_oom
  \/ \E p \in DOMAIN live : kfree(p)

Spec == Init /\ [][Next]_vars

\* The search runs on the one CPU with nothing else to run until it returns.
FairSpec == Spec /\ WF_vars(Search)

-----------------------------------------------------------------------------
Header == [next : Nat \cup {NULL}, size : Nat, is_free : {0, 1}]

TypeOK ==
  /\ free_list \in {0, NULL}
  /\ Blocks \subseteq 0..HeapSize
  /\ hdr \in [Blocks -> Header]
  /\ pc \in {"idle", "scan"}
  /\ cur \in Nat \cup {NULL}
  /\ req \in Nat
  /\ DOMAIN live \subseteq Nat
  /\ live \in [DOMAIN live -> Nat]

\* The list tiles the arena: it starts at the bottom, every block ends where
\* the next one on the list begins, the last one ends at the top, and no block
\* is smaller than its header.  Splitting and absorbing keep it so.
ListTiles ==
  free_list # NULL =>
    /\ 0 \in Blocks
    /\ \A b \in Blocks :
         /\ hdr[b].size >= HDR
         /\ IF hdr[b].next = NULL
              THEN b + hdr[b].size = HeapSize
              ELSE hdr[b].next \in Blocks /\ hdr[b].next = b + hdr[b].size

\* No two blocks overlap, so no header lies inside another block's payload
\* and no two callers share a byte.
BlocksApart ==
  \A b, c \in Blocks :
    b < c => b + hdr[b].size <= c

\* The list is sound: it covers the arena without a gap and without overlap.
ListSound == ListTiles /\ BlocksApart

\* A block is in use exactly while a caller holds the pointer to it, and is
\* large enough for what that caller asked for: nothing is leaked or handed
\* out twice, and kfree always finds the header it steps back to.
InUseIsHeld ==
  /\ \A p \in DOMAIN live :
       /\ p >= HDR
       /\ p - HDR \in Blocks
       /\ hdr[p - HDR].is_free = 0
       /\ live[p] + HDR <= hdr[p - HDR].size
  /\ \A b \in Blocks : hdr[b].is_free = 0 => b + HDR \in DOMAIN live

\* kmalloc reports "OOM" only when no free block of the list is large enough,
\* and otherwise returns the lowest one that is.
PassedDoNotFit ==
  pc = "scan" =>
    \A b \in Blocks :
      (cur = NULL \/ b < cur) =>
        hdr[b].is_free = 0 \/ hdr[b].size < req + HDR

\* While a caller holds a block, no call made for anyone else rewrites its
\* header.
HeldHeaderStable ==
  [][\A p \in DOMAIN live \cap DOMAIN live' :
       hdr'[p - HDR] = hdr[p - HDR]]_vars

\* Every call of kmalloc returns: the list it walks is finite and has no loop.
KmallocReturns == (pc = "scan") ~> (pc = "idle")

\* The heap implements the abstract allocator: a grant gives out a range that
\* overlaps nothing held, everything else is a stutter or a release.
Abstract == INSTANCE HeapSpec
ImplementsHeapSpec == Abstract!Spec
=============================================================================

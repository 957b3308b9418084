-------------------------------- MODULE Vmm --------------------------------
(***************************************************************************)
(* The page tables: vmm_initialize and vmm_map_page of                     *)
(* kernel/arch/x86_64/vmm.c, called one after the other by _start and      *)
(* load_kex_and_run, over frames granted as FrameSpec says.                *)
(*                                                                         *)
(* A page is the sequence of its four indices (pml4, pdpt, pd, pt).  The   *)
(* three blocks of vmm_map_page that look up or make a table differ only   *)
(* in the index they use, and are one action taken three times.            *)
(***************************************************************************)
EXTENDS Naturals, Sequences

CONSTANTS
  FrameIds,     \* the physical frames, numbered from 0
  Index,        \* the entries of a table
  KernelHalf,   \* the entries of a root table that belong to the kernel
  Pages,        \* the pages considered
  Leftover,     \* what a frame that was never cleared may look like
  Boots         \* the machines considered: frames, boot tables, calls
                \* and the level of each table of the kernel's half

Flags == {"P", "W", "U"}
Entries == [frame : FrameIds, flags : SUBSET Flags]
Absent == [frame |-> 0, flags |-> {}]
NoPage == <<>>
Present(e) == "P" \in e.flags

\* A call of vmm_map_page.  Frame 0 as phys stands for pmm_alloc_block().
Calls == [virt : Pages, phys : FrameIds, flags : SUBSET Flags]

\* What the bootloader leaves in the kernel's half: a tree of tables, none of
\* them given away as free memory or as a page to map, and no page in it that a
\* program can write.
KernelTree(b) ==
  LET at(s) == b.tables[s[1]][s[2]]
      inner == {f \in DOMAIN b.levels : b.levels[f] < 3}
      slots == {s \in ({b.root} \X KernelHalf) \cup (inner \X Index) : Present(at(s))}
  IN
  /\ b.levels \in [DOMAIN b.levels -> 1..3]
  /\ DOMAIN b.levels \subseteq FrameIds \ (b.allocatable \cup {b.root})
  /\ \A s \in slots :
       /\ at(s).frame \in DOMAIN b.levels
       /\ b.levels[at(s).frame] = IF s[1] = b.root THEN 1 ELSE b.levels[s[1]] + 1
  /\ \A s, t \in slots : at(s).frame = at(t).frame => s = t
  /\ \A f \in DOMAIN b.levels \ inner, i \in Index : "U" \notin b.tables[f][i].flags
  /\ \A k \in 1..Len(b.calls) : b.calls[k].phys \notin b.allocatable \cup DOMAIN b.levels

ASSUME VmmAssumption ==
  /\ FrameIds \subseteq Nat /\ 0 \in FrameIds
  /\ KernelHalf \subseteq Index
  /\ Pages \subseteq Index \X Index \X Index \X Index
  /\ Leftover \in [Index -> Entries]
  /\ \A b \in Boots :
       /\ b.allocatable \subseteq FrameIds \ {0}
       /\ b.root \in FrameIds \ b.allocatable
       /\ b.tables \in [FrameIds \ b.allocatable -> [Index -> Entries]]
       /\ b.calls \in Seq(Calls)
       /\ KernelTree(b)

VARIABLES
  allocatable, held,  \* the frame manager, as in FrameSpec
  calls,        \* the calls of vmm_map_page still to come
  pc,           \* "start", "idle", "walk"
  cr3,
  tab,          \* what each frame holds, read as a table
  virt, entry,  \* the page being mapped and the entry it will get
  level, table, \* where the walk is
  tlb,          \* page |-> entry, for the translations cached
  oom           \* history: pmm_alloc_block has returned 0

pmm == <<allocatable, held, oom>>
walk == <<virt, entry, level, table>>
vars == <<pmm, calls, pc, cr3, tab, walk, tlb>>

Frames == INSTANCE FrameSpec

-----------------------------------------------------------------------------
Init ==
  \E b \in Boots :
    /\ allocatable = b.allocatable
    /\ held = {}
    /\ calls = b.calls
    /\ pc = "start"
    /\ cr3 = b.root
    /\ tab = [f \in FrameIds |->
                IF f \in b.allocatable THEN Leftover ELSE b.tables[f]]
    /\ virt = NoPage
    /\ entry = Absent
    /\ level = 1
    /\ table = b.root
    /\ tlb = [v \in {} |-> Absent]
    /\ oom = FALSE

\* The lowest free frame.  With none left the call returns 0, which is not
\* looked at by any caller.
\* Mutated pmm_alloc_block: the frame is not marked used.
pmm_alloc_blockUnmarked(f) ==
  LET free == allocatable \ held IN
  /\ IF free = {} THEN f = 0 ELSE f \in free /\ \A g \in free : f <= g
  /\ UNCHANGED pmm
pmm_alloc_block(f) ==
  LET free == allocatable \ held IN
  \/ /\ Frames!Grant(f)
     /\ \A g \in free : f <= g
     /\ UNCHANGED oom
  \/ /\ free = {}
     /\ f = 0
     /\ oom' = TRUE
     /\ UNCHANGED <<allocatable, held>>

\* Mutated NewRoot: the whole root of the bootloader is copied.
NewRootWhole == tab[cr3]
NewRoot == [i \in Index |-> IF i \in KernelHalf THEN tab[cr3][i] ELSE Absent]

\* Loading cr3 empties the TLB.
vmm_initialize ==
  /\ pc = "start"
  /\ \E f \in FrameIds :
       /\ pmm_alloc_block(f)
       /\ tab' = [tab EXCEPT ![f] = NewRoot]
       /\ cr3' = f
  /\ tlb' = [v \in {} |-> Absent]
  /\ pc' = "idle"
  /\ UNCHANGED <<calls, walk>>

\* vmm_map_page(phys, virt, flags), the next call of the boot code.
vmm_map_page ==
  /\ pc = "idle"
  /\ calls # <<>>
  /\ LET c == Head(calls) IN
     \E f \in FrameIds :
       /\ IF c.phys = 0 THEN pmm_alloc_block(f) ELSE f = c.phys /\ UNCHANGED pmm
       /\ virt' = c.virt
       /\ entry' = [frame |-> f, flags |-> c.flags \cup {"P"}]
  /\ calls' = Tail(calls)
  /\ level' = 1
  /\ table' = cr3
  /\ pc' = "walk"
  /\ UNCHANGED <<cr3, tab, tlb>>

Slot == tab[table][virt[level]]

\* Mutated Cleared: a new table is used as it was found.
ClearedNot(f) == tab[f]
Cleared(f) == [i \in Index |-> Absent]

\* Mutated Deeper: the walk goes one level too far.
DeeperToo == level <= 4
Deeper == level < 4

\* One level down, into a new table if there is none.
Descend ==
  /\ pc = "walk"
  /\ Deeper
  /\ level' = level + 1
  /\ \/ /\ Present(Slot)
        /\ table' = Slot.frame
        /\ UNCHANGED <<pmm, tab>>
     \/ /\ ~ Present(Slot)
        /\ \E f \in FrameIds :
             /\ pmm_alloc_block(f)
             /\ tab' = [[tab EXCEPT ![f] = Cleared(f)]
                          EXCEPT ![table][virt[level]] =
                                   [frame |-> f, flags |-> Flags]]
             /\ table' = f
  /\ UNCHANGED <<calls, pc, cr3, virt, entry, tlb>>

\* Mutated Flushed: the translation cached for the page stays.
FlushedNot(v) == tlb
Flushed(v) == [w \in DOMAIN tlb \ {v} |-> tlb[w]]

SetEntry ==
  /\ pc = "walk"
  /\ level = 4
  /\ tab' = [tab EXCEPT ![table][virt[4]] = entry]
  /\ tlb' = Flushed(virt)
  /\ pc' = "idle"
  /\ virt' = NoPage
  /\ entry' = Absent
  /\ level' = 1
  /\ table' = cr3
  /\ UNCHANGED <<pmm, calls, cr3>>

-----------------------------------------------------------------------------
\* What the processor finds for a page in the tables cr3 points to.
Walk(v) ==
  LET pml4e == tab[cr3][v[1]]
      pdpte == tab[pml4e.frame][v[2]]
      pde == tab[pdpte.frame][v[3]]
      pte == tab[pde.frame][v[4]]
  IN  IF Present(pml4e) /\ Present(pdpte) /\ Present(pde) THEN pte ELSE Absent
Mapped(v) == Present(Walk(v))

\* Between calls the kernel uses a page it has mapped.
Touch(v) ==
  /\ pc = "idle"
  /\ Mapped(v)
  /\ v \notin DOMAIN tlb
  /\ tlb' = [w \in DOMAIN tlb \cup {v} |-> IF w = v THEN Walk(v) ELSE tlb[w]]
  /\ UNCHANGED <<pmm, calls, pc, cr3, tab, walk>>

Booted ==
  /\ pc = "idle"
  /\ calls = <<>>
  /\ UNCHANGED vars

Next ==
  \/ vmm_initialize
  \/ vmm_map_page
  \/ Descend
  \/ SetEntry
  \/ \E v \in Pages : Touch(v)
  \/ Booted

Spec == Init /\ [][Next]_vars

-----------------------------------------------------------------------------
TypeOK ==
  /\ held \subseteq allocatable /\ allocatable \subseteq FrameIds
  /\ calls \in Seq(Calls)
  /\ pc \in {"start", "idle", "walk"}
  /\ cr3 \in FrameIds
  /\ tab \in [FrameIds -> [Index -> Entries]]
  /\ virt \in Pages \cup {NoPage}
  /\ entry \in Entries
  /\ level \in 1..4
  /\ table \in FrameIds
  /\ DOMAIN tlb \subseteq Pages
  /\ tlb \in [DOMAIN tlb -> Entries]
  /\ oom \in BOOLEAN

\* The slots <<table, index>> in use at each level below the root.
SlotsOf(S) == {s \in S \X Index : Present(tab[s[1]][s[2]])}
Below(S) == {tab[s[1]][s[2]].frame : s \in SlotsOf(S)}
Pdpts == Below({cr3})
Pds == Below(Pdpts)
Pts == Below(Pds)
Upper == {cr3} \cup Pdpts \cup Pds
Tables == Upper \cup Pts

\* The tables form a tree, as long as frames last: no table hangs from two
\* entries, so no mapping can change through another one's path.
TreeShaped ==
  ~ oom /\ pc # "start" =>
    LET slots == SlotsOf(Upper) IN
    /\ \A s, t \in slots :
         tab[s[1]][s[2]].frame = tab[t[1]][t[2]].frame => s = t
    /\ \A s \in slots : tab[s[1]][s[2]].frame # cr3

\* As long as frames last, no page the program can write is a page table, and
\* no two such pages share a frame that was granted.
UserPagesApart ==
  ~ oom /\ pc # "start" =>
    LET user == {v \in Pages : "U" \in Walk(v).flags}
    IN
    /\ {Walk(v).frame : v \in user} \cap Tables = {}
    /\ \A v, w \in user :
         Walk(v).frame = Walk(w).frame /\ Walk(v).frame \in held => v = w

\* As long as frames last a translation the processor may still use is the one in
\* the tables, although vmm_map_page flushes one page only.  Once frame 0 is
\* cleared for a second table, pages lose their entries and are not flushed.
TlbFresh == ~ oom => \A v \in DOMAIN tlb : tlb[v] = Walk(v)

\* As long as frames last the tables implement one mapping from pages to
\* entries: its kernel half survives the switch to the kernel's own tables, and
\* each call then maps its page to its frame, with its flags, and nothing else.
Translation == [v \in {w \in Pages : Mapped(w)} |-> Walk(v)]
Vm == INSTANCE VmSpec WITH
  KernelPages <- {v \in Pages : v[1] \in KernelHalf},
  switched <- pc # "start",
  asked <- IF pc = "walk" THEN <<virt, entry>> ELSE <<>>,
  mapping <- Translation
ImplementsVmSpec == Vm!Init /\ [][oom' \/ Vm!Next]_(Vm!vars)
=============================================================================

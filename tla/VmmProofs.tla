----------------------------- MODULE VmmProofs ------------------------------
(***************************************************************************)
(* The page tables, for every machine, every list of calls and every set   *)
(* of pages: as long as frames last the tables form a tree, a page the     *)
(* program can write is no table and nobody else's, the processor's cached *)
(* translations are those of the tables, and the tables implement one      *)
(* mapping from pages to entries.                                          *)
(***************************************************************************)
EXTENDS Vmm, TLAPS


-----------------------------------------------------------------------------
(* The way of a page through tables T whose root is r.                     *)

Pml4e(T, r, v) == T[r][v[1]]
Pdpte(T, r, v) == T[Pml4e(T, r, v).frame][v[2]]
Pde(T, r, v) == T[Pdpte(T, r, v).frame][v[3]]
Pte(T, r, v) == T[Pde(T, r, v).frame][v[4]]

\* The first k tables below the root are there.
Reaches(T, r, v, k) ==
  /\ k >= 1 => Present(Pml4e(T, r, v))
  /\ k >= 2 => Present(Pdpte(T, r, v))
  /\ k >= 3 => Present(Pde(T, r, v))
Walked(T, r, v) == IF Reaches(T, r, v, 3) THEN Pte(T, r, v) ELSE Absent

-----------------------------------------------------------------------------
(* The inductive invariant.  Its witness lev gives every table its level,  *)
(* 0 for the root to 3 for the tables whose entries are pages.             *)

\* The entry i of table f points to a table below.
Link(T, lev, f, i) == lev[f] < 3 /\ Present(T[f][i])

\* Every table hangs one level below the one entry that points to it.
Linked(T, r, lev) ==
  /\ r \in DOMAIN lev /\ DOMAIN lev \subseteq FrameIds
  /\ \A f \in DOMAIN lev : lev[f] \in 0..3 /\ (lev[f] = 0 <=> f = r)
  /\ \A f \in DOMAIN lev, i \in Index :
       Link(T, lev, f, i) =>
         T[f][i].frame \in DOMAIN lev /\ lev[T[f][i].frame] = lev[f] + 1
  /\ \A f, g \in DOMAIN lev, i, j \in Index :
       Link(T, lev, f, i) /\ Link(T, lev, g, j) /\ T[f][i].frame = T[g][j].frame
         => f = g /\ i = j

\* A table is no free frame.
Tree(lev) ==
  /\ Linked(tab, cr3, lev)
  /\ \A f \in DOMAIN lev : f \in allocatable => f \in held

\* A program can write the page of entry i of table f.
User(T, lev, f, i) == lev[f] = 3 /\ "U" \in T[f][i].flags

\* A frame for a program is no table, and was granted if it was free memory.
ForProgram(lev, f) == f \notin DOMAIN lev /\ (f \in allocatable => f \in held)

\* The pages of programs are apart from the tables and from each other, those
\* mapped, the one being mapped and those to come.
Apart(lev) ==
  /\ \A f \in DOMAIN lev, i \in Index :
       User(tab, lev, f, i) => ForProgram(lev, tab[f][i].frame)
  /\ \A f, g \in DOMAIN lev, i, j \in Index :
       /\ User(tab, lev, f, i) /\ User(tab, lev, g, j)
       /\ tab[f][i].frame = tab[g][j].frame /\ tab[f][i].frame \in held
       => f = g /\ i = j
  /\ pc = "walk" =>
       /\ ForProgram(lev, entry.frame)
       /\ \A f \in DOMAIN lev, i \in Index :
            User(tab, lev, f, i) /\ entry.frame \in held => tab[f][i].frame # entry.frame
  /\ \A k \in 1..Len(calls) : calls[k].phys \notin allocatable \cup DOMAIN lev

\* The walk of page v stands at table t, n levels below the root.
At(T, r, lev, v, n, t) ==
  /\ t \in DOMAIN lev /\ lev[t] = n
  /\ Reaches(T, r, v, n)
  /\ n = 0 => t = r
  /\ n = 1 => t = Pml4e(T, r, v).frame
  /\ n = 2 => t = Pdpte(T, r, v).frame
  /\ n = 3 => t = Pde(T, r, v).frame

OnPath(lev) == pc = "walk" => At(tab, cr3, lev, virt, level - 1, table)

Shaped == \E lev : Tree(lev) /\ Apart(lev) /\ OnPath(lev)

\* A call under way is for a page and makes an entry that is present.
Mapping == pc = "walk" => virt \in Pages /\ Present(entry)

IInv ==
  /\ TypeOK
  /\ Mapping
  /\ pc = "start" => Init
  /\ ~ oom /\ pc # "start" => Shaped
  /\ TlbFresh

-----------------------------------------------------------------------------
(* Types, and what is known before the switch.                             *)

Basic == TypeOK /\ Mapping /\ (pc = "start" => Init)

\* A page has four indices.
LEMMA PageIndices ==
  ASSUME NEW v \in Pages
  PROVE  /\ v[1] \in Index /\ v[2] \in Index /\ v[3] \in Index /\ v[4] \in Index
         /\ v = <<v[1], v[2], v[3], v[4]>>
  <1>1. v \in Index \X Index \X Index \X Index
    BY VmmAssumption
  <1> QED BY <1>1

\* What a machine starts with.
LEMMA Machine ==
  ASSUME NEW b \in Boots
  PROVE  /\ b.allocatable \subseteq FrameIds \ {0}
         /\ b.root \in FrameIds \ b.allocatable
         /\ b.tables \in [FrameIds \ b.allocatable -> [Index -> Entries]]
         /\ b.calls \in Seq(Calls)
         /\ KernelTree(b)
  BY VmmAssumption

LEMMA BasicInit == Init => Basic
  <1> SUFFICES ASSUME Init PROVE Basic
    OBVIOUS
  <1>1. PICK b \in Boots :
          /\ allocatable = b.allocatable /\ held = {} /\ calls = b.calls
          /\ pc = "start" /\ cr3 = b.root
          /\ tab = [f \in FrameIds |-> IF f \in b.allocatable THEN Leftover ELSE b.tables[f]]
          /\ virt = NoPage /\ entry = Absent /\ level = 1 /\ table = b.root
          /\ tlb = [v \in {} |-> Absent] /\ oom = FALSE
    BY DEF Init
  <1>2. Absent \in Entries
    BY VmmAssumption DEF Absent, Entries
  <1>3. tab \in [FrameIds -> [Index -> Entries]]
    BY <1>1, Machine, VmmAssumption
  <1>4. DOMAIN tlb = {} /\ tlb \in [DOMAIN tlb -> Entries]
    BY <1>1
  <1>5. /\ allocatable \subseteq FrameIds /\ calls \in Seq(Calls) /\ cr3 \in FrameIds
        /\ held = {} /\ pc = "start" /\ virt = NoPage /\ entry = Absent /\ level = 1
        /\ table = cr3 /\ oom = FALSE
    BY <1>1, Machine
  <1>6. TypeOK
    <2>1. /\ held \subseteq allocatable /\ pc \in {"start", "idle", "walk"}
          /\ virt \in Pages \cup {NoPage} /\ entry \in Entries /\ level \in 1..4
          /\ table \in FrameIds /\ DOMAIN tlb \subseteq Pages
      BY <1>2, <1>4, <1>5
    <2>2. oom \in BOOLEAN
      BY <1>5
    <2> QED BY <1>3, <1>4, <1>5, <2>1, <2>2 DEF TypeOK
  <1> QED BY <1>1, <1>6 DEF Basic, Mapping

\* What a request for a frame may change.
LEMMA Request ==
  ASSUME TypeOK, NEW f \in FrameIds, pmm_alloc_block(f)
  PROVE  /\ allocatable' = allocatable /\ held' \subseteq allocatable
         /\ oom' \in BOOLEAN /\ (oom => oom')
         /\ ~ oom' => /\ ~ oom /\ f \in allocatable /\ f \notin held
                      /\ held' = held \cup {f}
  BY DEF pmm_alloc_block, Frames!Grant, TypeOK

LEMMA TableTyped ==
  ASSUME TypeOK, NEW f \in FrameIds
  PROVE  NewRoot \in [Index -> Entries] /\ Cleared(f) \in [Index -> Entries]
  <1>1. Absent \in Entries
    BY VmmAssumption DEF Absent, Entries
  <1> QED BY <1>1 DEF NewRoot, Cleared, TypeOK

\* What the processor finds for a page is a well formed entry.
LEMMA WalkIs ==
  ASSUME NEW v
  PROVE  /\ Walk(v) = Walked(tab, cr3, v)
         /\ Walk(v)' = Walked(tab', cr3', v)
  BY DEF Walk, Walked, Reaches, Pml4e, Pdpte, Pde, Pte, Present

LEMMA Found ==
  ASSUME NEW T \in [FrameIds -> [Index -> Entries]], NEW r \in FrameIds, NEW v \in Pages
  PROVE  Walked(T, r, v) \in Entries
  <1> USE PageIndices
  <1>1. \A f \in FrameIds, i \in Index : T[f][i] \in Entries /\ T[f][i].frame \in FrameIds
    <2>1. \A e \in Entries : e.frame \in FrameIds
      BY DEF Entries
    <2> QED BY <2>1
  <1>2. Pml4e(T, r, v).frame \in FrameIds
    BY <1>1 DEF Pml4e
  <1>3. Pdpte(T, r, v).frame \in FrameIds
    BY <1>1, <1>2 DEF Pdpte
  <1>4. Pde(T, r, v).frame \in FrameIds
    BY <1>1, <1>3 DEF Pde
  <1>5. Pte(T, r, v) \in Entries
    BY <1>1, <1>4 DEF Pte
  <1>6. Absent \in Entries
    BY VmmAssumption DEF Absent, Entries
  <1> QED BY <1>5, <1>6 DEF Walked

LEMMA BasicStep == Basic /\ [Next]_vars => Basic' /\ (oom => oom')
  <1> SUFFICES ASSUME Basic, [Next]_vars PROVE Basic' /\ (oom => oom')
    OBVIOUS
  <1> USE DEF Basic
  <1>1. Absent \in Entries /\ 0 \in FrameIds
    BY VmmAssumption DEF Absent, Entries
  <1>2. CASE vmm_initialize
    <2>1. PICK f \in FrameIds :
            /\ pmm_alloc_block(f) /\ tab' = [tab EXCEPT ![f] = NewRoot] /\ cr3' = f
            /\ tlb' = [v \in {} |-> Absent] /\ pc' = "idle"
            /\ UNCHANGED <<calls, virt, entry, level, table>>
      BY <1>2 DEF vmm_initialize, walk
    <2>2. tab' \in [FrameIds -> [Index -> Entries]]
      BY <2>1, TableTyped DEF TypeOK
    <2> QED BY <2>1, <2>2, Request DEF TypeOK, Mapping
  <1>3. CASE vmm_map_page
    <2> DEFINE c == Head(calls)
    <2>1. PICK f \in FrameIds :
            /\ IF c.phys = 0 THEN pmm_alloc_block(f)
                             ELSE f = c.phys /\ UNCHANGED <<allocatable, held, oom>>
            /\ virt' = c.virt /\ entry' = [frame |-> f, flags |-> c.flags \cup {"P"}]
            /\ calls' = Tail(calls) /\ calls # <<>> /\ level' = 1 /\ table' = cr3
            /\ pc' = "walk" /\ pc = "idle" /\ UNCHANGED <<cr3, tab, tlb>>
      BY <1>3 DEF vmm_map_page, pmm
    <2>2. c \in Calls /\ calls' \in Seq(Calls)
      BY <2>1 DEF TypeOK
    <2>3. c.virt \in Pages /\ c.flags \subseteq Flags
      BY <2>2 DEF Calls
    <2>4. entry' \in Entries /\ Present(entry')
      BY <2>1, <2>3 DEF Entries, Flags, Present
    <2>5. /\ held' \subseteq allocatable /\ allocatable' = allocatable /\ oom' \in BOOLEAN
          /\ (oom => oom')
      BY <2>1, Request DEF TypeOK
    <2> QED BY <2>1, <2>2, <2>3, <2>4, <2>5 DEF TypeOK, Mapping
  <1>4. CASE Descend
    <2>1. /\ pc = "walk" /\ level \in 1..3 /\ level' = level + 1
          /\ UNCHANGED <<calls, pc, cr3, virt, entry, tlb>>
      BY <1>4 DEF Descend, Deeper, TypeOK
    <2>2. CASE Present(Slot) /\ table' = Slot.frame /\ UNCHANGED <<allocatable, held, oom, tab>>
      <3>1. virt \in Pages /\ virt[level] \in Index
        BY <2>1, PageIndices DEF Mapping
      <3>2. table' \in FrameIds
        BY <2>2, <3>1 DEF Slot, TypeOK, Entries
      <3> QED BY <2>1, <2>2, <3>2 DEF TypeOK, Mapping, Present
    <2>3. ASSUME NEW f \in FrameIds, pmm_alloc_block(f), table' = f,
                 tab' = [[tab EXCEPT ![f] = Cleared(f)]
                           EXCEPT ![table][virt[level]] = [frame |-> f, flags |-> Flags]]
          PROVE  Basic' /\ (oom => oom')
      <3>1. [frame |-> f, flags |-> Flags] \in Entries
        BY DEF Entries
      <3>2. tab' \in [FrameIds -> [Index -> Entries]]
        BY <2>3, <3>1, TableTyped DEF TypeOK
      <3> QED BY <2>1, <2>3, <3>2, Request DEF TypeOK, Mapping, Present
    <2> QED BY <1>4, <2>2, <2>3 DEF Descend, pmm
  <1>5. CASE SetEntry
    <2>1. /\ pc = "walk" /\ tab' = [tab EXCEPT ![table][virt[4]] = entry]
          /\ tlb' = [w \in DOMAIN tlb \ {virt} |-> tlb[w]]
          /\ pc' = "idle" /\ virt' = NoPage /\ entry' = Absent /\ level' = 1 /\ table' = cr3
          /\ UNCHANGED <<allocatable, held, oom, calls, cr3>>
      BY <1>5 DEF SetEntry, Flushed, pmm
    <2>2. tab' \in [FrameIds -> [Index -> Entries]]
      BY <2>1 DEF TypeOK
    <2>3. DOMAIN tlb' \subseteq Pages /\ tlb' \in [DOMAIN tlb' -> Entries]
      BY <2>1 DEF TypeOK
    <2> QED BY <1>1, <2>1, <2>2, <2>3 DEF TypeOK, Mapping
  <1>6. ASSUME NEW v \in Pages, Touch(v) PROVE Basic' /\ (oom => oom')
    <2>1. /\ pc = "idle" /\ tlb' = [w \in DOMAIN tlb \cup {v} |-> IF w = v THEN Walk(v) ELSE tlb[w]]
          /\ UNCHANGED <<allocatable, held, oom, calls, pc, cr3, tab, virt, entry, level, table>>
      BY <1>6 DEF Touch, pmm, walk
    <2>2. Walk(v) \in Entries
      BY WalkIs, Found DEF TypeOK
    <2>3. DOMAIN tlb' \subseteq Pages /\ tlb' \in [DOMAIN tlb' -> Entries]
      BY <2>1, <2>2 DEF TypeOK
    <2> QED BY <2>1, <2>3 DEF TypeOK, Mapping
  <1>7. CASE UNCHANGED vars
    BY <1>7 DEF vars, pmm, walk, TypeOK, Mapping, Init
  <1> QED BY <1>2, <1>3, <1>4, <1>5, <1>6, <1>7 DEF Next, Booted

-----------------------------------------------------------------------------

-----------------------------------------------------------------------------
(* The tree: what a page passes, and what the two changes do to it.        *)

\* A page passes one table of each level.
LEMMA Route ==
  ASSUME NEW T, NEW r, NEW lev, Linked(T, r, lev), NEW v \in Pages
  PROVE  /\ r \in DOMAIN lev /\ lev[r] = 0
         /\ Reaches(T, r, v, 1) =>
              Pml4e(T, r, v).frame \in DOMAIN lev /\ lev[Pml4e(T, r, v).frame] = 1
         /\ Reaches(T, r, v, 2) =>
              Pdpte(T, r, v).frame \in DOMAIN lev /\ lev[Pdpte(T, r, v).frame] = 2
         /\ Reaches(T, r, v, 3) =>
              Pde(T, r, v).frame \in DOMAIN lev /\ lev[Pde(T, r, v).frame] = 3
  <1>1. r \in DOMAIN lev /\ lev[r] = 0
    BY DEF Linked
  <1>2. \A f \in DOMAIN lev, i \in Index :
          lev[f] < 3 /\ Present(T[f][i]) =>
            T[f][i].frame \in DOMAIN lev /\ lev[T[f][i].frame] = lev[f] + 1
    BY DEF Linked, Link
  <1>3. v[1] \in Index /\ v[2] \in Index /\ v[3] \in Index
    BY PageIndices
  <1>4. ASSUME Reaches(T, r, v, 1)
        PROVE  Pml4e(T, r, v).frame \in DOMAIN lev /\ lev[Pml4e(T, r, v).frame] = 1
    BY <1>1, <1>2, <1>3, <1>4 DEF Pml4e, Reaches
  <1>5. ASSUME Reaches(T, r, v, 2)
        PROVE  Pdpte(T, r, v).frame \in DOMAIN lev /\ lev[Pdpte(T, r, v).frame] = 2
    <2>1. Reaches(T, r, v, 1) /\ Present(Pdpte(T, r, v))
      BY <1>5 DEF Reaches
    <2> QED BY <1>2, <1>3, <1>4, <2>1 DEF Pdpte
  <1>6. ASSUME Reaches(T, r, v, 3)
        PROVE  Pde(T, r, v).frame \in DOMAIN lev /\ lev[Pde(T, r, v).frame] = 3
    <2>1. Reaches(T, r, v, 2) /\ Present(Pde(T, r, v))
      BY <1>6 DEF Reaches
    <2> QED BY <1>2, <1>3, <1>5, <2>1 DEF Pde
  <1> QED BY <1>1, <1>4, <1>5, <1>6

\* Two pages that end in one table came the same way.
LEMMA SameRoute ==
  ASSUME NEW T, NEW r, NEW lev, Linked(T, r, lev), NEW v \in Pages, NEW w \in Pages,
         Reaches(T, r, v, 3), Reaches(T, r, w, 3),
         Pde(T, r, v).frame = Pde(T, r, w).frame
  PROVE  v[1] = w[1] /\ v[2] = w[2] /\ v[3] = w[3]
  <1>1. \A f, g \in DOMAIN lev, i, j \in Index :
          /\ lev[f] < 3 /\ Present(T[f][i])
          /\ lev[g] < 3 /\ Present(T[g][j])
          /\ T[f][i].frame = T[g][j].frame
          => f = g /\ i = j
    BY DEF Linked, Link
  <1>2. /\ v[1] \in Index /\ v[2] \in Index /\ v[3] \in Index
        /\ w[1] \in Index /\ w[2] \in Index /\ w[3] \in Index
    BY PageIndices
  <1>3. \A u \in {v, w} :
          /\ Present(Pml4e(T, r, u)) /\ Present(Pdpte(T, r, u)) /\ Present(Pde(T, r, u))
          /\ Pml4e(T, r, u).frame \in DOMAIN lev /\ lev[Pml4e(T, r, u).frame] = 1
          /\ Pdpte(T, r, u).frame \in DOMAIN lev /\ lev[Pdpte(T, r, u).frame] = 2
          /\ r \in DOMAIN lev /\ lev[r] = 0
    <2>1. ASSUME NEW u \in Pages, Reaches(T, r, u, 3)
          PROVE  Reaches(T, r, u, 1) /\ Reaches(T, r, u, 2)
      BY <2>1 DEF Reaches
    <2>2. /\ Present(Pml4e(T, r, v)) /\ Present(Pdpte(T, r, v)) /\ Present(Pde(T, r, v))
          /\ Present(Pml4e(T, r, w)) /\ Present(Pdpte(T, r, w)) /\ Present(Pde(T, r, w))
      BY DEF Reaches
    <2> QED BY <2>1, <2>2, Route
  <1>4. Pdpte(T, r, v).frame = Pdpte(T, r, w).frame /\ v[3] = w[3]
    BY <1>1, <1>2, <1>3 DEF Pde
  <1>5. Pml4e(T, r, v).frame = Pml4e(T, r, w).frame /\ v[2] = w[2]
    BY <1>1, <1>2, <1>3, <1>4 DEF Pdpte
  <1>6. v[1] = w[1]
    BY <1>1, <1>2, <1>3, <1>5 DEF Pml4e
  <1> QED BY <1>4, <1>5, <1>6

\* The cleared frame f hangs from entry x of table t, and nothing else changed.
Hung(T, T1, lev, t, x, f) ==
  /\ \A i \in Index : T1[f][i] = Absent
  /\ \A g \in DOMAIN lev, i \in Index : ~ (g = t /\ i = x) => T1[g][i] = T[g][i]
  /\ T1[t][x] = [frame |-> f, flags |-> Flags]

LEMMA Hanging ==
  ASSUME NEW T \in [FrameIds -> [Index -> Entries]], NEW lev, DOMAIN lev \subseteq FrameIds,
         NEW t \in DOMAIN lev, NEW x \in Index, NEW f \in FrameIds \ DOMAIN lev, NEW T1,
         T1 = [[T EXCEPT ![f] = Cleared(f)]
                 EXCEPT ![t][x] = [frame |-> f, flags |-> Flags]]
  PROVE  Hung(T, T1, lev, t, x, f)
  <1>1. t # f /\ t \in FrameIds
    OBVIOUS
  <1>2. \A i \in Index : T1[f][i] = Absent
    BY <1>1 DEF Cleared
  <1>3. \A g \in DOMAIN lev, i \in Index : ~ (g = t /\ i = x) => T1[g][i] = T[g][i]
    BY <1>1
  <1>4. T1[t][x] = [frame |-> f, flags |-> Flags]
    BY <1>1
  <1> QED BY <1>2, <1>3, <1>4 DEF Hung

\* No page is mapped otherwise for it,
LEMMA AddedWalk ==
  ASSUME NEW T \in [FrameIds -> [Index -> Entries]], NEW r, NEW lev, Linked(T, r, lev),
         NEW t \in DOMAIN lev, NEW x \in Index, ~ Present(T[t][x]),
         NEW f \in FrameIds \ DOMAIN lev, NEW T1, Hung(T, T1, lev, t, x, f), NEW v \in Pages
  PROVE  /\ Walked(T1, r, v) = Walked(T, r, v) \/ lev[t] = 3
         /\ Reaches(T, r, v, 1) => Reaches(T1, r, v, 1) /\ Pml4e(T1, r, v) = Pml4e(T, r, v)
         /\ Reaches(T, r, v, 2) => Reaches(T1, r, v, 2) /\ Pdpte(T1, r, v) = Pdpte(T, r, v)
         /\ Reaches(T, r, v, 3) => Reaches(T1, r, v, 3) /\ Pde(T1, r, v) = Pde(T, r, v)
  <1>1. v[1] \in Index /\ v[2] \in Index /\ v[3] \in Index /\ v[4] \in Index
    BY PageIndices
  <1>2. DOMAIN lev \subseteq FrameIds
    BY DEF Linked
  <1>3. /\ \A i \in Index : T1[f][i] = Absent
        /\ \A g \in DOMAIN lev, i \in Index : ~ (g = t /\ i = x) => T1[g][i] = T[g][i]
        /\ T1[t][x].frame = f /\ ~ Present(Absent)
    BY DEF Hung, Present, Absent
  <1>4. \A g \in DOMAIN lev, i \in Index :
          /\ Present(T[g][i]) => T1[g][i] = T[g][i]
          /\ ~ Present(T[g][i]) => ~ Present(T1[g][i]) \/ T1[g][i].frame = f
    BY <1>3
  <1>5. r \in DOMAIN lev
    BY DEF Linked
  <1>6. ASSUME Reaches(T, r, v, 1)
        PROVE  /\ Pml4e(T1, r, v) = Pml4e(T, r, v) /\ Reaches(T1, r, v, 1)
               /\ Pml4e(T, r, v).frame \in DOMAIN lev
    <2>1. Present(Pml4e(T, r, v))
      BY <1>6 DEF Reaches
    <2>2. Pml4e(T1, r, v) = Pml4e(T, r, v)
      BY <1>1, <1>4, <1>5, <2>1 DEF Pml4e
    <2> QED BY <1>6, <2>1, <2>2, Route DEF Reaches
  <1>7. ASSUME Reaches(T, r, v, 2)
        PROVE  /\ Pdpte(T1, r, v) = Pdpte(T, r, v) /\ Reaches(T1, r, v, 2)
               /\ Pdpte(T, r, v).frame \in DOMAIN lev
    <2>1. Present(Pdpte(T, r, v)) /\ Reaches(T, r, v, 1)
      BY <1>7 DEF Reaches
    <2>2. Pdpte(T1, r, v) = Pdpte(T, r, v)
      BY <1>1, <1>4, <1>6, <2>1 DEF Pdpte
    <2> QED BY <1>6, <1>7, <2>1, <2>2, Route DEF Reaches
  <1>8. ASSUME Reaches(T, r, v, 3)
        PROVE  /\ Pde(T1, r, v) = Pde(T, r, v) /\ Reaches(T1, r, v, 3)
               /\ Pde(T, r, v).frame \in DOMAIN lev /\ lev[Pde(T, r, v).frame] = 3
    <2>1. Present(Pde(T, r, v)) /\ Reaches(T, r, v, 2)
      BY <1>8 DEF Reaches
    <2>2. Pde(T1, r, v) = Pde(T, r, v)
      BY <1>1, <1>4, <1>7, <2>1 DEF Pde
    <2> QED BY <1>7, <1>8, <2>1, <2>2, Route DEF Reaches
  <1>9. CASE Reaches(T, r, v, 3)
    <2>1. lev[t] = 3 \/ Pte(T1, r, v) = Pte(T, r, v)
      BY <1>1, <1>3, <1>8, <1>9 DEF Pte
    <2> QED BY <1>6, <1>7, <1>8, <1>9, <2>1 DEF Walked, Reaches
  <1>10. CASE ~ Reaches(T, r, v, 1)
    <2>1. ~ Present(Pml4e(T1, r, v)) \/ Pml4e(T1, r, v).frame = f
      BY <1>1, <1>4, <1>5, <1>10 DEF Pml4e, Reaches
    <2>2. Pml4e(T1, r, v).frame = f => ~ Present(Pdpte(T1, r, v))
      BY <1>1, <1>3 DEF Pdpte
    <2>3. ~ Reaches(T1, r, v, 3) /\ ~ Reaches(T, r, v, 2) /\ ~ Reaches(T, r, v, 3)
      BY <1>10, <2>1, <2>2 DEF Reaches
    <2> QED BY <1>10, <2>3 DEF Walked
  <1>11. CASE Reaches(T, r, v, 1) /\ ~ Reaches(T, r, v, 2)
    <2>1. ~ Present(Pdpte(T, r, v))
      BY <1>11 DEF Reaches
    <2>2. ~ Present(Pdpte(T1, r, v)) \/ Pdpte(T1, r, v).frame = f
      BY <1>1, <1>4, <1>6, <1>11, <2>1 DEF Pdpte
    <2>3. Pdpte(T1, r, v).frame = f => ~ Present(Pde(T1, r, v))
      BY <1>1, <1>3 DEF Pde
    <2>4. ~ Reaches(T1, r, v, 3) /\ ~ Reaches(T, r, v, 3)
      BY <2>1, <2>2, <2>3 DEF Reaches
    <2> QED BY <1>6, <1>11, <2>4 DEF Walked
  <1>12. CASE Reaches(T, r, v, 2) /\ ~ Reaches(T, r, v, 3)
    <2>1. ~ Present(Pde(T, r, v)) /\ Reaches(T, r, v, 1)
      BY <1>12 DEF Reaches
    <2>2. ~ Present(Pde(T1, r, v)) \/ Pde(T1, r, v).frame = f
      BY <1>1, <1>4, <1>7, <1>12, <2>1 DEF Pde
    <2>3. Pde(T1, r, v).frame = f => Pte(T1, r, v) = Absent
      BY <1>1, <1>3 DEF Pte
    <2>4. Walked(T1, r, v) = Absent /\ Walked(T, r, v) = Absent
      BY <1>12, <2>2, <2>3 DEF Walked, Reaches
    <2> QED BY <1>6, <1>7, <1>12, <2>1, <2>4
  <1> QED BY <1>9, <1>10, <1>11, <1>12

\* and the tree is one still.
LevelsAdded(lev, t, f) ==
  [g \in DOMAIN lev \cup {f} |-> IF g = f THEN lev[t] + 1 ELSE lev[g]]

LEMMA AddedLinked ==
  ASSUME NEW T \in [FrameIds -> [Index -> Entries]], NEW r, NEW lev, Linked(T, r, lev),
         NEW t \in DOMAIN lev, NEW x \in Index, lev[t] < 3, ~ Present(T[t][x]),
         NEW f \in FrameIds \ DOMAIN lev, NEW T1, Hung(T, T1, lev, t, x, f), NEW lev1,
         lev1 = LevelsAdded(lev, t, f)
  PROVE  Linked(T1, r, lev1)
  <1>1. DOMAIN lev \subseteq FrameIds
    BY DEF Linked
  <1>2. /\ \A i \in Index : T1[f][i] = Absent
        /\ \A g \in DOMAIN lev, i \in Index : ~ (g = t /\ i = x) => T1[g][i] = T[g][i]
        /\ T1[t][x].frame = f /\ ~ Present(Absent)
    BY DEF Hung, Present, Absent
  <1>3. /\ DOMAIN lev1 = DOMAIN lev \cup {f} /\ lev1[f] = lev[t] + 1
        /\ \A g \in DOMAIN lev : lev1[g] = lev[g] /\ g # f
    BY DEF LevelsAdded
  <1>4. \A g \in DOMAIN lev : lev[g] \in 0..3 /\ (lev[g] = 0 <=> g = r)
    BY DEF Linked
  <1>5. \A g \in DOMAIN lev1, i \in Index :
          Link(T1, lev1, g, i) =>
            /\ g \in DOMAIN lev
            /\ ~ (g = t /\ i = x) => Link(T, lev, g, i) /\ T1[g][i] = T[g][i]
    BY <1>2, <1>3 DEF Link
  <1>6. \A g \in DOMAIN lev, i \in Index :
          Link(T, lev, g, i) => T[g][i].frame \in DOMAIN lev /\ lev[T[g][i].frame] = lev[g] + 1
    BY DEF Linked
  <1>7. ASSUME NEW g \in DOMAIN lev1, NEW i \in Index, Link(T1, lev1, g, i)
        PROVE  T1[g][i].frame \in DOMAIN lev1 /\ lev1[T1[g][i].frame] = lev1[g] + 1
    <2>1. CASE g = t /\ i = x
      BY <1>2, <1>3, <2>1
    <2>2. CASE ~ (g = t /\ i = x)
      <3>1. g \in DOMAIN lev /\ Link(T, lev, g, i) /\ T1[g][i] = T[g][i]
        BY <1>5, <1>7, <2>2
      <3>2. T[g][i].frame \in DOMAIN lev /\ lev[T[g][i].frame] = lev[g] + 1
        BY <1>6, <3>1
      <3> QED BY <1>3, <3>1, <3>2
    <2> QED BY <2>1, <2>2
  <1>8. \A g, h \in DOMAIN lev1, i, j \in Index :
          Link(T1, lev1, g, i) /\ Link(T1, lev1, h, j) /\ T1[g][i].frame = T1[h][j].frame
            => g = h /\ i = j
    <2> TAKE g, h \in DOMAIN lev1, i, j \in Index
    <2> HAVE Link(T1, lev1, g, i) /\ Link(T1, lev1, h, j) /\ T1[g][i].frame = T1[h][j].frame
    <2>1. CASE (g = t /\ i = x) \/ (h = t /\ j = x)
      BY <1>2, <1>5, <1>6, <2>1 DEF Link
    <2>2. CASE ~ (g = t /\ i = x) /\ ~ (h = t /\ j = x)
      <3>1. /\ g \in DOMAIN lev /\ Link(T, lev, g, i) /\ T1[g][i] = T[g][i]
            /\ h \in DOMAIN lev /\ Link(T, lev, h, j) /\ T1[h][j] = T[h][j]
        BY <1>5, <2>2
      <3>2. T[g][i].frame = T[h][j].frame
        BY <3>1
      <3> QED BY <3>1, <3>2 DEF Linked
    <2> QED BY <2>1, <2>2
  <1>9. r \in DOMAIN lev1 /\ DOMAIN lev1 \subseteq FrameIds
    BY <1>1, <1>3 DEF Linked
  <1>10. \A g \in DOMAIN lev1 : lev1[g] \in 0..3 /\ (lev1[g] = 0 <=> g = r)
    BY <1>3, <1>4 DEF Linked
  <1>11. \A g \in DOMAIN lev1, i \in Index :
           Link(T1, lev1, g, i) =>
             T1[g][i].frame \in DOMAIN lev1 /\ lev1[T1[g][i].frame] = lev1[g] + 1
    BY <1>7
  <1> QED BY <1>8, <1>9, <1>10, <1>11 DEF Linked

\* Entry x of table t is e now, and nothing else changed.
Entered(T, T1, lev, t, x, e) ==
  /\ \A g \in DOMAIN lev, i \in Index : ~ (g = t /\ i = x) => T1[g][i] = T[g][i]
  /\ T1[t][x] = e

LEMMA Entering ==
  ASSUME NEW T \in [FrameIds -> [Index -> Entries]], NEW lev, DOMAIN lev \subseteq FrameIds,
         NEW t \in DOMAIN lev, NEW x \in Index, NEW e
  PROVE  Entered(T, [T EXCEPT ![t][x] = e], lev, t, x, e)
  BY DEF Entered

\* Entry x of table t is that of page w.
EntryOf(T, r, w, t, x) == Reaches(T, r, w, 3) /\ t = Pde(T, r, w).frame /\ x = w[4]

\* An entry of the last table of a page changes that page and no other.
LEMMA EnteredWalk ==
  ASSUME NEW T, NEW r, NEW lev, Linked(T, r, lev), NEW w \in Pages,
         NEW t, NEW x, EntryOf(T, r, w, t, x),
         NEW T1, NEW e, Entered(T, T1, lev, t, x, e), NEW v \in Pages
  PROVE  /\ v = w => Walked(T1, r, v) = e
         /\ v # w => Walked(T1, r, v) = Walked(T, r, v)
  <1>1. v[1] \in Index /\ v[2] \in Index /\ v[3] \in Index /\ v[4] \in Index
    BY PageIndices
  <1>2. t = Pde(T, r, w).frame /\ Reaches(T, r, w, 3) /\ x = w[4]
    BY DEF EntryOf
  <1>3. /\ t \in DOMAIN lev /\ lev[t] = 3 /\ r \in DOMAIN lev /\ lev[r] = 0
        /\ \A g \in DOMAIN lev, i \in Index : ~ (g = t /\ i = x) => T1[g][i] = T[g][i]
        /\ T1[t][x] = e
    BY <1>2, Route DEF Entered
  <1>4. \A g \in DOMAIN lev, i \in Index : lev[g] < 3 => T1[g][i] = T[g][i]
    BY <1>3
  <1>5. Pml4e(T1, r, v) = Pml4e(T, r, v)
    BY <1>1, <1>3, <1>4 DEF Pml4e
  <1>6. ASSUME Reaches(T, r, v, 1)
        PROVE  Pdpte(T1, r, v) = Pdpte(T, r, v)
    BY <1>1, <1>4, <1>5, <1>6, Route DEF Pdpte
  <1>7. ASSUME Reaches(T, r, v, 2)
        PROVE  Pde(T1, r, v) = Pde(T, r, v)
    <2>1. Reaches(T, r, v, 1)
      BY <1>7 DEF Reaches
    <2> QED BY <1>1, <1>4, <1>6, <1>7, <2>1, Route DEF Pde
  <1>8. Reaches(T1, r, v, 3) <=> Reaches(T, r, v, 3)
    BY <1>5, <1>6, <1>7 DEF Reaches
  <1>9. CASE ~ Reaches(T, r, v, 3)
    BY <1>2, <1>8, <1>9 DEF Walked
  <1>10. CASE Reaches(T, r, v, 3)
    <2>1. Pde(T1, r, v) = Pde(T, r, v)
      BY <1>7, <1>10 DEF Reaches
    <2>2. Pde(T, r, v).frame \in DOMAIN lev
      BY <1>10, Route
    <2>3. Walked(T1, r, v) = Pte(T1, r, v) /\ Walked(T, r, v) = Pte(T, r, v)
      BY <1>8, <1>10 DEF Walked
    <2>4. CASE v = w
      BY <1>2, <1>3, <2>1, <2>3, <2>4 DEF Pte
    <2>5. CASE v # w
      <3>1. ~ (Pde(T, r, v).frame = t /\ v[4] = x)
        <4>1. ASSUME Pde(T, r, v).frame = t, v[4] = x PROVE FALSE
          <5>1. v[1] = w[1] /\ v[2] = w[2] /\ v[3] = w[3]
            BY <1>2, <1>10, <4>1, SameRoute
          <5>2. v = <<v[1], v[2], v[3], v[4]>> /\ w = <<w[1], w[2], w[3], w[4]>>
            BY PageIndices
          <5> QED BY <1>2, <2>5, <4>1, <5>1, <5>2
        <4> QED BY <4>1
      <3> QED BY <1>1, <1>3, <2>1, <2>2, <2>3, <2>5, <3>1 DEF Pte
    <2> QED BY <2>4, <2>5
  <1> QED BY <1>9, <1>10

LEMMA EnteredLinked ==
  ASSUME NEW T, NEW r, NEW lev, Linked(T, r, lev), NEW t \in DOMAIN lev, lev[t] = 3,
         NEW x \in Index, NEW e, NEW T1, Entered(T, T1, lev, t, x, e)
  PROVE  Linked(T1, r, lev)
  <1>1. \A g \in DOMAIN lev, i \in Index : lev[g] < 3 => T1[g][i] = T[g][i]
    BY DEF Entered
  <1>2. \A g \in DOMAIN lev, i \in Index :
          Link(T1, lev, g, i) => Link(T, lev, g, i) /\ T1[g][i] = T[g][i]
    BY <1>1 DEF Link
  <1>3. /\ r \in DOMAIN lev /\ DOMAIN lev \subseteq FrameIds
        /\ \A f \in DOMAIN lev : lev[f] \in 0..3 /\ (lev[f] = 0 <=> f = r)
    BY DEF Linked
  <1>4. \A f \in DOMAIN lev, i \in Index :
          Link(T, lev, f, i) => T[f][i].frame \in DOMAIN lev /\ lev[T[f][i].frame] = lev[f] + 1
    BY DEF Linked
  <1>5. \A f \in DOMAIN lev, i \in Index :
          Link(T1, lev, f, i) => T1[f][i].frame \in DOMAIN lev /\ lev[T1[f][i].frame] = lev[f] + 1
    <2> TAKE f \in DOMAIN lev, i \in Index
    <2> HAVE Link(T1, lev, f, i)
    <2>1. Link(T, lev, f, i) /\ T1[f][i] = T[f][i]
      BY <1>2
    <2> QED BY <1>4, <2>1
  <1>6. \A f, g \in DOMAIN lev, i, j \in Index :
          Link(T1, lev, f, i) /\ Link(T1, lev, g, j) /\ T1[f][i].frame = T1[g][j].frame
            => f = g /\ i = j
    <2> TAKE f, g \in DOMAIN lev, i, j \in Index
    <2> HAVE Link(T1, lev, f, i) /\ Link(T1, lev, g, j) /\ T1[f][i].frame = T1[g][j].frame
    <2>1. /\ Link(T, lev, f, i) /\ T1[f][i] = T[f][i]
          /\ Link(T, lev, g, j) /\ T1[g][j] = T[g][j]
      BY <1>2
    <2>2. T[f][i].frame = T[g][j].frame
      BY <2>1
    <2> QED BY <2>1, <2>2 DEF Linked
  <1> QED BY <1>3, <1>5, <1>6 DEF Linked

-----------------------------------------------------------------------------
(* The kernel's own root.                                                  *)

\* Table g of the bootloader's tree has an entry i in use.
KernelSlot(b, g, i) ==
  /\ \/ g = b.root /\ i \in KernelHalf
     \/ g \in DOMAIN b.levels /\ b.levels[g] < 3 /\ i \in Index
  /\ Present(b.tables[g][i])

\* The bootloader's tree, entry by entry.
LEMMA BootTree ==
  ASSUME NEW b \in Boots
  PROVE  /\ b.levels \in [DOMAIN b.levels -> 1..3]
         /\ DOMAIN b.levels \subseteq FrameIds \ (b.allocatable \cup {b.root})
         /\ \A g, i : KernelSlot(b, g, i) =>
              /\ b.tables[g][i].frame \in DOMAIN b.levels
              /\ g = b.root => b.levels[b.tables[g][i].frame] = 1
              /\ g # b.root => b.levels[b.tables[g][i].frame] = b.levels[g] + 1
         /\ \A g, h, i, j : KernelSlot(b, g, i) /\ KernelSlot(b, h, j)
                            /\ b.tables[g][i].frame = b.tables[h][j].frame => g = h /\ i = j
         /\ \A g \in DOMAIN b.levels, i \in Index :
              b.levels[g] = 3 => "U" \notin b.tables[g][i].flags
         /\ \A k \in 1..Len(b.calls) : b.calls[k].phys \notin b.allocatable \cup DOMAIN b.levels
  <1> DEFINE at(s) == b.tables[s[1]][s[2]]
             inner == {f \in DOMAIN b.levels : b.levels[f] < 3}
             slots == {s \in ({b.root} \X KernelHalf) \cup (inner \X Index) : Present(at(s))}
  <1>1. KernelTree(b)
    BY Machine
  <1>2. /\ b.levels \in [DOMAIN b.levels -> 1..3]
        /\ DOMAIN b.levels \subseteq FrameIds \ (b.allocatable \cup {b.root})
        /\ \A k \in 1..Len(b.calls) : b.calls[k].phys \notin b.allocatable \cup DOMAIN b.levels
    BY <1>1 DEF KernelTree
  <1>3. \A s \in slots :
          /\ at(s).frame \in DOMAIN b.levels
          /\ b.levels[at(s).frame] = IF s[1] = b.root THEN 1 ELSE b.levels[s[1]] + 1
    BY <1>1 DEF KernelTree
  <1>4. \A s, t \in slots : at(s).frame = at(t).frame => s = t
    BY <1>1 DEF KernelTree
  <1>5. \A f \in DOMAIN b.levels \ inner, i \in Index : "U" \notin b.tables[f][i].flags
    BY <1>1 DEF KernelTree
  <1>6. \A g \in DOMAIN b.levels, i \in Index :
          b.levels[g] = 3 => "U" \notin b.tables[g][i].flags
    BY <1>2, <1>5
  <1>7. \A g, i : KernelSlot(b, g, i) =>
          <<g, i>> \in slots /\ at(<<g, i>>) = b.tables[g][i] /\ <<g, i>>[1] = g
    BY DEF KernelSlot
  <1> HIDE DEF slots, at
  <1>8. ASSUME NEW g, NEW i, KernelSlot(b, g, i)
        PROVE  /\ b.tables[g][i].frame \in DOMAIN b.levels
               /\ g = b.root => b.levels[b.tables[g][i].frame] = 1
               /\ g # b.root => b.levels[b.tables[g][i].frame] = b.levels[g] + 1
    <2>1. <<g, i>> \in slots /\ at(<<g, i>>) = b.tables[g][i] /\ <<g, i>>[1] = g
      BY <1>7, <1>8
    <2> QED BY <1>3, <2>1
  <1>9. ASSUME NEW g, NEW h, NEW i, NEW j, KernelSlot(b, g, i), KernelSlot(b, h, j),
               b.tables[g][i].frame = b.tables[h][j].frame
        PROVE  g = h /\ i = j
    <2>1. /\ <<g, i>> \in slots /\ at(<<g, i>>) = b.tables[g][i]
          /\ <<h, j>> \in slots /\ at(<<h, j>>) = b.tables[h][j]
      BY <1>7, <1>9
    <2>2. <<g, i>> = <<h, j>>
      BY <1>4, <1>9, <2>1
    <2> QED BY <2>2
  <1> QED BY <1>2, <1>6, <1>8, <1>9

\* The tables after the switch: a copy of the kernel's half of the root, and
\* under it what the bootloader made.
Switched(b, T1, f) ==
  /\ \A i \in KernelHalf : T1[f][i] = b.tables[b.root][i]
  /\ \A i \in Index \ KernelHalf : T1[f][i] = Absent
  /\ \A g \in DOMAIN b.levels : T1[g] = b.tables[g]

LevelsOf(b, f) ==
  [g \in {f} \cup DOMAIN b.levels |-> IF g = f THEN 0 ELSE b.levels[g]]

LEMMA SwitchedLinked ==
  ASSUME NEW b \in Boots, NEW f \in b.allocatable, NEW T1, Switched(b, T1, f),
         NEW lev, lev = LevelsOf(b, f)
  PROVE  /\ Linked(T1, f, lev)
         /\ \A g \in DOMAIN lev, i \in Index : ~ User(T1, lev, g, i)
  <1> DEFINE old(g) == IF g = f THEN b.root ELSE g
  <1>1. f \in FrameIds /\ f # b.root /\ b.root \notin DOMAIN b.levels /\ f \notin DOMAIN b.levels
    BY Machine, BootTree
  <1>2. /\ DOMAIN lev = {f} \cup DOMAIN b.levels /\ lev[f] = 0
        /\ \A g \in DOMAIN b.levels : lev[g] = b.levels[g] /\ b.levels[g] \in 1..3
    BY <1>1, BootTree DEF LevelsOf
  <1>3. \A g \in DOMAIN lev : lev[g] \in 0..3 /\ (lev[g] = 0 <=> g = f)
    BY <1>1, <1>2
  <1>4. ~ Present(Absent) /\ "U" \notin Absent.flags
    BY DEF Present, Absent
  <1>5. ASSUME NEW g \in DOMAIN lev, NEW i \in Index, Link(T1, lev, g, i)
        PROVE  /\ KernelSlot(b, old(g), i) /\ T1[g][i] = b.tables[old(g)][i]
               /\ old(g) = b.root <=> g = f
    <2>1. lev[g] < 3 /\ Present(T1[g][i])
      BY <1>5 DEF Link
    <2>2. CASE g = f
      <3>1. i \in KernelHalf /\ T1[g][i] = b.tables[b.root][i]
        BY <1>4, <2>1, <2>2 DEF Switched
      <3> QED BY <2>1, <2>2, <3>1 DEF KernelSlot
    <2>3. CASE g # f
      <3>1. g \in DOMAIN b.levels /\ b.levels[g] < 3 /\ T1[g] = b.tables[g]
        BY <1>2, <2>1, <2>3 DEF Switched
      <3> QED BY <1>1, <2>1, <2>3, <3>1 DEF KernelSlot
    <2> QED BY <2>2, <2>3
  <1>6. \A g, i : KernelSlot(b, g, i) =>
          /\ b.tables[g][i].frame \in DOMAIN b.levels
          /\ g = b.root => b.levels[b.tables[g][i].frame] = 1
          /\ g # b.root => b.levels[b.tables[g][i].frame] = b.levels[g] + 1
    BY BootTree
  <1>7. \A g, h, i, j : KernelSlot(b, g, i) /\ KernelSlot(b, h, j)
                        /\ b.tables[g][i].frame = b.tables[h][j].frame => g = h /\ i = j
    BY BootTree
  <1>8. \A g \in DOMAIN lev, i \in Index :
          Link(T1, lev, g, i) =>
            T1[g][i].frame \in DOMAIN lev /\ lev[T1[g][i].frame] = lev[g] + 1
    <2> TAKE g \in DOMAIN lev, i \in Index
    <2> HAVE Link(T1, lev, g, i)
    <2>1. /\ KernelSlot(b, old(g), i) /\ T1[g][i] = b.tables[old(g)][i]
          /\ old(g) = b.root <=> g = f
      BY <1>5
    <2>2. PICK h, t : h = old(g) /\ t = b.tables[h][i].frame
      OBVIOUS
    <2>3. KernelSlot(b, h, i) /\ t = T1[g][i].frame /\ (h = b.root <=> g = f)
      BY <2>1, <2>2
    <2>4. /\ t \in DOMAIN b.levels
          /\ g = f => b.levels[t] = 1
          /\ g # f => b.levels[t] = b.levels[h] + 1
      <3>1. /\ b.tables[h][i].frame \in DOMAIN b.levels
            /\ h = b.root => b.levels[b.tables[h][i].frame] = 1
            /\ h # b.root => b.levels[b.tables[h][i].frame] = b.levels[h] + 1
        BY <1>6, <2>3
      <3>2. t = b.tables[h][i].frame
        BY <2>2
      <3> QED BY <2>3, <3>1, <3>2
    <2>5. g # f => h = g
      BY <2>2
    <2>6. t \in DOMAIN lev /\ lev[t] = lev[g] + 1
      BY <1>2, <2>4, <2>5
    <2> QED BY <2>3, <2>6
  <1>9. \A g, h \in DOMAIN lev, i, j \in Index :
          Link(T1, lev, g, i) /\ Link(T1, lev, h, j) /\ T1[g][i].frame = T1[h][j].frame
            => g = h /\ i = j
    <2> TAKE g, h \in DOMAIN lev, i, j \in Index
    <2> HAVE Link(T1, lev, g, i) /\ Link(T1, lev, h, j) /\ T1[g][i].frame = T1[h][j].frame
    <2>1. /\ KernelSlot(b, old(g), i) /\ T1[g][i] = b.tables[old(g)][i]
          /\ old(g) = b.root <=> g = f
      BY <1>5
    <2>2. /\ KernelSlot(b, old(h), j) /\ T1[h][j] = b.tables[old(h)][j]
          /\ old(h) = b.root <=> h = f
      BY <1>5
    <2>3. old(g) = old(h) /\ i = j
      BY <1>7, <2>1, <2>2
    <2> QED BY <2>1, <2>2, <2>3
  <1>10. ASSUME NEW g \in DOMAIN lev, NEW i \in Index, User(T1, lev, g, i)
         PROVE  FALSE
    <2>1. lev[g] = 3 /\ "U" \in T1[g][i].flags
      BY <1>10 DEF User
    <2>2. g \in DOMAIN b.levels /\ b.levels[g] = 3
      BY <1>2, <2>1
    <2>3. "U" \notin b.tables[g][i].flags
      BY <2>2, BootTree
    <2> QED BY <2>1, <2>2, <2>3 DEF Switched
  <1>11. f \in DOMAIN lev /\ DOMAIN lev \subseteq FrameIds
    BY <1>1, <1>2, BootTree
  <1>12. Linked(T1, f, lev)
    BY <1>3, <1>8, <1>9, <1>11 DEF Linked
  <1> QED BY <1>10, <1>12

\* The kernel's half of the mapping survives, and nothing else.
LEMMA SwitchedWalk ==
  ASSUME NEW b \in Boots, NEW f \in b.allocatable, NEW T1, Switched(b, T1, f),
         NEW T, NEW v \in Pages, \A g \in FrameIds \ b.allocatable : T[g] = b.tables[g]
  PROVE  /\ v[1] \in KernelHalf => Walked(T1, f, v) = Walked(T, b.root, v)
         /\ v[1] \notin KernelHalf => Walked(T1, f, v) = Absent
  <1>1. v[1] \in Index /\ v[2] \in Index /\ v[3] \in Index /\ v[4] \in Index
    BY PageIndices
  <1>2. ASSUME v[1] \notin KernelHalf
        PROVE  Walked(T1, f, v) = Absent
    <2>1. Pml4e(T1, f, v) = Absent
      BY <1>1, <1>2 DEF Switched, Pml4e
    <2> QED BY <2>1 DEF Walked, Reaches, Present, Absent
  <1>3. ASSUME v[1] \in KernelHalf
        PROVE  Walked(T1, f, v) = Walked(T, b.root, v)
    <2>1. \A g \in DOMAIN b.levels : T1[g] = T[g] /\ T[g] = b.tables[g]
      BY BootTree DEF Switched
    <2>2. T[b.root] = b.tables[b.root]
      BY Machine
    <2>3. \A g, i : KernelSlot(b, g, i) =>
            /\ b.tables[g][i].frame \in DOMAIN b.levels
            /\ g = b.root => b.levels[b.tables[g][i].frame] = 1
            /\ g # b.root => b.levels[b.tables[g][i].frame] = b.levels[g] + 1
      BY BootTree
    <2>4. b.root \notin DOMAIN b.levels
      BY BootTree
    <2>5. Pml4e(T1, f, v) = Pml4e(T, b.root, v) /\ Pml4e(T, b.root, v) = b.tables[b.root][v[1]]
      BY <1>3, <2>2 DEF Switched, Pml4e
    <2>6. CASE ~ Present(Pml4e(T, b.root, v))
      BY <2>5, <2>6 DEF Walked, Reaches
    <2>7. CASE Present(Pml4e(T, b.root, v))
      <3>1. /\ Pml4e(T, b.root, v).frame \in DOMAIN b.levels
            /\ b.levels[Pml4e(T, b.root, v).frame] = 1
        <4>1. KernelSlot(b, b.root, v[1])
          BY <1>3, <2>5, <2>7 DEF KernelSlot
        <4>2. /\ b.tables[b.root][v[1]].frame \in DOMAIN b.levels
              /\ b.levels[b.tables[b.root][v[1]].frame] = 1
          BY <2>3, <4>1
        <4> QED BY <2>5, <4>2
      <3>2. /\ Pdpte(T1, f, v) = Pdpte(T, b.root, v)
            /\ Pdpte(T, b.root, v) = b.tables[Pml4e(T, b.root, v).frame][v[2]]
        BY <2>1, <2>5, <3>1 DEF Pdpte
      <3>3. CASE ~ Present(Pdpte(T, b.root, v))
        BY <3>2, <3>3 DEF Walked, Reaches
      <3>4. CASE Present(Pdpte(T, b.root, v))
        <4>1. /\ Pdpte(T, b.root, v).frame \in DOMAIN b.levels
              /\ b.levels[Pdpte(T, b.root, v).frame] = 2
          <5>1. KernelSlot(b, Pml4e(T, b.root, v).frame, v[2])
            BY <1>1, <3>1, <3>2, <3>4 DEF KernelSlot
          <5>2. PICK t : t = Pml4e(T, b.root, v).frame
            OBVIOUS
          <5>3. KernelSlot(b, t, v[2]) /\ t # b.root /\ b.levels[t] = 1
            BY <2>4, <3>1, <5>1, <5>2
          <5>4. /\ b.tables[t][v[2]].frame \in DOMAIN b.levels
                /\ b.levels[b.tables[t][v[2]].frame] = b.levels[t] + 1
            BY <2>3, <5>3
          <5>5. Pdpte(T, b.root, v) = b.tables[t][v[2]]
            BY <3>2, <5>2
          <5> QED BY <5>3, <5>4, <5>5
        <4>2. /\ Pde(T1, f, v) = Pde(T, b.root, v)
              /\ Pde(T, b.root, v) = b.tables[Pdpte(T, b.root, v).frame][v[3]]
          BY <2>1, <3>2, <4>1 DEF Pde
        <4>3. CASE ~ Present(Pde(T, b.root, v))
          BY <4>2, <4>3 DEF Walked, Reaches
        <4>4. CASE Present(Pde(T, b.root, v))
          <5>1. KernelSlot(b, Pdpte(T, b.root, v).frame, v[3])
            BY <1>1, <4>1, <4>2, <4>4 DEF KernelSlot
          <5>2. Pde(T, b.root, v).frame \in DOMAIN b.levels
            BY <2>3, <4>2, <5>1
          <5>3. Pte(T1, f, v) = Pte(T, b.root, v)
            BY <2>1, <4>2, <5>2 DEF Pte
          <5> QED BY <2>5, <3>2, <4>2, <5>3 DEF Walked, Reaches
        <4> QED BY <4>3, <4>4
      <3> QED BY <3>3, <3>4
    <2> QED BY <2>6, <2>7
  <1> QED BY <1>2, <1>3

-----------------------------------------------------------------------------
(* The steps, while frames last.                                           *)

LEMMA InitializeStep ==
  ASSUME Basic, vmm_initialize, ~ oom'
  PROVE  /\ Shaped'
         /\ tlb' = [v \in {} |-> Absent]
         /\ pc = "start" /\ pc' = "idle"
         /\ \A v \in Pages : /\ v[1] \in KernelHalf => Walk(v)' = Walk(v)
                             /\ v[1] \notin KernelHalf => Walk(v)' = Absent
  <1>1. PICK f \in FrameIds :
          /\ pmm_alloc_block(f) /\ tab' = [tab EXCEPT ![f] = NewRoot] /\ cr3' = f
          /\ tlb' = [v \in {} |-> Absent] /\ pc' = "idle" /\ pc = "start"
          /\ UNCHANGED <<calls, virt, entry, level, table>>
    BY DEF vmm_initialize, walk
  <1>2. PICK b \in Boots :
          /\ allocatable = b.allocatable /\ held = {} /\ calls = b.calls
          /\ cr3 = b.root
          /\ tab = [g \in FrameIds |-> IF g \in b.allocatable THEN Leftover ELSE b.tables[g]]
    BY <1>1 DEF Basic, Init
  <1>3. /\ f \in b.allocatable /\ allocatable' = b.allocatable /\ held' = {f}
    BY <1>1, <1>2, Request DEF Basic
  <1>4. \A g \in FrameIds \ b.allocatable : tab[g] = b.tables[g]
    BY <1>2
  <1>5. /\ b.root \in FrameIds \ b.allocatable
        /\ DOMAIN b.levels \subseteq FrameIds \ (b.allocatable \cup {b.root})
    BY Machine, BootTree
  <1>6. Switched(b, tab', f)
    <2>1. tab' \in [FrameIds -> [Index -> Entries]]
      BY <1>1, TableTyped DEF TypeOK, Basic
    <2>2. tab'[f] = [i \in Index |-> IF i \in KernelHalf THEN b.tables[b.root][i] ELSE Absent]
      BY <1>1, <1>2, <1>4, <1>5 DEF NewRoot
    <2>3. \A i \in KernelHalf : tab'[f][i] = b.tables[b.root][i]
      BY <2>2, VmmAssumption
    <2>4. \A i \in Index \ KernelHalf : tab'[f][i] = Absent
      BY <2>2
    <2>5. \A g \in DOMAIN b.levels : tab'[g] = b.tables[g]
      BY <1>1, <1>2, <1>3, <1>4, <1>5
    <2> QED BY <2>3, <2>4, <2>5 DEF Switched
  <1>7. \A v \in Pages : /\ v[1] \in KernelHalf => Walk(v)' = Walk(v)
                         /\ v[1] \notin KernelHalf => Walk(v)' = Absent
    <2> TAKE v \in Pages
    <2>1. /\ v[1] \in KernelHalf => Walked(tab', f, v) = Walked(tab, b.root, v)
          /\ v[1] \notin KernelHalf => Walked(tab', f, v) = Absent
      BY <1>3, <1>4, <1>6, SwitchedWalk
    <2> QED BY <1>1, <1>2, <2>1, WalkIs
  <1>8. Shaped'
    <2> DEFINE lev == LevelsOf(b, f)
    <2>1. /\ Linked(tab', cr3', lev)
          /\ \A g \in DOMAIN lev, i \in Index : ~ User(tab', lev, g, i)
      BY <1>1, <1>3, <1>6, SwitchedLinked
    <2>2. DOMAIN lev = {f} \cup DOMAIN b.levels
      BY DEF LevelsOf
    <2> HIDE DEF lev
    <2>3. Tree(lev)'
      BY <1>3, <1>5, <2>1, <2>2 DEF Tree
    <2>4. \A k \in 1..Len(b.calls) : b.calls[k].phys \notin b.allocatable \cup DOMAIN b.levels
      BY BootTree
    <2>5. \A k \in 1..Len(calls') : calls'[k].phys \notin allocatable' \cup DOMAIN lev
      BY <1>1, <1>2, <1>3, <2>2, <2>4
    <2>6. Apart(lev)'
      BY <1>1, <2>1, <2>5 DEF Apart
    <2>7. OnPath(lev)'
      BY <1>1 DEF OnPath
    <2> QED BY <2>3, <2>6, <2>7 DEF Shaped
  <1> QED BY <1>1, <1>7, <1>8

LEMMA MapPageStep ==
  ASSUME Basic, Shaped, vmm_map_page, ~ oom'
  PROVE  Shaped' /\ ~ oom /\ UNCHANGED <<tab, cr3, tlb>> /\ pc' # "start" /\ pc # "start"
  <1> DEFINE c == Head(calls)
  <1>1. PICK f \in FrameIds :
          /\ IF c.phys = 0 THEN pmm_alloc_block(f)
                           ELSE f = c.phys /\ UNCHANGED <<allocatable, held, oom>>
          /\ virt' = c.virt /\ entry' = [frame |-> f, flags |-> c.flags \cup {"P"}]
          /\ calls' = Tail(calls) /\ calls # <<>> /\ level' = 1 /\ table' = cr3
          /\ pc' = "walk" /\ pc = "idle" /\ UNCHANGED <<cr3, tab, tlb>>
    BY DEF vmm_map_page, pmm
  <1>2. PICK lev : Tree(lev) /\ Apart(lev) /\ OnPath(lev)
    BY DEF Shaped
  <1>3. calls \in Seq(Calls) /\ c = calls[1] /\ 1 \in 1..Len(calls)
    BY <1>1 DEF Basic, TypeOK
  <1>4. c.phys \notin allocatable \cup DOMAIN lev
    BY <1>2, <1>3 DEF Apart
  <1>5. /\ allocatable' = allocatable /\ ~ oom /\ held \subseteq allocatable
        /\ \/ f \in allocatable /\ f \notin held /\ held' = held \cup {f}
           \/ f = c.phys /\ held' = held
    <2>1. TypeOK
      BY DEF Basic
    <2>2. CASE c.phys = 0
      BY <1>1, <2>1, <2>2, Request DEF TypeOK
    <2>3. CASE c.phys # 0
      BY <1>1, <2>1, <2>3 DEF TypeOK
    <2> QED BY <2>2, <2>3
  <1>6. /\ Linked(tab, cr3, lev)
        /\ \A g \in DOMAIN lev : g \in allocatable => g \in held
    BY <1>2 DEF Tree
  <1>7. f \notin DOMAIN lev /\ (f \in allocatable => f \in held')
    BY <1>4, <1>5, <1>6
  <1>8. Tree(lev)'
    BY <1>1, <1>5, <1>6 DEF Tree
  <1>9. \A g \in DOMAIN lev, i \in Index :
          User(tab, lev, g, i) =>
            /\ ForProgram(lev, tab[g][i].frame)
            /\ f \in held' => tab[g][i].frame # f
            /\ tab[g][i].frame \in held' => tab[g][i].frame \in held
    <2> TAKE g \in DOMAIN lev, i \in Index
    <2> HAVE User(tab, lev, g, i)
    <2>1. ForProgram(lev, tab[g][i].frame)
      BY <1>2 DEF Apart
    <2>2. tab[g][i].frame \in allocatable => tab[g][i].frame \in held
      BY <2>1 DEF ForProgram
    <2> QED BY <1>4, <1>5, <2>1, <2>2
  <1>10. Apart(lev)'
    <2>1. \A g \in DOMAIN lev, i \in Index :
            User(tab', lev, g, i) =>
              /\ tab'[g][i].frame \notin DOMAIN lev
              /\ tab'[g][i].frame \in allocatable' => tab'[g][i].frame \in held'
      BY <1>1, <1>5, <1>9 DEF ForProgram
    <2>2. \A g, h \in DOMAIN lev, i, j \in Index :
            /\ User(tab', lev, g, i) /\ User(tab', lev, h, j)
            /\ tab'[g][i].frame = tab'[h][j].frame /\ tab'[g][i].frame \in held'
            => g = h /\ i = j
      <3> TAKE g, h \in DOMAIN lev, i, j \in Index
      <3> HAVE /\ User(tab', lev, g, i) /\ User(tab', lev, h, j)
               /\ tab'[g][i].frame = tab'[h][j].frame /\ tab'[g][i].frame \in held'
      <3>1. User(tab, lev, g, i) /\ User(tab, lev, h, j) /\ tab' = tab
        BY <1>1
      <3>2. tab[g][i].frame = tab[h][j].frame /\ tab[g][i].frame \in held
        BY <1>9, <3>1
      <3> QED BY <1>2, <3>1, <3>2 DEF Apart
    <2>3. /\ entry'.frame \notin DOMAIN lev
          /\ entry'.frame \in allocatable' => entry'.frame \in held'
      BY <1>1, <1>5, <1>7
    <2>4. \A g \in DOMAIN lev, i \in Index :
            User(tab', lev, g, i) /\ entry'.frame \in held' => tab'[g][i].frame # entry'.frame
      BY <1>1, <1>9
    <2>5. \A k \in 1..Len(calls') : calls'[k].phys \notin allocatable' \cup DOMAIN lev
      <3>1. \A k \in 1..Len(calls') : k + 1 \in 1..Len(calls) /\ calls'[k] = calls[k + 1]
        BY <1>1, <1>3
      <3> QED BY <1>2, <1>5, <3>1 DEF Apart
    <2> QED BY <2>1, <2>2, <2>3, <2>4, <2>5 DEF Apart, ForProgram
  <1>11. OnPath(lev)'
    <2>1. cr3 \in DOMAIN lev /\ lev[cr3] = 0
      BY <1>6 DEF Linked
    <2> QED BY <1>1, <2>1 DEF OnPath, At, Reaches
  <1> QED BY <1>1, <1>5, <1>8, <1>10, <1>11 DEF Shaped

\* The slot the walk is at leads its page one table down.
LEMMA Down ==
  ASSUME NEW T, NEW r, NEW lev, Linked(T, r, lev), NEW v \in Pages,
         NEW n \in 0..2, NEW m, m = n + 1, NEW t, At(T, r, lev, v, n, t),
         NEW u, u = T[t][v[m]].frame, Present(T[t][v[m]])
  PROVE  At(T, r, lev, v, m, u)
  <1>1. v[m] \in Index
    BY PageIndices
  <1>2. lev[t] = n /\ lev[t] < 3 /\ t \in DOMAIN lev
    BY DEF At
  <1>3. u \in DOMAIN lev /\ lev[u] = m
    BY <1>1, <1>2 DEF Linked, Link
  <1>4. CASE n = 0
    <2>1. T[t][v[m]] = Pml4e(T, r, v)
      BY <1>4 DEF At, Pml4e
    <2> QED BY <1>3, <1>4, <2>1 DEF At, Reaches
  <1>5. CASE n = 1
    <2>1. T[t][v[m]] = Pdpte(T, r, v)
      BY <1>5 DEF At, Pdpte
    <2> QED BY <1>3, <1>5, <2>1 DEF At, Reaches
  <1>6. CASE n = 2
    <2>1. T[t][v[m]] = Pde(T, r, v)
      BY <1>6 DEF At, Pde
    <2> QED BY <1>3, <1>6, <2>1 DEF At, Reaches
  <1> QED BY <1>4, <1>5, <1>6

LEMMA DescendStep ==
  ASSUME Basic, Shaped, Descend, ~ oom'
  PROVE  /\ Shaped' /\ ~ oom /\ pc = "walk" /\ pc' = pc /\ tlb' = tlb
         /\ \A v \in Pages : Walk(v)' = Walk(v)
  <1>1. /\ pc = "walk" /\ level \in 1..3 /\ level' = level + 1
        /\ UNCHANGED <<calls, pc, cr3, virt, entry, tlb>>
    BY DEF Descend, Deeper, Basic, TypeOK
  <1>2. virt \in Pages /\ virt[level] \in Index
    BY <1>1, PageIndices DEF Basic, Mapping
  <1>3. PICK lev : Tree(lev) /\ Apart(lev) /\ OnPath(lev)
    BY DEF Shaped
  <1>4. /\ Linked(tab, cr3, lev)
        /\ \A g \in DOMAIN lev : g \in allocatable => g \in held
    BY <1>3 DEF Tree
  <1>5. /\ table \in DOMAIN lev /\ lev[table] = level - 1
        /\ At(tab, cr3, lev, virt, level - 1, table)
        /\ level - 1 \in 0..2 /\ level = level - 1 + 1
    BY <1>1, <1>3 DEF OnPath, At
  <1>6. CASE Present(Slot) /\ table' = Slot.frame /\ UNCHANGED <<allocatable, held, oom, tab>>
    <2>1. At(tab, cr3, lev, virt, level, Slot.frame)
      BY <1>1, <1>2, <1>4, <1>5, <1>6, Down DEF Slot
    <2>2. OnPath(lev)'
      <3>1. level' - 1 = level /\ tab' = tab /\ cr3' = cr3 /\ virt' = virt
        BY <1>1, <1>6
      <3> QED BY <1>6, <2>1, <3>1 DEF OnPath
    <2>3. Tree(lev)' /\ Apart(lev)'
      BY <1>1, <1>3, <1>6 DEF Tree, Apart, ForProgram
    <2>4. \A v \in Pages : Walk(v)' = Walk(v)
      BY <1>1, <1>6, WalkIs
    <2> QED BY <1>1, <1>6, <2>2, <2>3, <2>4 DEF Shaped
  <1>7. ASSUME ~ Present(Slot), NEW f \in FrameIds, pmm_alloc_block(f), table' = f,
               tab' = [[tab EXCEPT ![f] = Cleared(f)]
                         EXCEPT ![table][virt[level]] = [frame |-> f, flags |-> Flags]]
        PROVE  Shaped' /\ ~ oom /\ \A v \in Pages : Walk(v)' = Walk(v)
    <2>1. TypeOK /\ tab \in [FrameIds -> [Index -> Entries]]
      BY DEF Basic, TypeOK
    <2>2. /\ ~ oom /\ f \in allocatable /\ f \notin held /\ held' = held \cup {f}
          /\ allocatable' = allocatable /\ held \subseteq allocatable
      BY <1>7, <2>1, Request DEF TypeOK
    <2>3. f \notin DOMAIN lev /\ DOMAIN lev \subseteq FrameIds
      BY <1>4, <2>2 DEF Linked
    <2> DEFINE x == virt[level]
    <2> PICK lev1 : lev1 = LevelsAdded(lev, table, f)
      OBVIOUS
    <2>4. Hung(tab, tab', lev, table, x, f)
      BY <1>2, <1>5, <1>7, <2>1, <2>3, Hanging
    <2>5. lev[table] < 3 /\ ~ Present(tab[table][x])
      BY <1>1, <1>5, <1>7 DEF Slot
    <2>6. Linked(tab', cr3, lev1)
      BY <1>2, <1>4, <1>5, <2>1, <2>3, <2>4, <2>5, AddedLinked
    <2>7. /\ DOMAIN lev1 = DOMAIN lev \cup {f} /\ lev1[f] = lev[table] + 1
          /\ \A g \in DOMAIN lev : lev1[g] = lev[g]
      BY <2>3 DEF LevelsAdded
    <2>8. \A v \in Pages :
            /\ Walked(tab', cr3, v) = Walked(tab, cr3, v)
            /\ Reaches(tab, cr3, v, 1) =>
                 Reaches(tab', cr3, v, 1) /\ Pml4e(tab', cr3, v) = Pml4e(tab, cr3, v)
            /\ Reaches(tab, cr3, v, 2) =>
                 Reaches(tab', cr3, v, 2) /\ Pdpte(tab', cr3, v) = Pdpte(tab, cr3, v)
      <3> TAKE v \in Pages
      <3>1. Walked(tab', cr3, v) = Walked(tab, cr3, v) \/ lev[table] = 3
        BY <1>2, <1>4, <1>5, <2>1, <2>3, <2>4, <2>5, AddedWalk
      <3>2. /\ Reaches(tab, cr3, v, 1) =>
                 Reaches(tab', cr3, v, 1) /\ Pml4e(tab', cr3, v) = Pml4e(tab, cr3, v)
            /\ Reaches(tab, cr3, v, 2) =>
                 Reaches(tab', cr3, v, 2) /\ Pdpte(tab', cr3, v) = Pdpte(tab, cr3, v)
        BY <1>2, <1>4, <1>5, <2>1, <2>3, <2>4, <2>5, AddedWalk
      <3> QED BY <2>5, <3>1, <3>2
    <2>9. Tree(lev1)'
      <3>1. cr3' = cr3
        BY <1>1
      <3> QED BY <1>4, <2>2, <2>6, <2>7, <3>1 DEF Tree
    <2>10. Apart(lev1)'
      <3>1. \A g \in DOMAIN lev1, i \in Index :
              User(tab', lev1, g, i) =>
                g \in DOMAIN lev /\ User(tab, lev, g, i) /\ tab'[g][i] = tab[g][i]
        <4>1. \A i \in Index : "U" \notin tab'[f][i].flags
          BY <2>4 DEF Hung, Absent
        <4>2. \A g \in DOMAIN lev, i \in Index : lev[g] = 3 => tab'[g][i] = tab[g][i]
          BY <2>4, <2>5 DEF Hung
        <4> QED BY <2>7, <4>1, <4>2 DEF User
      <3>2. \A e : ForProgram(lev, e) =>
              /\ e \notin DOMAIN lev1
              /\ e \in allocatable' => e \in held'
              /\ e \in held' => e \in held
        BY <2>2, <2>7 DEF ForProgram
      <3>3. \A g \in DOMAIN lev, i \in Index :
              User(tab, lev, g, i) => ForProgram(lev, tab[g][i].frame)
        BY <1>3 DEF Apart
      <3>4. /\ ForProgram(lev, entry.frame)
            /\ \A g \in DOMAIN lev, i \in Index :
                 User(tab, lev, g, i) /\ entry.frame \in held => tab[g][i].frame # entry.frame
        BY <1>1, <1>3 DEF Apart
      <3>5. \A g, h \in DOMAIN lev, i, j \in Index :
              /\ User(tab, lev, g, i) /\ User(tab, lev, h, j)
              /\ tab[g][i].frame = tab[h][j].frame /\ tab[g][i].frame \in held
              => g = h /\ i = j
        BY <1>3 DEF Apart
      <3>6. \A g \in DOMAIN lev1, i \in Index :
              User(tab', lev1, g, i) =>
                /\ tab'[g][i].frame \notin DOMAIN lev1
                /\ tab'[g][i].frame \in allocatable' => tab'[g][i].frame \in held'
        BY <3>1, <3>2, <3>3
      <3>7. \A g, h \in DOMAIN lev1, i, j \in Index :
              /\ User(tab', lev1, g, i) /\ User(tab', lev1, h, j)
              /\ tab'[g][i].frame = tab'[h][j].frame /\ tab'[g][i].frame \in held'
              => g = h /\ i = j
        <4> TAKE g, h \in DOMAIN lev1, i, j \in Index
        <4> HAVE /\ User(tab', lev1, g, i) /\ User(tab', lev1, h, j)
                 /\ tab'[g][i].frame = tab'[h][j].frame /\ tab'[g][i].frame \in held'
        <4>1. /\ g \in DOMAIN lev /\ User(tab, lev, g, i) /\ tab'[g][i] = tab[g][i]
              /\ h \in DOMAIN lev /\ User(tab, lev, h, j) /\ tab'[h][j] = tab[h][j]
          BY <3>1
        <4>2. tab[g][i].frame = tab[h][j].frame /\ tab[g][i].frame \in held
          BY <3>2, <3>3, <4>1
        <4> QED BY <3>5, <4>1, <4>2
      <3>8. /\ entry'.frame \notin DOMAIN lev1
            /\ entry'.frame \in allocatable' => entry'.frame \in held'
            /\ \A g \in DOMAIN lev1, i \in Index :
                 User(tab', lev1, g, i) /\ entry'.frame \in held' =>
                   tab'[g][i].frame # entry'.frame
        <4>1. entry' = entry
          BY <1>1
        <4> QED BY <3>1, <3>2, <3>4, <4>1
      <3>9. \A k \in 1..Len(calls') : calls'[k].phys \notin allocatable' \cup DOMAIN lev1
        <4>1. \A k \in 1..Len(calls) : calls[k].phys \notin allocatable \cup DOMAIN lev
          BY <1>3 DEF Apart
        <4> QED BY <1>1, <2>2, <2>7, <4>1
      <3> QED BY <3>6, <3>7, <3>8, <3>9 DEF Apart, ForProgram
    <2>11. OnPath(lev1)'
      <3>1. Present(tab'[table][x]) /\ tab'[table][x].frame = f
        BY <2>4 DEF Hung, Present, Flags
      <3>2. At(tab', cr3, lev1, virt, level - 1, table)
        <4>1. table \in DOMAIN lev1 /\ lev1[table] = level - 1
          BY <1>5, <2>7
        <4>2. CASE level = 1
          BY <1>5, <4>1, <4>2 DEF At, Reaches
        <4>3. CASE level = 2
          BY <1>2, <1>5, <2>8, <4>1, <4>3 DEF At
        <4>4. CASE level = 3
          BY <1>2, <1>5, <2>8, <4>1, <4>4 DEF At
        <4> QED BY <1>1, <4>2, <4>3, <4>4
      <3>4. At(tab', cr3, lev1, virt, level, f)
        BY <1>2, <1>5, <2>6, <3>1, <3>2, Down
      <3>5. level' - 1 = level /\ cr3' = cr3 /\ virt' = virt /\ table' = f
        BY <1>1, <1>7
      <3> QED BY <3>4, <3>5 DEF OnPath
    <2> QED BY <1>1, <2>2, <2>8, <2>9, <2>10, <2>11, WalkIs DEF Shaped
  <1>8. \/ Present(Slot) /\ table' = Slot.frame /\ UNCHANGED <<allocatable, held, oom, tab>>
        \/ /\ ~ Present(Slot)
           /\ \E f \in FrameIds :
                /\ pmm_alloc_block(f) /\ table' = f
                /\ tab' = [[tab EXCEPT ![f] = Cleared(f)]
                             EXCEPT ![table][virt[level]] = [frame |-> f, flags |-> Flags]]
    BY DEF Descend, pmm
  <1> QED BY <1>1, <1>6, <1>7, <1>8

LEMMA SetEntryStep ==
  ASSUME Basic, Shaped, SetEntry, ~ oom'
  PROVE  /\ Shaped' /\ ~ oom /\ pc = "walk" /\ pc' = "idle"
         /\ virt \in Pages /\ Present(entry) /\ entry \in Entries
         /\ tlb' = [w \in DOMAIN tlb \ {virt} |-> tlb[w]]
         /\ \A v \in Pages : /\ v = virt => Walk(v)' = entry
                             /\ v # virt => Walk(v)' = Walk(v)
  <1>1. /\ pc = "walk" /\ level = 4 /\ tab' = [tab EXCEPT ![table][virt[4]] = entry]
        /\ tlb' = [w \in DOMAIN tlb \ {virt} |-> tlb[w]] /\ pc' = "idle"
        /\ UNCHANGED <<allocatable, held, oom, calls, cr3>>
    BY DEF SetEntry, Flushed, pmm
  <1>2. virt \in Pages /\ virt[4] \in Index /\ Present(entry) /\ entry \in Entries
    BY <1>1, PageIndices DEF Basic, Mapping, TypeOK
  <1>3. PICK lev : Tree(lev) /\ Apart(lev) /\ OnPath(lev)
    BY DEF Shaped
  <1>4. /\ Linked(tab, cr3, lev)
        /\ \A g \in DOMAIN lev : g \in allocatable => g \in held
    BY <1>3 DEF Tree
  <1>5. /\ table \in DOMAIN lev /\ lev[table] = 3 /\ Reaches(tab, cr3, virt, 3)
        /\ table = Pde(tab, cr3, virt).frame
    BY <1>1, <1>3 DEF OnPath, At
  <1>6. DOMAIN lev \subseteq FrameIds /\ tab \in [FrameIds -> [Index -> Entries]]
    BY <1>4 DEF Linked, Basic, TypeOK
  <1>7. Entered(tab, tab', lev, table, virt[4], entry)
    BY <1>1, <1>2, <1>5, <1>6 DEF Entered
  <1>8. Linked(tab', cr3', lev)
    BY <1>1, <1>2, <1>4, <1>5, <1>7, EnteredLinked
  <1>9. \A v \in Pages : /\ v = virt => Walk(v)' = entry
                         /\ v # virt => Walk(v)' = Walk(v)
    <2> TAKE v \in Pages
    <2>1. /\ v = virt => Walked(tab', cr3, v) = entry
          /\ v # virt => Walked(tab', cr3, v) = Walked(tab, cr3, v)
      <3>1. EntryOf(tab, cr3, virt, table, virt[4])
        BY <1>5 DEF EntryOf
      <3> QED BY <1>2, <1>4, <1>7, <3>1, EnteredWalk
    <2> QED BY <1>1, <2>1, WalkIs
  <1>10. Tree(lev)'
    BY <1>1, <1>4, <1>8 DEF Tree
  <1>11. Apart(lev)'
    <2>1. \A g \in DOMAIN lev, i \in Index :
            User(tab', lev, g, i) =>
              \/ User(tab, lev, g, i) /\ tab'[g][i] = tab[g][i]
              \/ g = table /\ i = virt[4] /\ tab'[g][i] = entry
      BY <1>7 DEF User, Entered
    <2>2. \A g \in DOMAIN lev, i \in Index :
            User(tab, lev, g, i) => ForProgram(lev, tab[g][i].frame)
      BY <1>3 DEF Apart
    <2>3. /\ ForProgram(lev, entry.frame)
          /\ \A g \in DOMAIN lev, i \in Index :
               User(tab, lev, g, i) /\ entry.frame \in held => tab[g][i].frame # entry.frame
      BY <1>1, <1>3 DEF Apart
    <2>4. \A g, h \in DOMAIN lev, i, j \in Index :
            /\ User(tab, lev, g, i) /\ User(tab, lev, h, j)
            /\ tab[g][i].frame = tab[h][j].frame /\ tab[g][i].frame \in held
            => g = h /\ i = j
      BY <1>3 DEF Apart
    <2>5. \A g \in DOMAIN lev, i \in Index :
            User(tab', lev, g, i) =>
              /\ tab'[g][i].frame \notin DOMAIN lev
              /\ tab'[g][i].frame \in allocatable' => tab'[g][i].frame \in held'
      BY <1>1, <2>1, <2>2, <2>3 DEF ForProgram
    <2>6. \A g, h \in DOMAIN lev, i, j \in Index :
            /\ User(tab', lev, g, i) /\ User(tab', lev, h, j)
            /\ tab'[g][i].frame = tab'[h][j].frame /\ tab'[g][i].frame \in held'
            => g = h /\ i = j
      <3> TAKE g, h \in DOMAIN lev, i, j \in Index
      <3> HAVE /\ User(tab', lev, g, i) /\ User(tab', lev, h, j)
               /\ tab'[g][i].frame = tab'[h][j].frame /\ tab'[g][i].frame \in held'
      <3>1. \/ User(tab, lev, g, i) /\ tab'[g][i] = tab[g][i]
            \/ g = table /\ i = virt[4] /\ tab'[g][i] = entry
        BY <2>1
      <3>2. \/ User(tab, lev, h, j) /\ tab'[h][j] = tab[h][j]
            \/ h = table /\ j = virt[4] /\ tab'[h][j] = entry
        BY <2>1
      <3>3. held' = held
        BY <1>1
      <3> QED BY <2>3, <2>4, <3>1, <3>2, <3>3
    <2>7. \A k \in 1..Len(calls') : calls'[k].phys \notin allocatable' \cup DOMAIN lev
      BY <1>1, <1>3 DEF Apart
    <2> QED BY <1>1, <2>5, <2>6, <2>7 DEF Apart, ForProgram
  <1>12. OnPath(lev)'
    BY <1>1 DEF OnPath
  <1> QED BY <1>1, <1>2, <1>9, <1>10, <1>11, <1>12 DEF Shaped

LEMMA OtherStep ==
  ASSUME Shaped, (\E v \in Pages : Touch(v)) \/ UNCHANGED vars
  PROVE  /\ Shaped'
         /\ UNCHANGED <<allocatable, held, oom, calls, pc, cr3, tab, virt, entry, level, table>>
  <1>1. UNCHANGED <<allocatable, held, oom, calls, pc, cr3, tab, virt, entry, level, table>>
    BY DEF Touch, vars, pmm, walk
  <1>2. PICK lev : Tree(lev) /\ Apart(lev) /\ OnPath(lev)
    BY DEF Shaped
  <1>3. Tree(lev)' /\ OnPath(lev)'
    BY <1>1, <1>2 DEF Tree, OnPath
  <1>4. Apart(lev)'
    BY <1>1, <1>2 DEF Apart, ForProgram
  <1> QED BY <1>1, <1>3, <1>4 DEF Shaped

-----------------------------------------------------------------------------
(* The invariant.                                                          *)

LEMMA TlbStep ==
  ASSUME IInv, [Next]_vars, Basic', ~ oom'
  PROVE  /\ pc' # "start" => Shaped'
         /\ TlbFresh'
  <1> USE DEF IInv
  <1>1. Basic /\ ~ oom
    BY BasicStep DEF Basic
  <1>2. DOMAIN tlb \subseteq Pages /\ \A v \in DOMAIN tlb : tlb[v] = Walk(v)
    BY <1>1 DEF TlbFresh, TypeOK
  <1>3. CASE vmm_initialize
    BY <1>1, <1>3, InitializeStep DEF TlbFresh
  <1>4. CASE vmm_map_page
    <2>1. pc # "start"
      BY <1>4 DEF vmm_map_page
    <2>2. Shaped' /\ UNCHANGED <<tab, cr3, tlb>>
      BY <1>1, <1>4, <2>1, MapPageStep
    <2>3. \A v \in DOMAIN tlb : Walk(v)' = Walk(v)
      BY <2>2, WalkIs
    <2> QED BY <1>2, <2>2, <2>3 DEF TlbFresh
  <1>5. CASE Descend
    <2>1. pc # "start"
      BY <1>5 DEF Descend
    <2>2. Shaped' /\ tlb' = tlb /\ \A v \in Pages : Walk(v)' = Walk(v)
      BY <1>1, <1>5, <2>1, DescendStep
    <2> QED BY <1>2, <2>2 DEF TlbFresh
  <1>6. CASE SetEntry
    <2>1. pc # "start"
      BY <1>6 DEF SetEntry
    <2>2. /\ Shaped' /\ tlb' = [w \in DOMAIN tlb \ {virt} |-> tlb[w]]
          /\ \A v \in Pages : v # virt => Walk(v)' = Walk(v)
      BY <1>1, <1>6, <2>1, SetEntryStep
    <2> QED BY <1>2, <2>2 DEF TlbFresh
  <1>7. ASSUME NEW v \in Pages, Touch(v)
        PROVE  (pc' # "start" => Shaped') /\ TlbFresh'
    <2>1. /\ pc # "start"
          /\ tlb' = [w \in DOMAIN tlb \cup {v} |-> IF w = v THEN Walk(v) ELSE tlb[w]]
      BY <1>7 DEF Touch
    <2>2. Shaped' /\ UNCHANGED <<tab, cr3>>
      BY <1>1, <1>7, <2>1, OtherStep
    <2>3. \A w \in DOMAIN tlb' : Walk(w)' = Walk(w)
      BY <2>2, WalkIs
    <2> QED BY <1>2, <2>1, <2>2, <2>3 DEF TlbFresh
  <1>8. CASE UNCHANGED vars
    <2>1. UNCHANGED <<tab, cr3, tlb, pc>>
      BY <1>8 DEF vars
    <2>2. pc' # "start" => Shaped'
      BY <1>1, <1>8, <2>1, OtherStep
    <2>3. \A w \in DOMAIN tlb : Walk(w)' = Walk(w)
      BY <2>1, WalkIs
    <2> QED BY <1>2, <2>1, <2>2, <2>3 DEF TlbFresh
  <1> QED BY <1>3, <1>4, <1>5, <1>6, <1>7, <1>8 DEF Next, Booted

\* Every reachable state is typed, its tables form a tree with a level for each
\* of them, and the pages of programs are apart.
THEOREM Inductive == Spec => []IInv
  <1>1. Init => IInv
    <2> SUFFICES ASSUME Init PROVE IInv
      OBVIOUS
    <2>1. Basic
      BY BasicInit
    <2>2. pc = "start" /\ DOMAIN tlb = {}
      BY DEF Init
    <2> QED BY <2>1, <2>2 DEF IInv, Basic, TlbFresh
  <1>2. IInv /\ [Next]_vars => IInv'
    <2> SUFFICES ASSUME IInv, [Next]_vars PROVE IInv'
      OBVIOUS
    <2>1. Basic'
      BY BasicStep DEF IInv, Basic
    <2>2. ~ oom' => (pc' # "start" => Shaped') /\ TlbFresh'
      BY <2>1, TlbStep
    <2>3. oom' => TlbFresh'
      BY DEF TlbFresh
    <2> QED BY <2>1, <2>2, <2>3 DEF IInv, Basic
  <1> QED BY <1>1, <1>2, PTL DEF Spec

\* Every variable stays in its domain, whatever the boot code maps.
THEOREM Typed == Spec => []TypeOK
  <1>1. IInv => TypeOK
    BY DEF IInv
  <1> QED BY <1>1, Inductive, PTL

\* As long as frames last a translation the processor may still use is the one in
\* the tables: the one flush of vmm_map_page is enough, as no other page's way
\* changes.
THEOREM FlushEnough == Spec => []TlbFresh
  <1>1. IInv => TlbFresh
    BY DEF IInv
  <1> QED BY <1>1, Inductive, PTL

-----------------------------------------------------------------------------
(* What the tree means for the sets of tables the runs look at.            *)

LEMMA Levels ==
  ASSUME NEW lev, Linked(tab, cr3, lev)
  PROVE  /\ \A f \in Upper : f \in DOMAIN lev /\ lev[f] < 3
         /\ Tables \subseteq DOMAIN lev
         /\ \A s \in SlotsOf(Upper) :
              s[1] \in DOMAIN lev /\ s[2] \in Index /\ Link(tab, lev, s[1], s[2])
  <1>1. cr3 \in DOMAIN lev /\ lev[cr3] = 0
    BY DEF Linked
  <1>2. \A f \in DOMAIN lev, i \in Index :
          lev[f] < 3 /\ Present(tab[f][i]) =>
            tab[f][i].frame \in DOMAIN lev /\ lev[tab[f][i].frame] = lev[f] + 1
    BY DEF Linked, Link
  <1>3. ASSUME NEW n \in 0..2, NEW S, \A f \in S : f \in DOMAIN lev /\ lev[f] = n
        PROVE  \A f \in Below(S) : f \in DOMAIN lev /\ lev[f] = n + 1
    <2>1. \A s \in SlotsOf(S) : s[1] \in S /\ s[2] \in Index /\ Present(tab[s[1]][s[2]])
      BY DEF SlotsOf
    <2>2. \A s \in SlotsOf(S) :
            tab[s[1]][s[2]].frame \in DOMAIN lev /\ lev[tab[s[1]][s[2]].frame] = n + 1
      BY <1>2, <1>3, <2>1
    <2> QED BY <2>2 DEF Below
  <1>4. \A f \in {cr3} : f \in DOMAIN lev /\ lev[f] = 0
    BY <1>1
  <1>5. \A f \in Pdpts : f \in DOMAIN lev /\ lev[f] = 1
    BY <1>3, <1>4 DEF Pdpts
  <1>6. \A f \in Pds : f \in DOMAIN lev /\ lev[f] = 2
    BY <1>3, <1>5 DEF Pds
  <1>7. \A f \in Pts : f \in DOMAIN lev /\ lev[f] = 3
    BY <1>3, <1>6 DEF Pts
  <1>8. \A f \in Upper : f \in DOMAIN lev /\ lev[f] < 3
    BY <1>4, <1>5, <1>6 DEF Upper
  <1>9. Tables \subseteq DOMAIN lev
    BY <1>7, <1>8 DEF Tables
  <1>10. \A s \in SlotsOf(Upper) :
           s[1] \in DOMAIN lev /\ s[2] \in Index /\ Link(tab, lev, s[1], s[2])
    <2>1. \A s \in SlotsOf(Upper) : s[1] \in Upper /\ s[2] \in Index /\ Present(tab[s[1]][s[2]])
      BY DEF SlotsOf
    <2> QED BY <1>8, <2>1 DEF Link
  <1> QED BY <1>8, <1>9, <1>10

\* No table hangs from two entries, and the root from none, as long as frames
\* last.
THEOREM OneParent == Spec => []TreeShaped
  <1>1. IInv => TreeShaped
    <2> SUFFICES ASSUME IInv, ~ oom, pc # "start"
                 PROVE  LET slots == SlotsOf(Upper) IN
                        /\ \A s, t \in slots :
                             tab[s[1]][s[2]].frame = tab[t[1]][t[2]].frame => s = t
                        /\ \A s \in slots : tab[s[1]][s[2]].frame # cr3
      BY DEF TreeShaped
    <2>1. PICK lev : Linked(tab, cr3, lev)
      BY DEF IInv, Shaped, Tree
    <2>2. \A s \in SlotsOf(Upper) :
            s[1] \in DOMAIN lev /\ s[2] \in Index /\ Link(tab, lev, s[1], s[2])
      BY <2>1, Levels
    <2>3. \A f \in DOMAIN lev : lev[f] \in 0..3 /\ (lev[f] = 0 <=> f = cr3)
      BY <2>1 DEF Linked
    <2>4. \A f, g \in DOMAIN lev, i, j \in Index :
            Link(tab, lev, f, i) /\ Link(tab, lev, g, j) /\ tab[f][i].frame = tab[g][j].frame
              => f = g /\ i = j
      BY <2>1 DEF Linked
    <2>5. \A s \in SlotsOf(Upper) : s = <<s[1], s[2]>>
      BY DEF SlotsOf
    <2>6. ASSUME NEW s \in SlotsOf(Upper), NEW t \in SlotsOf(Upper),
                 tab[s[1]][s[2]].frame = tab[t[1]][t[2]].frame
          PROVE  s = t
      <3>1. s[1] = t[1] /\ s[2] = t[2]
        BY <2>2, <2>4, <2>6
      <3> QED BY <2>5, <3>1
    <2>7. ASSUME NEW s \in SlotsOf(Upper)
          PROVE  tab[s[1]][s[2]].frame # cr3
      <3>1. /\ tab[s[1]][s[2]].frame \in DOMAIN lev
            /\ lev[tab[s[1]][s[2]].frame] = lev[s[1]] + 1 /\ s[1] \in DOMAIN lev
        BY <2>1, <2>2 DEF Linked
      <3>2. lev[s[1]] \in Nat
        BY <2>3, <3>1
      <3> QED BY <2>3, <3>1, <3>2
    <2> QED BY <2>6, <2>7
  <1> QED BY <1>1, Inductive, PTL

\* No page a program can write is a page table or another program page's frame,
\* as long as frames last.
THEOREM ProgramsApart == Spec => []UserPagesApart
  <1>1. IInv => UserPagesApart
    <2> DEFINE user == {v \in Pages : "U" \in Walk(v).flags}
    <2> SUFFICES ASSUME IInv, ~ oom, pc # "start"
                 PROVE  /\ {Walk(v).frame : v \in user} \cap Tables = {}
                        /\ \A v, w \in user :
                             Walk(v).frame = Walk(w).frame /\ Walk(v).frame \in held => v = w
      BY DEF UserPagesApart
    <2>1. PICK lev : Linked(tab, cr3, lev) /\ Apart(lev)
      BY DEF IInv, Shaped, Tree
    <2>2. ASSUME NEW v \in user
          PROVE  /\ v \in Pages /\ Reaches(tab, cr3, v, 3)
                 /\ Pde(tab, cr3, v).frame \in DOMAIN lev
                 /\ User(tab, lev, Pde(tab, cr3, v).frame, v[4])
                 /\ Walk(v) = tab[Pde(tab, cr3, v).frame][v[4]]
      <3>1. v \in Pages /\ "U" \in Walk(v).flags /\ Walk(v) = Walked(tab, cr3, v)
        BY <2>2, WalkIs
      <3>2. Reaches(tab, cr3, v, 3)
        BY <3>1 DEF Walked, Absent
      <3>3. Walk(v) = tab[Pde(tab, cr3, v).frame][v[4]]
        BY <3>1, <3>2 DEF Walked, Pte
      <3>4. Pde(tab, cr3, v).frame \in DOMAIN lev /\ lev[Pde(tab, cr3, v).frame] = 3
        BY <2>1, <3>1, <3>2, Route
      <3> QED BY <3>1, <3>2, <3>3, <3>4 DEF User
    <2>3. ASSUME NEW v \in user
          PROVE  Walk(v).frame \notin Tables
      <3>1. v[4] \in Index
        BY <2>2, <2>3, PageIndices
      <3>2. ForProgram(lev, Walk(v).frame)
        BY <2>1, <2>2, <2>3, <3>1 DEF Apart
      <3> QED BY <2>1, <3>2, Levels DEF ForProgram
    <2>4. ASSUME NEW v \in user, NEW w \in user,
                 Walk(v).frame = Walk(w).frame, Walk(v).frame \in held
          PROVE  v = w
      <3>1. /\ v \in Pages /\ Reaches(tab, cr3, v, 3)
            /\ Pde(tab, cr3, v).frame \in DOMAIN lev
            /\ User(tab, lev, Pde(tab, cr3, v).frame, v[4])
            /\ Walk(v) = tab[Pde(tab, cr3, v).frame][v[4]]
        BY <2>2
      <3>2. /\ w \in Pages /\ Reaches(tab, cr3, w, 3)
            /\ Pde(tab, cr3, w).frame \in DOMAIN lev
            /\ User(tab, lev, Pde(tab, cr3, w).frame, w[4])
            /\ Walk(w) = tab[Pde(tab, cr3, w).frame][w[4]]
        BY <2>2
      <3>3. v[4] \in Index /\ w[4] \in Index
        BY <3>1, <3>2, PageIndices
      <3>4. Pde(tab, cr3, v).frame = Pde(tab, cr3, w).frame /\ v[4] = w[4]
        BY <2>1, <2>4, <3>1, <3>2, <3>3 DEF Apart
      <3>5. v[1] = w[1] /\ v[2] = w[2] /\ v[3] = w[3]
        BY <2>1, <3>1, <3>2, <3>4, SameRoute
      <3>6. v = <<v[1], v[2], v[3], v[4]>> /\ w = <<w[1], w[2], w[3], w[4]>>
        BY <3>1, <3>2, PageIndices
      <3> QED BY <3>4, <3>5, <3>6
    <2> QED BY <2>3, <2>4
  <1> QED BY <1>1, Inductive, PTL

-----------------------------------------------------------------------------
(* The mapping the tables implement.                                       *)

LEMMA TranslationIs ==
  /\ DOMAIN Translation = {w \in Pages : Present(Walk(w))}
  /\ \A v \in DOMAIN Translation : Translation[v] = Walk(v)
  BY DEF Translation, Mapped

LEMMA TranslationIsNext ==
  /\ DOMAIN Translation' = {w \in Pages : Present(Walk(w)')}
  /\ \A v \in DOMAIN Translation' : Translation'[v] = Walk(v)'
  BY DEF Translation, Mapped, Present

\* A step that changes no page's entry changes no mapping.
LEMMA SameTranslation ==
  ASSUME \A v \in Pages : Walk(v)' = Walk(v)
  PROVE  Translation' = Translation
  BY DEF Translation, Mapped, Present

\* As long as frames last the calls are served in their order, each maps its page
\* to the entry it asks for and changes no other, and the switch keeps the
\* kernel's half: a step of the tables is one of VmSpec.
THEOREM OneMapping == Spec => ImplementsVmSpec
  <1> DEFINE served == IF pc = "walk" THEN <<virt, entry>> ELSE <<>>
  <1>1. Init => Vm!Init
    BY TranslationIs DEF Init, Vm!Init, Vm!Nothing
  <1>2. IInv /\ [Next]_vars => [oom' \/ Vm!Next]_(Vm!vars)
    <2> SUFFICES ASSUME IInv, [Next]_vars, ~ oom'
                 PROVE  Vm!Next \/ UNCHANGED Vm!vars
      OBVIOUS
    <2>1. Basic
      BY DEF IInv, Basic
    <2>2. ~ oom /\ (pc # "start" => Shaped)
      BY <2>1, BasicStep DEF IInv
    <2>3. ASSUME \A v \in Pages : Walk(v)' = Walk(v), (pc' # "start") = (pc # "start"),
                 UNCHANGED <<calls, served>>
          PROVE  UNCHANGED Vm!vars
      BY <2>3, SameTranslation DEF Vm!vars
    <2>4. ASSUME UNCHANGED <<tab, cr3>> PROVE \A v \in Pages : Walk(v)' = Walk(v)
      BY <2>4, WalkIs
    <2>5. CASE vmm_initialize
      <3>1. /\ pc = "start" /\ pc' = "idle"
            /\ \A v \in Pages : /\ v[1] \in KernelHalf => Walk(v)' = Walk(v)
                                /\ v[1] \notin KernelHalf => Walk(v)' = Absent
        BY <2>1, <2>5, InitializeStep
      <3> DEFINE kernel == {v \in Pages : v[1] \in KernelHalf}
      <3>2. ~ Present(Absent)
        BY DEF Present, Absent
      <3>3. DOMAIN Translation' = DOMAIN Translation \cap kernel
        BY <3>1, <3>2, TranslationIs, TranslationIsNext
      <3>4. \A v \in DOMAIN Translation' : Translation'[v] = Translation[v]
        BY <3>1, <3>3, TranslationIs, TranslationIsNext
      <3>5. Translation' = [v \in DOMAIN Translation \cap kernel |-> Translation[v]]
        BY <3>3, <3>4 DEF Translation
      <3>6. UNCHANGED <<calls, served>>
        BY <2>5, <3>1 DEF vmm_initialize
      <3> QED BY <3>1, <3>5, <3>6 DEF Vm!Next, Vm!Switch
    <2>6. CASE vmm_map_page
      <3> DEFINE c == Head(calls)
      <3>1. pc = "idle" /\ pc' = "walk" /\ calls # <<>> /\ calls' = Tail(calls)
        BY <2>6 DEF vmm_map_page
      <3>2. UNCHANGED <<tab, cr3>>
        BY <2>1, <2>2, <2>6, <3>1, MapPageStep
      <3>3. Translation' = Translation
        BY <2>4, <3>2, SameTranslation
      <3>4. PICK f \in FrameIds :
              /\ c.phys # 0 => f = c.phys
              /\ virt' = c.virt /\ entry' = [frame |-> f, flags |-> c.flags \cup {"P"}]
        BY <2>6 DEF vmm_map_page
      <3>5. entry' \in Entries
        BY <2>1, BasicStep DEF Basic, TypeOK
      <3>6. /\ entry'.flags = c.flags \cup {"P"}
            /\ c.phys # 0 => entry'.frame = c.phys
        BY <3>4
      <3>7. served = <<>> /\ served' = <<c.virt, entry'>>
        BY <3>1, <3>4
      <3>8. Vm!Ask
        BY <3>1, <3>3, <3>5, <3>6, <3>7 DEF Vm!Ask, Vm!Nothing
      <3> QED BY <3>8 DEF Vm!Next
    <2>7. CASE Descend
      <3>1. pc # "start" /\ UNCHANGED <<calls, virt, entry>>
        BY <2>7 DEF Descend
      <3>2. pc' = pc /\ \A v \in Pages : Walk(v)' = Walk(v)
        BY <2>1, <2>2, <2>7, <3>1, DescendStep
      <3> QED BY <2>3, <3>1, <3>2
    <2>8. CASE SetEntry
      <3>1. pc = "walk" /\ UNCHANGED calls
        BY <2>8 DEF SetEntry
      <3>2. /\ virt \in Pages /\ Present(entry) /\ entry \in Entries /\ pc' = "idle"
            /\ \A v \in Pages : /\ v = virt => Walk(v)' = entry
                                /\ v # virt => Walk(v)' = Walk(v)
        BY <2>1, <2>2, <2>8, <3>1, SetEntryStep
      <3>3. DOMAIN Translation' = DOMAIN Translation \cup {virt}
        BY <3>2, TranslationIs, TranslationIsNext
      <3>4. Translation'[virt] = entry
        BY <3>2, <3>3, TranslationIsNext
      <3>5. \A w \in DOMAIN Translation \ {virt} : Translation'[w] = Translation[w]
        BY <3>2, <3>3, TranslationIs, TranslationIsNext
      <3>6. Translation' = [v \in DOMAIN Translation \cup {virt} |->
                              IF v = virt THEN entry ELSE Translation[v]]
        <4>1. Translation' = [v \in DOMAIN Translation' |-> Translation'[v]]
          BY DEF Translation
        <4> QED BY <3>3, <3>4, <3>5, <4>1
      <3>7. served = <<virt, entry>> /\ served' = <<>>
        BY <3>1, <3>2
      <3>8. Vm!Map
        BY <3>1, <3>2, <3>6, <3>7 DEF Vm!Map, Vm!Nothing
      <3> QED BY <3>8 DEF Vm!Next
    <2>9. ASSUME NEW v \in Pages, Touch(v) PROVE UNCHANGED Vm!vars
      BY <2>3, <2>4, <2>9 DEF Touch, walk
    <2>10. CASE UNCHANGED vars
      BY <2>3, <2>4, <2>10 DEF vars, walk
    <2> QED BY <2>5, <2>6, <2>7, <2>8, <2>9, <2>10 DEF Next, Booted
  <1> QED BY <1>1, <1>2, Inductive, PTL DEF Spec, ImplementsVmSpec
=============================================================================

-------------------------------- MODULE Boot --------------------------------
(***************************************************************************)
(* _start of kernel/kernel/kernel.c, from the descriptor tables to ring 3: *)
(* the mappings of the heap, of the video and of the program, over the     *)
(* ramdisk of fs.c (Ramdisk) and the tables of gdt.c, tss.c and idt.c      *)
(* (Descriptors).  All of it runs with interrupts disabled.                *)
(*                                                                         *)
(* Frames are counted and page tables are known by the part of the address *)
(* that leads to them: Pmm and Vmm show that the one grants no frame twice *)
(* and the other maps what it is told.  Where no frame is left this module *)
(* stops; Vmm goes on from there.  Addresses are in bytes, pages and       *)
(* frames are numbered.                                                    *)
(***************************************************************************)
EXTENDS Ramdisk, Descriptors, FiniteSets, Functions

CONSTANTS
  Machines,     \* frames left by pmm_initialize, modules the bootloader loaded
  PageSize,     \* 4096
  Fan,          \* 512, the entries of a table
  HeapPages, VideoPage, Program, StackPage,  \* where things are mapped
  RamdiskFrame  \* the first frame of the ramdisk

ASSUME BootAssumption ==
  /\ PageSize \in Nat \ {0} /\ Fan \in Nat \ {0} /\ RamdiskFrame \in Nat
  /\ Machines \subseteq [frames : Nat, modules : {0, 1}]
  /\ HeapPages \in Seq(Nat) /\ Program \in Seq(Nat)
  /\ VideoPage \in Nat /\ StackPage \in Nat
  \* Every page is mapped once, and the program and its stack lie below the
  \* video, which _start maps before them.
  /\ LET own == HeapPages \o Append(Program, StackPage) IN
       \A j, k \in 1..Len(own) : own[j] = own[k] => j = k
  /\ StackPage < VideoPage /\ \A k \in 1..Len(Program) : Program[k] < VideoPage
  /\ {"init.kex", "video.bad"} \subseteq Names

VARIABLES
  machine,
  at,       \* how far _start is
  n,        \* the turn of the loop it is in
  frames,   \* free frames
  tables,   \* the page tables below the root
  mapped    \* page |-> frame, or Own for a frame pmm_alloc_block gave

vars == <<ramdisk, descriptors, machine, at, n, frames, tables, mapped>>

Own == -1

Init ==
  /\ RamdiskInit
  /\ DescriptorsInit
  /\ machine \in Machines
  /\ at = "gdt"
  /\ n = 0
  /\ frames = machine.frames
  /\ tables = {}
  /\ mapped = [v \in {} |-> 0]

Rest == <<machine, n, frames, tables, mapped>>

SetGdt == at = "gdt" /\ gdt_initialize /\ at' = "idt" /\ UNCHANGED <<ramdisk, Rest>>
SetIdt == at = "idt" /\ idt_initialize /\ at' = "vmm" /\ UNCHANGED <<ramdisk, Rest>>

\* The root table.
vmm_initialize ==
  /\ at = "vmm"
  /\ IF frames = 0 THEN at' = "starved" /\ UNCHANGED frames
     ELSE at' = "heap" /\ frames' = frames - 1
  /\ UNCHANGED <<ramdisk, descriptors, machine, n, tables, mapped>>

\* The tables on the way to a page: <<level, leading indices>>.
TablesOf(v) ==
  {<<1, v \div Fan>>, <<2, v \div (Fan * Fan)>>, <<3, v \div (Fan * Fan * Fan)>>}

\* vmm_map_page(f, v, flags), where f may first have to be allocated.
\* Mutated Taken: only the lowest table is looked for.
TakenLowest(v, f) ==
  (IF f = Own THEN 1 ELSE 0) + Cardinality({t \in TablesOf(v) : t[1] = 1} \ tables)
Taken(v, f) ==
  (IF f = Own THEN 1 ELSE 0) + Cardinality(TablesOf(v) \ tables)
vmm_map_page(f, v) ==
  IF Taken(v, f) > frames
    THEN /\ at' = "starved"
         /\ UNCHANGED <<n, frames, tables, mapped>>
    ELSE /\ frames' = frames - Taken(v, f)
         /\ tables' = tables \cup TablesOf(v)
         /\ mapped' = [w \in DOMAIN mapped \cup {v} |-> IF w = v THEN f ELSE mapped[w]]
         /\ n' = n + 1
         /\ UNCHANGED at

\* The end of a loop.
GoOn(next) == at' = next /\ n' = 0 /\ UNCHANGED <<frames, tables, mapped>>

\* One page of a list of pages of its own.
MapOwn(stage, pages, next) ==
  /\ at = stage
  /\ IF n < Len(pages) THEN vmm_map_page(Own, pages[n + 1]) ELSE GoOn(next)
  /\ UNCHANGED <<ramdisk, descriptors, machine>>

MapHeap == MapOwn("heap", HeapPages, "modules")

\* The walks of the ramdisk, once the one before has ended.
WalkFor(stage, walk, next) ==
  /\ at = stage
  /\ walk
  /\ at' = next
  /\ UNCHANGED <<descriptors, Rest>>

FirstWalk == machine.modules > 0 /\ WalkFor("modules", fs_init, "ramdisk")
\* Nothing calls fs_cat; it may be called from here on.
Cat == WalkFor("ramdisk", fs_cat, "listed")
FindVideo ==
  \E stage \in {"ramdisk", "listed"} :
    pc = "idle" /\ WalkFor(stage, Start("fs_get_file", "video.bad"), "video")
FindProgram ==
  pc = "idle" /\ WalkFor("init.kex", Start("fs_get_file", "init.kex"), "load")

NoModules ==
  /\ at = "modules"
  /\ machine.modules = 0
  /\ at' = "halted"
  /\ UNCHANGED <<ramdisk, descriptors, Rest>>

vid_phys == RamdiskFrame * PageSize + found[1]
offset == vid_phys % PageSize
\* Mutated pages_needed: the part of the first page before the video is left out.
pages_neededShort == (found[2] + PageSize - 1) \div PageSize
pages_needed == (found[2] + offset + PageSize - 1) \div PageSize

\* One page of the video, in place.  Without video.bad there is a warning.
MapVideo ==
  /\ at = "video"
  /\ pc = "idle"
  /\ IF found # NULL /\ n < pages_needed
       THEN vmm_map_page(vid_phys \div PageSize + n, VideoPage + n)
       ELSE GoOn("init.kex")
  /\ UNCHANGED <<ramdisk, descriptors, machine>>

ProgramFile == archive[CHOOSE k \in 1..Len(archive) : Position(k) + Block = found[1]]

\* No init.kex, or one that load_kex_and_run returns from.
NoProgram ==
  /\ at = "load"
  /\ pc = "idle"
  /\ IF found = NULL THEN TRUE ELSE ~ ProgramFile.kex
  /\ at' = "halted"
  /\ UNCHANGED <<ramdisk, descriptors, Rest>>

\* load_kex_and_run maps the program and the stack; what it puts there is in Kex.
Load ==
  /\ at = "load"
  /\ pc = "idle"
  /\ IF found = NULL THEN FALSE ELSE ProgramFile.kex
  /\ at' = "program"
  /\ UNCHANGED <<ramdisk, descriptors, Rest>>

MapProgram == MapOwn("program", Append(Program, StackPage), "user")

\* The walk goes on while _start waits for it.
WalkOn == Walk /\ UNCHANGED <<descriptors, at, Rest>>

Step ==
  \/ SetGdt \/ SetIdt \/ vmm_initialize \/ MapHeap \/ NoModules
  \/ FirstWalk \/ FindVideo \/ MapVideo \/ FindProgram
  \/ NoProgram \/ Load \/ MapProgram \/ WalkOn

\* The player runs, or the processor is halted for good.
Ended == at \in {"user", "halted", "starved"}
Stay == Ended /\ UNCHANGED vars

Next == Step \/ Cat \/ Stay

Spec == Init /\ [][Next]_vars
FairSpec == Spec /\ WF_vars(Step)

-----------------------------------------------------------------------------
TypeOK ==
  /\ machine \in Machines
  /\ at \in {"gdt", "idt", "vmm", "heap", "modules", "ramdisk", "listed", "video",
            "init.kex", "load", "program", "user", "halted", "starved"}
  /\ n \in Nat
  /\ frames \in 0..machine.frames
  /\ \A t \in tables : t[1] \in 1..3 /\ t[2] \in Nat
  /\ \A v \in DOMAIN mapped : v \in Nat /\ mapped[v] \in Nat \cup {Own}

\* The tables are in use from here on.
TablesRight == at \notin {"gdt", "idt"} => TablesRead

\* The first file of a name, and the frame and the place in it where byte j of
\* its data lies.
Firsts(name) ==
  {k \in 1..Len(archive) :
     archive[k].name = name /\ \A j \in 1..(k - 1) : archive[j].name # name}
Lies(k, j) ==
  LET a == RamdiskFrame * PageSize + Position(k) + Block + j
  IN  <<a \div PageSize, a % PageSize>>

\* Where the player, which searches its first page, sees the magic of a video.
SeenMagics ==
  {p \in 0..(PageSize - 1) :
     \E k \in 1..Len(archive) :
       archive[k].bad >= 0 /\ Lies(k, archive[k].bad) = <<mapped[VideoPage], p>>}

\* When the player starts, every byte of the first video.bad is at VideoPage,
\* from the place of its first byte in its frame on and without a gap, however
\* the file lies in the archive; and the search of the player stops there, if
\* no file before it holds the magic.
VideoReadable ==
  at = "user" =>
    \A k \in Firsts("video.bad") :
      /\ \A j \in 0..(archive[k].size - 1) :
           LET a == Lies(k, 0)[2] + j
               page == VideoPage + a \div PageSize
           IN  page \in DOMAIN mapped /\ <<mapped[page], a % PageSize>> = Lies(k, j)
      /\ archive[k].bad = 0 /\ (\A j \in 1..(k - 1) : archive[j].bad < 0) =>
           /\ Lies(k, 0)[2] \in SeenMagics
           /\ \A p \in SeenMagics : Lies(k, 0)[2] <= p

\* What a machine with this archive takes: the root table, the pages that get
\* frames of their own, and one table for every part of the address space that
\* some page lies in.
Starts == machine.modules > 0 /\ \E k \in Firsts("init.kex") : archive[k].kex
OwnPages == Range(HeapPages) \cup (IF Starts THEN Range(Program) \cup {StackPage} ELSE {})
VideoPages ==
  UNION {{VideoPage + a \div PageSize : a \in 0..(Lies(k, 0)[2] + archive[k].size - 1)} :
           k \in IF machine.modules > 0 THEN Firsts("video.bad") ELSE {}}
Needed ==
  1 + Cardinality(OwnPages) + Cardinality(UNION {TablesOf(v) : v \in OwnPages \cup VideoPages})

\* Besides the types: with that many frames the boot never meets a call of pmm_alloc_block that
\* returns 0, and no frame is taken without need; then ring 3 is entered
\* exactly if the first init.kex is a program.
BootOutcome ==
  /\ TypeOK
  /\ Ended =>
       IF machine.frames < Needed THEN at = "starved"
       ELSE /\ at = IF Starts THEN "user" ELSE "halted"
            /\ frames = machine.frames - Needed

\* _start comes to an end, with whatever archive.
BootEnds == <>Ended
=============================================================================

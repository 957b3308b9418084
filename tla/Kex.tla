-------------------------------- MODULE Kex --------------------------------
(***************************************************************************)
(* A program from the linker to ring 3: kex-ld/kex-ld.cpp turns the        *)
(* loadable segments of an ELF file into a KEX file, and load_kex_and_run  *)
(* of kernel/kernel/kex.c maps and fills memory from it.                   *)
(*                                                                         *)
(* An ELF file, of either class, is the list of its program headers, and   *)
(* <<h, k>> is byte k of what header h describes.  The page tables are the *)
(* mapping that VmSpec promises and the frames are granted as FrameSpec    *)
(* says, both for as long as there are frames; there are enough of them    *)
(* here.  Sizes and addresses are in bytes, and the alignment of segments  *)
(* in the file is the page size, as in the source.                         *)
(***************************************************************************)
EXTENDS Integers, Sequences, FiniteSets

CONSTANTS
  PageSize,      \* 4096
  HeaderSize,    \* sizeof(kex_header)
  SegmentSize,   \* sizeof(kex_segment_cmd)
  IntegritySize, \* sizeof(kex_integrity_cmd)
  StackPage,     \* 0x7FF000 / 4096
  FrameIds,
  Images,        \* the program headers of each ELF file considered
  Ramdisks       \* what init.kex is: "kex", "other", "missing"

Segments(m) == {h \in 1..Len(m) : m[h].load}
PageOf(a) == a \div PageSize
PagesOf(s) == {PageOf(s.vaddr + k) : k \in 0..(s.memsz - 1)}

ASSUME KexAssumption ==
  /\ PageSize \in Nat \ {0} /\ StackPage \in Nat /\ FrameIds \subseteq Nat
  /\ HeaderSize \in Nat /\ SegmentSize \in Nat /\ IntegritySize \in Nat
  /\ Images \subseteq Seq([load : BOOLEAN, vaddr : Nat, memsz : Nat, filesz : Nat])
  /\ \A m \in Images : \A h \in 1..Len(m) : m[h].filesz <= m[h].memsz
  /\ Ramdisks \subseteq {"kex", "other", "missing"}

(***************************************************************************)
(* What userland.ld makes of a program: segments begin at a page of their  *)
(* own, far below the stack.                                               *)
(***************************************************************************)
Aligned(m) == \A s \in Segments(m) : m[s].vaddr % PageSize = 0
AsLinked(m) ==
  /\ Aligned(m)
  /\ \A s \in Segments(m) : StackPage \notin PagesOf(m[s])
  /\ \A s, t \in Segments(m) : PagesOf(m[s]) \cap PagesOf(m[t]) # {} => s = t

VARIABLES
  ramdisk,           \* what init.kex is
  elf,               \* the program headers
  elf_segments,      \* those that are PT_LOAD, and where their data are
  pc,
  kex_segs,          \* the segment commands
  current_file_pos,
  out,               \* the KEX file, byte by byte
  i,                 \* the segment or command a loop is at
  offset,            \* load_kex_and_run: how far a segment is mapped
  allocatable, held, \* the frame manager, as in FrameSpec
  mapping,           \* page |-> frame
  ram                \* frame |-> its bytes

linker == <<elf, elf_segments, kex_segs, current_file_pos, out>>
memory == <<allocatable, held, mapping, ram>>
vars == <<ramdisk, pc, linker, i, offset, memory>>

Frames == INSTANCE FrameSpec

Zero == <<0, 0>>
CommandByte == <<0, 1>>
Leftover == <<0, 2>>  \* what a frame that was never cleared may hold
Contents(s, n) == [k \in 1..n |-> <<s, k - 1>>]
Offsets == 0..(PageSize - 1)

-----------------------------------------------------------------------------
Init ==
  /\ ramdisk \in Ramdisks
  /\ elf \in Images
  /\ elf_segments = <<>>
  /\ pc = "read"
  /\ kex_segs = <<>>
  /\ current_file_pos = 0
  /\ out = <<>>
  /\ i = 1
  /\ offset = 0
  /\ allocatable = FrameIds
  /\ held = {}
  /\ mapping = [p \in {} |-> 0]
  /\ ram = [f \in FrameIds |-> [o \in Offsets |-> Leftover]]

\* One program header.
ReadHeader ==
  LET ph == elf[i] IN
  /\ pc = "read"
  /\ i <= Len(elf)
  /\ elf_segments' =
       IF ph.load
         THEN Append(elf_segments, [vaddr |-> ph.vaddr, memsz |-> ph.memsz,
                                    off |-> i, filesz |-> ph.filesz])
         ELSE elf_segments
  /\ i' = i + 1
  /\ UNCHANGED <<ramdisk, pc, elf, kex_segs, current_file_pos, out, offset, memory>>

RoundUp(n) == PageSize * ((n + PageSize - 1) \div PageSize)
CommandsSize(n) == n * SegmentSize + IntegritySize
CommandsEnd == HeaderSize + CommandsSize(Len(elf_segments))

StartPlacing ==
  /\ pc = "read"
  /\ i > Len(elf)
  /\ current_file_pos' = RoundUp(CommandsEnd)
  /\ i' = 1
  /\ pc' = "place"
  /\ UNCHANGED <<ramdisk, elf, elf_segments, kex_segs, out, offset, memory>>

\* Mutated NextFilePos: the position is not moved past the data.
NextFilePosSame(n) == current_file_pos
NextFilePos(n) == RoundUp(current_file_pos + n)

\* One segment command.
PlaceSegment ==
  LET s == elf_segments[i] IN
  /\ pc = "place"
  /\ i <= Len(elf_segments)
  /\ kex_segs' = Append(kex_segs,
       [rva |-> s.vaddr, mem_size |-> s.memsz, file_size |-> s.filesz,
        file_offset |-> IF s.filesz > 0 THEN current_file_pos ELSE 0])
  /\ current_file_pos' =
       IF s.filesz > 0 THEN NextFilePos(s.filesz) ELSE current_file_pos
  /\ i' = i + 1
  /\ UNCHANGED <<ramdisk, pc, elf, elf_segments, out, offset, memory>>

\* The header, the segment commands and the integrity command.
WriteCommands ==
  /\ pc = "place"
  /\ i > Len(elf_segments)
  /\ out' = [k \in 1..CommandsEnd |-> CommandByte]
  /\ i' = 1
  /\ pc' = "write"
  /\ UNCHANGED <<ramdisk, elf, elf_segments, kex_segs, current_file_pos, offset,
                 memory>>

Padding(target) ==
  IF Len(out) < target THEN [k \in 1..(target - Len(out)) |-> Zero] ELSE <<>>

\* The data of one segment, after padding up to its place.
WriteSegment ==
  LET seg == kex_segs[i] IN
  /\ pc = "write"
  /\ i <= Len(kex_segs)
  /\ out' = IF seg.file_size > 0
              THEN out \o Padding(seg.file_offset)
                       \o Contents(elf_segments[i].off, seg.file_size)
              ELSE out
  /\ i' = i + 1
  /\ UNCHANGED <<ramdisk, pc, elf, elf_segments, kex_segs, current_file_pos,
                 offset, memory>>

\* The hash is patched into the integrity command, which nothing reads.
FinishLinking ==
  /\ pc = "write"
  /\ i > Len(kex_segs)
  /\ pc' = "boot"
  /\ UNCHANGED <<ramdisk, linker, i, offset, memory>>

-----------------------------------------------------------------------------
\* init.kex is there and has the magic, or the kernel stops.
OpenProgram ==
  /\ pc = "boot"
  /\ pc' = IF ramdisk = "kex" THEN "map" ELSE "halted"
  /\ i' = 1
  /\ offset' = 0
  /\ UNCHANGED <<ramdisk, linker, memory>>

\* pmm_alloc_block and vmm_map_page for one page.
MapPage(p, f) ==
  /\ Frames!Grant(f)
  /\ \A g \in allocatable \ held : f <= g
  /\ mapping' = [q \in DOMAIN mapping \cup {p} |-> IF q = p THEN f ELSE mapping[q]]
  /\ UNCHANGED ram

MorePages(seg) == offset < seg.mem_size

\* The commands after the segments are skipped.
MapSegmentPage ==
  /\ pc = "map"
  /\ i <= Len(kex_segs)
  /\ MorePages(kex_segs[i])
  /\ \E f \in FrameIds : MapPage(PageOf(kex_segs[i].rva + offset), f)
  /\ offset' = offset + PageSize
  /\ UNCHANGED <<ramdisk, pc, linker, i>>

\* Storing val[a] at each address of S, all of them mapped.
Reaches(S) == \A a \in S : PageOf(a) \in DOMAIN mapping
Store(S, val) ==
  ram' = [f \in FrameIds |-> [o \in Offsets |->
            IF \E a \in S : mapping[PageOf(a)] = f /\ a % PageSize = o
              THEN val[CHOOSE a \in S : mapping[PageOf(a)] = f /\ a % PageSize = o]
              ELSE ram[f][o]]]

RunOf(a, n) == a..(a + n - 1)

\* Mutated Filled: the segment is not cleared.
FilledNot(a) == ram[mapping[PageOf(a)]][a % PageSize]
Filled(a) == Zero

\* memset of the whole segment.  An address that is not mapped faults, and
\* isr14_handler stops the machine.
ZeroSegment ==
  LET seg == kex_segs[i]
      addrs == RunOf(seg.rva, seg.mem_size)
  IN
  /\ pc = "map"
  /\ i <= Len(kex_segs)
  /\ ~ MorePages(seg)
  /\ IF Reaches(addrs)
       THEN Store(addrs, [a \in addrs |-> Filled(a)]) /\ pc' = "copy"
       ELSE pc' = "fault" /\ UNCHANGED ram
  /\ UNCHANGED <<ramdisk, linker, i, offset, allocatable, held, mapping>>

\* memcpy from the file, then on to the next command.
CopySegment ==
  LET seg == kex_segs[i]
      addrs == RunOf(seg.rva, seg.file_size)
  IN
  /\ pc = "copy"
  /\ IF seg.file_size > 0
       THEN Store(addrs, [a \in addrs |-> out[seg.file_offset + (a - seg.rva) + 1]])
       ELSE UNCHANGED ram
  /\ i' = i + 1
  /\ offset' = 0
  /\ pc' = "map"
  /\ UNCHANGED <<ramdisk, linker, allocatable, held, mapping>>

\* Past the integrity command: the stack, and into ring 3.
EnterProgram ==
  /\ pc = "map"
  /\ i > Len(kex_segs)
  /\ \E f \in FrameIds : MapPage(StackPage, f)
  /\ pc' = "user"
  /\ UNCHANGED <<ramdisk, linker, i, offset>>

Stopped == pc \in {"user", "fault", "halted"} /\ UNCHANGED vars

Next ==
  \/ ReadHeader
  \/ StartPlacing
  \/ PlaceSegment
  \/ WriteCommands
  \/ WriteSegment
  \/ FinishLinking
  \/ OpenProgram
  \/ MapSegmentPage
  \/ ZeroSegment
  \/ CopySegment
  \/ EnterProgram
  \/ Stopped

Spec == Init /\ [][Next]_vars

-----------------------------------------------------------------------------
TypeOK ==
  /\ pc \in {"read", "place", "write", "boot", "map", "copy", "user", "fault", "halted"}
  /\ kex_segs \in Seq([rva : Nat, mem_size : Nat, file_size : Nat,
                       file_offset : Nat])
  /\ Len(kex_segs) <= Len(elf_segments) /\ Len(elf_segments) <= Len(elf)
  /\ current_file_pos \in Nat
  /\ i \in 1..(Len(elf) + 1)
  /\ offset \in Nat
  /\ held \subseteq allocatable
  /\ DOMAIN mapping \subseteq Nat
  /\ mapping \in [DOMAIN mapping -> held]
  /\ DOMAIN ram = FrameIds

\* The loader finds in the file, at the place the command of a loadable segment
\* names, the data of that segment and not that of another or of a command,
\* whatever headers lie between them and however the sizes fall on the alignment.
CommandOf(h) == Cardinality({g \in Segments(elf) : g <= h})
FileHolds ==
  /\ TypeOK
  /\ pc \in {"boot", "map", "copy", "user"} =>
       \A h \in Segments(elf) :
         LET seg == kex_segs[CommandOf(h)] IN
         seg.file_size > 0 =>
           /\ seg.file_offset + seg.file_size <= Len(out)
           /\ \A k \in 0..(seg.file_size - 1) :
                out[seg.file_offset + k + 1] = <<h, k>>

\* When the program starts, every byte of every segment is where the ELF file
\* says, and the bytes without data are zero, if the program was linked as
\* userland.ld does.  Loading faults only for a segment that begins inside a
\* page.
InMemory(a) == ram[mapping[PageOf(a)]][a % PageSize]
LoadedIsLinked ==
  /\ pc = "user" /\ AsLinked(elf) =>
       \A h \in Segments(elf) :
         LET seg == elf[h] IN
         \A k \in 0..(seg.memsz - 1) :
           InMemory(seg.vaddr + k) = IF k < seg.filesz THEN <<h, k>> ELSE Zero
  /\ pc = "fault" => ~ Aligned(elf)
=============================================================================

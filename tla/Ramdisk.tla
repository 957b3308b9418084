------------------------------ MODULE Ramdisk ------------------------------
(***************************************************************************)
(* The ramdisk: fs_init, fs_get_file and fs_cat of kernel/kernel/fs.c walk *)
(* over a tar archive, from header to header, by the sizes in the headers. *)
(*                                                                         *)
(* An archive is the list of its files; Position says where tar puts the   *)
(* header of each.  What lies at an address is looked up there: a header,  *)
(* or the zero that ends the archive.                                      *)
(***************************************************************************)
EXTENDS Integers, Sequences

CONSTANTS
  Names,
  Archives,  \* lists of files, each with its name and size
  Block,     \* 512
  Base,      \* 8
  Digits,    \* 11
  Word       \* 2^32, the width of unsigned int

\* kex: the data begin with the magic of a program.  bad: where they hold the
\* magic of a video, -1 for nowhere.
Files == [name : Names, size : Nat, kex : BOOLEAN, bad : Int]

\* What is left of a number when its last j digits are taken off, and the
\* digits of its field in a header.
Leading(n) == LET left[j \in 0..Digits] == IF j = 0 THEN n ELSE left[j - 1] \div Base
              IN  left
Octal(n) == [j \in 1..Digits |-> Leading(n)[Digits - j] % Base]

ASSUME RamdiskAssumption ==
  /\ Block \in Nat \ {0} /\ Base \in Nat \ {0, 1} /\ Digits \in Nat /\ Word \in Nat
  /\ Archives \subseteq Seq(Files)
  /\ \A a \in Archives : \A k \in 1..Len(a) :
       /\ Leading(a[k].size)[Digits] = 0 /\ a[k].size + Block <= Word
       /\ a[k].bad < a[k].size

VARIABLES
  archive,
  pc,        \* "off", "idle", "walk"
  op,        \* fs_init, fs_get_file or fs_cat
  target,    \* the name looked for
  header,    \* an address, relative to fs_start_addr
  found,     \* what fs_get_file returned or fs_cat printed: <<address, size>>
  listed     \* history: the files a walk has passed

ramdisk == <<archive, pc, op, target, header, found, listed>>

NULL == <<>>
NoName == "none"

\* Where tar puts the header of file k, and after the last one the end.
Padded(n) == Block * ((n + Block - 1) \div Block)
Positions(a) ==
  LET at[k \in 1..(Len(a) + 1)] ==
        IF k = 1 THEN 0 ELSE at[k - 1] + Block + Padded(a[k - 1].size)
  IN  at
Position(k) == Positions(archive)[k]
End == Len(archive) + 1
FileAt(a) == CHOOSE k \in 1..Len(archive) : Position(k) = a

-----------------------------------------------------------------------------
RamdiskInit ==
  /\ archive \in Archives
  /\ pc = "off"
  /\ op = "none"
  /\ target = NoName
  /\ header = 0
  /\ found = NULL
  /\ listed = <<>>

\* The digits of the size field, the last one first; count and size wrap.
Count == LET count[j \in 0..Digits] == IF j = 0 THEN 1 ELSE (count[j - 1] * Base) % Word
         IN  count
get_size(in) ==
  LET size[j \in 0..Digits] ==
        IF j = 0 THEN 0
        ELSE (size[j - 1] + in[Digits + 1 - j] * Count[j - 1]) % Word
  IN  size[Digits]

\* Mutated NextOffset: a full last block is counted twice; a file without
\* data is given a block.
NextOffsetMore(size) == Block + (((size + Block) % Word) \div Block) * Block
NextOffset(size) == Block + (((size + Block - 1) % Word) \div Block) * Block

Here == archive[FileAt(header)]
HereSize == get_size(Octal(Here.size))

AtEnd == header = Position(End)

Start(o, name) ==
  /\ op' = o
  /\ target' = name
  /\ header' = 0
  /\ found' = NULL
  /\ listed' = <<>>
  /\ pc' = "walk"
  /\ UNCHANGED archive

fs_init == pc = "off" /\ Start("fs_init", NoName)
fs_get_file == pc = "idle" /\ \E name \in Names : Start("fs_get_file", name)
fs_cat == pc = "idle" /\ \E name \in Names : Start("fs_cat", name)

Matches == op # "fs_init" /\ Here.name = target

\* Mutated PassFile: the walk goes on without moving to the next header.
PassFileAgain ==
  /\ pc = "walk"
  /\ ~ AtEnd
  /\ ~ Matches
  /\ UNCHANGED ramdisk
PassFile ==
  /\ pc = "walk"
  /\ ~ AtEnd
  /\ ~ Matches
  /\ header' = header + NextOffset(HereSize)
  /\ listed' = Append(listed, FileAt(header))
  /\ UNCHANGED <<archive, pc, op, target, found>>

FindFile ==
  /\ pc = "walk"
  /\ ~ AtEnd
  /\ Matches
  /\ found' = <<header + Block, HereSize>>
  /\ pc' = "idle"
  /\ UNCHANGED <<archive, op, target, header, listed>>

\* The walk ends at a header whose name is empty.
EndWalk ==
  /\ pc = "walk"
  /\ AtEnd
  /\ pc' = "idle"
  /\ UNCHANGED <<archive, op, target, header, found, listed>>

Walk == PassFile \/ FindFile \/ EndWalk

-----------------------------------------------------------------------------
\* What is returned is the first file of that name: the address of its data
\* and its size; NULL only when there is none.
FirstMatch ==
  LET named == {k \in 1..Len(archive) : archive[k].name = target} IN
  \/ named = {} /\ found = NULL
  \/ \E k \in named :
       /\ \A j \in named : k <= j
       /\ found = <<Position(k) + Block, archive[k].size>>

\* A walk is always at a header or at the end, never inside the data of a file,
\* and it gives what the archive holds: fs_init goes over every file once, in
\* their order, and the others find the first match.
WalkFinds ==
  /\ \E k \in 1..End : header = Position(k)
  /\ pc = "idle" =>
       IF op = "fs_init" THEN listed = [k \in 1..Len(archive) |-> k] ELSE FirstMatch
=============================================================================

----------------------------- MODULE KexProofs ------------------------------
(***************************************************************************)
(* From the linker to ring 3, for every page size, every layout of header  *)
(* and commands, and every ELF file: the file holds what its commands say, *)
(* and what was linked as userland.ld does is what is in memory.           *)
(***************************************************************************)
EXTENDS Kex, SequenceTheorems, FiniteSetTheorems, TLAPS

-----------------------------------------------------------------------------
(* Pages and roundings.                                                    *)

LEMMA Quotients ==
  ASSUME NEW m \in Nat \ {0}, NEW q \in Int, NEW r \in 0..(m - 1)
  PROVE  (q * m + r) % m = r /\ (q * m + r) \div m = q
  <1> DEFINE n == q * m + r
             e == n \div m
             s == n % m
  <1>1. q * m \in Int /\ n \in Int
    OBVIOUS
  <1>2. e \in Int /\ s \in 0..(m - 1) /\ n = m * e + s
    BY <1>1
  <1>3. m * e \in Int /\ m * (q - e) = q * m - m * e
    BY <1>2
  <1>4. m * (q - e) = s - r
    BY <1>1, <1>2, <1>3
  <1>5. ASSUME q - e >= 1 PROVE FALSE
    <2>1. m * (q - e) >= m
      BY <1>2, <1>5
    <2> QED BY <1>2, <1>4, <2>1
  <1>6. ASSUME q - e <= -1 PROVE FALSE
    <2>1. m * (q - e) <= -m
      BY <1>2, <1>6
    <2> QED BY <1>2, <1>4, <2>1
  <1>7. q = e /\ s = r
    BY <1>2, <1>4, <1>5, <1>6
  <1> QED BY <1>7

LEMMA Division ==
  ASSUME NEW q \in Int, NEW r \in 0..(PageSize - 1)
  PROVE  (q * PageSize + r) % PageSize = r /\ (q * PageSize + r) \div PageSize = q
  BY Quotients, KexAssumption

LEMMA Remainders ==
  ASSUME NEW m \in Nat \ {0}, NEW a \in Nat
  PROVE  \E q \in Nat, r \in 0..(m - 1) : q = a \div m /\ r = a % m /\ a = q * m + r
  <1>0. PICK q, r : q = a \div m /\ r = a % m
    OBVIOUS
  <1>1. a \in Int /\ m \in Int /\ m > 0
    OBVIOUS
  <1>2. q \in Int /\ r \in 0..(m - 1)
    BY <1>0
  <1>3. r = a - m * q
    BY <1>0, <1>1
  <1>4. q * m = m * q /\ q * m \in Int
    BY <1>1, <1>2
  <1>5. ASSUME q < 0 PROVE FALSE
    <2>1. m * q <= -m
      BY <1>1, <1>2, <1>5
    <2> QED BY <1>1, <1>2, <1>3, <2>1
  <1>6. q \in Nat /\ a = q * m + r
    BY <1>1, <1>2, <1>3, <1>4, <1>5
  <1> QED BY <1>0, <1>2, <1>6, Zenon

\* An address is its page and its place in it.
LEMMA Split ==
  ASSUME NEW a \in Nat
  PROVE  \E q \in Nat, r \in Offsets :
           PageOf(a) = q /\ a % PageSize = r /\ a = q * PageSize + r
  BY Remainders, KexAssumption DEF PageOf, Offsets

\* A piece of a page that begins with it is in that page.
LEMMA InPage ==
  ASSUME NEW a \in Nat, a % PageSize = 0, NEW k \in Offsets
  PROVE  PageOf(a + k) = PageOf(a) /\ (a + k) % PageSize = k
  <1>1. PICK q \in Nat, r \in Offsets :
           PageOf(a) = q /\ a % PageSize = r /\ a = q * PageSize + r
    BY Split
  <1>2. a + k = q * PageSize + k /\ k \in 0..(PageSize - 1) /\ q \in Int
    BY <1>1, KexAssumption DEF Offsets
  <1>3. (q * PageSize + k) % PageSize = k /\ (q * PageSize + k) \div PageSize = q
    BY <1>2, Division
  <1> QED BY <1>1, <1>2, <1>3 DEF PageOf

LEMMA Multiples ==
  ASSUME NEW a \in Nat, NEW b \in Nat, a % PageSize = 0, b % PageSize = 0
  PROVE  (a + b) % PageSize = 0
  <1>1. PICK q \in Nat, r \in Offsets :
           PageOf(a) = q /\ a % PageSize = r /\ a = q * PageSize + r
    BY Split
  <1>2. PICK t \in Nat, u \in Offsets :
           PageOf(b) = t /\ b % PageSize = u /\ b = t * PageSize + u
    BY Split
  <1>3. PageSize \in Nat \ {0}
    BY KexAssumption
  <1>4. q + t \in Int /\ 0 \in 0..(PageSize - 1)
    BY <1>3
  <1>5. ((q + t) * PageSize + 0) % PageSize = 0
    BY <1>4, Division
  <1>6. (q + t) * PageSize + 0 = a + b
    BY <1>1, <1>2, <1>3
  <1> QED BY <1>5, <1>6

LEMMA Rounding ==
  ASSUME NEW n \in Nat
  PROVE  RoundUp(n) \in Nat /\ RoundUp(n) >= n
  <1>1. \A m \in Nat \ {0} : m * ((n + m - 1) \div m) \in Nat /\ m * ((n + m - 1) \div m) >= n
    <2> TAKE m \in Nat \ {0}
    <2> DEFINE a == n + m - 1
               q == a \div m
               r == a % m
    <2>1. a \in Nat /\ m \in Int /\ m > 0
      OBVIOUS
    <2>2. q \in Nat /\ r \in 0..(m - 1) /\ a = q * m + r
      BY <2>1, Remainders
    <2>3. q * m = m * q /\ q * m \in Nat
      BY <2>1, <2>2
    <2> HIDE DEF q, r
    <2>4. q * m >= n
      BY <2>1, <2>2, <2>3
    <2> QED BY <2>3, <2>4 DEF q
  <1> QED BY <1>1, KexAssumption DEF RoundUp

-----------------------------------------------------------------------------
(* The numbers of the commands.                                            *)

LEMMA Header ==
  ASSUME NEW m \in Images
  PROVE  /\ m \in Seq([load : BOOLEAN, vaddr : Nat, memsz : Nat, filesz : Nat])
         /\ Len(m) \in Nat
         /\ \A h \in 1..Len(m) : /\ m[h].vaddr \in Nat /\ m[h].memsz \in Nat
                                 /\ m[h].filesz \in Nat /\ m[h].filesz <= m[h].memsz
  <1>1. m \in Seq([load : BOOLEAN, vaddr : Nat, memsz : Nat, filesz : Nat])
    BY KexAssumption
  <1>2. \A h \in 1..Len(m) : m[h].filesz <= m[h].memsz
    BY KexAssumption
  <1>3. \A h \in 1..Len(m) : m[h] \in [load : BOOLEAN, vaddr : Nat, memsz : Nat, filesz : Nat]
    BY <1>1, ElementOfSeq
  <1>4. \A h \in 1..Len(m) : m[h].vaddr \in Nat /\ m[h].memsz \in Nat /\ m[h].filesz \in Nat
    BY <1>3
  <1> QED BY <1>1, <1>2, <1>4, LenProperties

LEMMA Counting ==
  ASSUME elf \in Images, NEW n \in Nat
  PROVE  /\ CommandOf(n) \in 0..n
         /\ n = 0 => CommandOf(n) = 0
         /\ n + 1 \in Segments(elf) => CommandOf(n + 1) = CommandOf(n) + 1
         /\ n + 1 \notin Segments(elf) => CommandOf(n + 1) = CommandOf(n)
  <1> DEFINE S(k) == {g \in Segments(elf) : g <= k}
  <1>1. Segments(elf) \subseteq Nat \ {0}
    BY Header DEF Segments
  <1>2. S(n) \subseteq 1..n
    BY <1>1
  <1>3. IsFiniteSet(1..n) /\ Cardinality(1..n) = n
    BY FS_Interval
  <1>4. IsFiniteSet(S(n)) /\ Cardinality(S(n)) \in Nat /\ Cardinality(S(n)) <= n
    BY <1>2, <1>3, FS_Subset, FS_CardinalityType
  <1>5. n = 0 => S(n) = {}
    BY <1>1
  <1>6. n + 1 \in Segments(elf) => S(n + 1) = S(n) \cup {n + 1} /\ n + 1 \notin S(n)
    BY <1>1
  <1>7. n + 1 \notin Segments(elf) => S(n + 1) = S(n)
    BY <1>1
  <1>8. Cardinality({}) = 0
    BY FS_EmptySet
  <1>9. n + 1 \in Segments(elf) => Cardinality(S(n) \cup {n + 1}) = Cardinality(S(n)) + 1
    BY <1>4, <1>6, FS_AddElement
  <1> QED BY <1>4, <1>5, <1>6, <1>7, <1>8, <1>9 DEF CommandOf

-----------------------------------------------------------------------------
(* The inductive invariant.                                                *)

Bytes == Nat \X Nat
FoundSegment == [vaddr : Nat, memsz : Nat, off : Nat, filesz : Nat]
Command == [rva : Nat, mem_size : Nat, file_size : Nat, file_offset : Nat]

Types ==
  /\ pc \in {"read", "place", "write", "boot", "map", "copy", "user", "fault", "halted"}
  /\ elf \in Images
  /\ elf_segments \in Seq(FoundSegment)
  /\ kex_segs \in Seq(Command)
  /\ current_file_pos \in Nat
  /\ out \in Seq(Bytes)
  /\ i \in Nat \ {0}
  /\ offset \in Nat
  /\ allocatable = FrameIds
  /\ held \subseteq FrameIds
  /\ DOMAIN mapping \subseteq Nat
  /\ mapping \in [DOMAIN mapping -> held]
  /\ DOMAIN ram = FrameIds

\* How far the loop of each phase has come.
Counters ==
  /\ pc = "read" => kex_segs = <<>> /\ i <= Len(elf) + 1
  /\ pc = "place" => Len(kex_segs) = i - 1 /\ i <= Len(elf_segments) + 1
  /\ pc \notin {"read", "place"} =>
       Len(kex_segs) = Len(elf_segments) /\ i <= Len(kex_segs) + 1
  /\ pc = "copy" => i <= Len(kex_segs)
  /\ pc = "user" => i = Len(kex_segs) + 1

\* The loadable headers among those seen are the segments found, in order, each
\* once: the position of a header is the number of the loadable ones up to it.
Seen == IF pc = "read" THEN i - 1 ELSE Len(elf)
Entry(h) == [vaddr |-> elf[h].vaddr, memsz |-> elf[h].memsz,
             off |-> h, filesz |-> elf[h].filesz]
ComesFrom(k, h) == h \in Segments(elf) /\ CommandOf(h) = k /\ elf_segments[k] = Entry(h)
Numbered ==
  /\ Seen <= Len(elf)
  /\ Len(elf_segments) = CommandOf(Seen)
  /\ \A k \in 1..Len(elf_segments) : ComesFrom(k, elf_segments[k].off)
  /\ \A h \in Segments(elf) :
       h <= Seen => CommandOf(h) \in 1..Len(elf_segments)
                    /\ ComesFrom(CommandOf(h), h)

\* The commands describe those segments, and give their data places in the file
\* that follow one another behind the commands.
Describes(c, s) == c.rva = s.vaddr /\ c.mem_size = s.memsz /\ c.file_size = s.filesz
EndOf(c) == c.file_offset + c.file_size
HasData(c) == c.file_size > 0
Placed ==
  /\ \A k \in 1..Len(kex_segs) : Describes(kex_segs[k], elf_segments[k])
  /\ \A k \in 1..Len(kex_segs) :
       HasData(kex_segs[k]) => /\ CommandsEnd <= kex_segs[k].file_offset
                               /\ EndOf(kex_segs[k]) <= current_file_pos
  /\ \A k, l \in 1..Len(kex_segs) :
       k < l /\ HasData(kex_segs[k]) /\ HasData(kex_segs[l]) =>
         EndOf(kex_segs[k]) <= kex_segs[l].file_offset
  /\ pc = "place" => CommandsEnd <= current_file_pos

\* What has been written stays, and what is to be written has its place still
\* ahead of the end of the file.
Holds(c, s, f) ==
  /\ EndOf(c) <= Len(f)
  /\ \A k \in 0..(c.file_size - 1) : f[c.file_offset + k + 1] = <<s.off, k>>
WrittenUpTo == IF pc = "write" THEN i - 1 ELSE Len(kex_segs)
Written ==
  pc \notin {"read", "place"} =>
    /\ \A k \in 1..WrittenUpTo :
         HasData(kex_segs[k]) => Holds(kex_segs[k], elf_segments[k], out)
    /\ pc = "write" =>
         \A k \in i..Len(kex_segs) :
           HasData(kex_segs[k]) => Len(out) <= kex_segs[k].file_offset

\* No two pages share a frame, and a segment that begins a page is mapped as far
\* as the loop has come.
Injective == \A p, q \in DOMAIN mapping : mapping[p] = mapping[q] => p = q
MappedTo(a, n) == \A k \in 0..(n - 1) : PageOf(a + k) \in DOMAIN mapping
Mapped ==
  /\ Injective
  /\ pc = "map" /\ i <= Len(kex_segs) /\ Aligned(elf) =>
       /\ offset % PageSize = 0
       /\ MappedTo(kex_segs[i].rva, offset)
  /\ pc = "fault" => ~ Aligned(elf)

\* The segments loaded are in memory, and so is the clearing of the one at hand.
Expected(s, k) == IF k < s.filesz THEN <<s.off, k>> ELSE Zero
InPlace(s) ==
  \A k \in 0..(s.memsz - 1) : /\ PageOf(s.vaddr + k) \in DOMAIN mapping
                              /\ InMemory(s.vaddr + k) = Expected(s, k)
Cleared(s) ==
  \A k \in 0..(s.memsz - 1) : /\ PageOf(s.vaddr + k) \in DOMAIN mapping
                              /\ InMemory(s.vaddr + k) = Zero
Loading ==
  pc \in {"map", "copy", "user"} /\ AsLinked(elf) =>
    /\ \A k \in 1..(i - 1) : InPlace(elf_segments[k])
    /\ pc = "copy" => Cleared(elf_segments[i])

IInv == Types /\ Counters /\ Numbered /\ Placed /\ Written /\ Mapped /\ Loading

-----------------------------------------------------------------------------
(* Types and the positions of the loops.                                   *)

LEMMA Elements ==
  ASSUME Types
  PROVE  /\ Len(elf) \in Nat /\ Len(elf_segments) \in Nat /\ Len(kex_segs) \in Nat
         /\ \A k \in 1..Len(elf_segments) :
              /\ elf_segments[k].vaddr \in Nat /\ elf_segments[k].memsz \in Nat
              /\ elf_segments[k].off \in Nat /\ elf_segments[k].filesz \in Nat
         /\ \A k \in 1..Len(kex_segs) :
              /\ kex_segs[k].rva \in Nat /\ kex_segs[k].mem_size \in Nat
              /\ kex_segs[k].file_size \in Nat /\ kex_segs[k].file_offset \in Nat
  <1>1. Len(elf) \in Nat
    BY Header DEF Types
  <1>2. \A k \in 1..Len(elf_segments) : elf_segments[k] \in FoundSegment
    BY ElementOfSeq DEF Types
  <1>3. \A k \in 1..Len(kex_segs) : kex_segs[k] \in Command
    BY ElementOfSeq DEF Types
  <1>4. Len(elf_segments) \in Nat /\ Len(kex_segs) \in Nat
    BY LenProperties DEF Types
  <1> QED BY <1>1, <1>2, <1>3, <1>4 DEF FoundSegment, Command

LEMMA Layout ==
  ASSUME Types
  PROVE  CommandsEnd \in Nat
  <1>1. PICK n \in Nat : n = Len(elf_segments)
    BY Elements
  <1>2. SegmentSize \in Nat /\ HeaderSize \in Nat /\ IntegritySize \in Nat
    BY KexAssumption
  <1>3. n * SegmentSize \in Nat
    BY <1>2
  <1> QED BY <1>1, <1>2, <1>3 DEF CommandsEnd, CommandsSize

\* What a piece of the file is, and what is appended to the file is such a piece.
LEMMA Pieces ==
  ASSUME NEW f \in Seq(Bytes), NEW p \in Seq(Bytes)
  PROVE  /\ f \o p \in Seq(Bytes)
         /\ Len(f \o p) = Len(f) + Len(p)
         /\ Len(f) \in Nat /\ Len(p) \in Nat
         /\ \A k \in 1..Len(f) : (f \o p)[k] = f[k]
         /\ \A k \in 1..Len(p) : (f \o p)[Len(f) + k] = p[k]
  <1>1. /\ f \o p \in Seq(Bytes)
        /\ Len(f \o p) = Len(f) + Len(p)
        /\ \A k \in 1..(Len(f) + Len(p)) :
             (f \o p)[k] = IF k <= Len(f) THEN f[k] ELSE p[k - Len(f)]
    BY ConcatProperties
  <1>2. Len(f) \in Nat /\ Len(p) \in Nat
    BY LenProperties
  <1> QED BY <1>1, <1>2

LEMMA DataPiece ==
  ASSUME NEW s \in Nat, NEW n \in Nat
  PROVE  /\ Contents(s, n) \in Seq(Bytes)
         /\ Len(Contents(s, n)) = n
         /\ \A k \in 0..(n - 1) : Contents(s, n)[k + 1] = <<s, k>>
  <1>1. \A k \in 1..n : <<s, k - 1>> \in Bytes
    BY DEF Bytes
  <1>2. Contents(s, n) \in Seq(Bytes) /\ Len(Contents(s, n)) = n
    BY <1>1, IsASeq DEF Contents
  <1> QED BY <1>2 DEF Contents

LEMMA PaddingPiece ==
  ASSUME Types, NEW t \in Nat
  PROVE  /\ Padding(t) \in Seq(Bytes)
         /\ Len(out) <= t => Len(out) + Len(Padding(t)) = t
  <1>1. Zero \in Bytes /\ Len(out) \in Nat
    BY LenProperties DEF Types, Zero, Bytes
  <1>2. CASE Len(out) < t
    <2>1. PICK n \in Nat : n = t - Len(out)
      BY <1>1, <1>2
    <2>2. Padding(t) = [k \in 1..n |-> Zero]
      BY <1>2, <2>1 DEF Padding
    <2>3. Padding(t) \in Seq(Bytes) /\ Len(Padding(t)) = n
      BY <1>1, <2>2, IsASeq
    <2> QED BY <1>1, <2>1, <2>3
  <1>3. CASE ~ (Len(out) < t)
    BY <1>1, <1>3 DEF Padding
  <1> QED BY <1>2, <1>3

LEMMA Appending ==
  ASSUME NEW S, NEW s \in Seq(S), NEW e \in S
  PROVE  /\ Append(s, e) \in Seq(S)
         /\ Len(s) \in Nat /\ Len(Append(s, e)) = Len(s) + 1
         /\ \A k \in 1..Len(s) : Append(s, e)[k] = s[k]
         /\ Append(s, e)[Len(s) + 1] = e
  BY AppendProperties, LenProperties

\* The command for segment k.
CommandFor(k) ==
  [rva |-> elf_segments[k].vaddr, mem_size |-> elf_segments[k].memsz,
   file_size |-> elf_segments[k].filesz,
   file_offset |-> IF elf_segments[k].filesz > 0 THEN current_file_pos ELSE 0]

LEMMA CommandTyped ==
  ASSUME Types, NEW k \in 1..Len(elf_segments)
  PROVE  CommandFor(k) \in Command
  <1>1. current_file_pos \in Nat
    BY DEF Types
  <1>2. (IF elf_segments[k].filesz > 0 THEN current_file_pos ELSE 0) \in Nat
    BY <1>1
  <1> QED BY <1>2, Elements DEF CommandFor, Command

LEMMA EntryTyped ==
  ASSUME Types, NEW h \in 1..Len(elf)
  PROVE  Entry(h) \in FoundSegment
  <1>1. elf \in Images /\ Len(elf) \in Nat
    BY Elements DEF Types
  <1>2. \A k \in 1..Len(elf) : /\ elf[k].vaddr \in Nat /\ elf[k].memsz \in Nat
                               /\ elf[k].filesz \in Nat /\ elf[k].filesz <= elf[k].memsz
    BY <1>1, Header
  <1> QED BY <1>1, <1>2 DEF Entry, FoundSegment

LEMMA Granting ==
  ASSUME Types, NEW p \in Nat, NEW f \in FrameIds, MapPage(p, f)
  PROVE  /\ allocatable' = FrameIds /\ held' \subseteq FrameIds
         /\ f \in held' /\ f \notin held /\ held \subseteq held'
         /\ DOMAIN mapping' = DOMAIN mapping \cup {p}
         /\ DOMAIN mapping' \subseteq Nat
         /\ mapping' \in [DOMAIN mapping' -> held']
         /\ mapping'[p] = f
         /\ \A q \in DOMAIN mapping \ {p} : mapping'[q] = mapping[q]
         /\ ram' = ram
  <1>1. f \in allocatable \ held /\ held' = held \cup {f} /\ allocatable' = allocatable
    BY DEF MapPage, Frames!Grant
  <1>2. mapping' = [q \in DOMAIN mapping \cup {p} |-> IF q = p THEN f ELSE mapping[q]]
    BY DEF MapPage
  <1>3. ram' = ram
    BY DEF MapPage
  <1> QED BY <1>1, <1>2, <1>3 DEF Types

LEMMA CountersInit == Init => Types /\ Counters
  <1> SUFFICES ASSUME Init PROVE Types /\ Counters
    OBVIOUS
  <1>1. elf \in Images /\ Len(elf) \in Nat
    BY Header DEF Init
  <1>2. elf_segments = <<>> /\ kex_segs = <<>> /\ out = <<>>
    BY DEF Init
  <1>3. elf_segments \in Seq(FoundSegment) /\ kex_segs \in Seq(Command) /\ out \in Seq(Bytes)
    BY <1>2
  <1>4. mapping \in [DOMAIN mapping -> held] /\ DOMAIN mapping = {}
    BY DEF Init
  <1>5. DOMAIN ram = FrameIds
    BY DEF Init
  <1> QED BY <1>1, <1>2, <1>3, <1>4, <1>5 DEF Init, Types, Counters

LEMMA TypesStep ==
  ASSUME Types, Counters, [Next]_vars
  PROVE  Types'
  <1> USE DEF linker, memory
  <1>0. Types
    OBVIOUS
  <1>1. CASE ReadHeader
    <2>1. i \in 1..Len(elf)
      BY <1>1, Elements DEF ReadHeader, Types
    <2>2. elf_segments' = Append(elf_segments, Entry(i)) \/ elf_segments' = elf_segments
      BY <1>1 DEF ReadHeader, Entry
    <2>3. elf_segments \in Seq(FoundSegment)
      BY DEF Types
    <2>4. PICK e \in FoundSegment : e = Entry(i)
      BY <2>1, EntryTyped
    <2>5. Append(elf_segments, e) \in Seq(FoundSegment)
      BY <2>3, <2>4, Appending
    <2>6. elf_segments' \in Seq(FoundSegment)
      BY <2>2, <2>3, <2>4, <2>5
    <2> QED BY <1>1, <2>6 DEF ReadHeader, Types
  <1>2. CASE StartPlacing
    <2>1. current_file_pos' \in Nat
      BY <1>2, Layout, Rounding DEF StartPlacing
    <2> QED BY <1>2, <2>1 DEF StartPlacing, Types
  <1>3. CASE PlaceSegment
    <2>1. i \in 1..Len(elf_segments)
      BY <1>3, Elements DEF PlaceSegment, Types
    <2>2. kex_segs' = Append(kex_segs, CommandFor(i))
      BY <1>3 DEF PlaceSegment, CommandFor
    <2>3. kex_segs' \in Seq(Command)
      BY <2>1, <2>2, CommandTyped, Appending DEF Types
    <2>4. current_file_pos + elf_segments[i].filesz \in Nat
      BY <2>1, Elements DEF Types
    <2>5. current_file_pos' \in Nat
      BY <1>3, <2>4, Rounding DEF PlaceSegment, NextFilePos, Types
    <2> QED BY <1>3, <2>3, <2>5 DEF PlaceSegment, Types
  <1>4. CASE WriteCommands
    <2>1. PICK n \in Nat : n = CommandsEnd
      BY Layout
    <2>2. out' = [k \in 1..n |-> CommandByte] /\ CommandByte \in Bytes
      BY <1>4, <2>1 DEF WriteCommands, CommandByte, Bytes
    <2>3. out' \in Seq(Bytes)
      BY <2>2, IsASeq
    <2> QED BY <1>4, <2>3 DEF WriteCommands, Types
  <1>5. CASE WriteSegment
    <2>1. i \in 1..Len(kex_segs) /\ i \in 1..Len(elf_segments)
      BY <1>5, Elements DEF WriteSegment, Types, Counters
    <2>2. Padding(kex_segs[i].file_offset) \in Seq(Bytes)
      BY <2>1, Elements, PaddingPiece
    <2>3. Contents(elf_segments[i].off, kex_segs[i].file_size) \in Seq(Bytes)
      BY <2>1, Elements, DataPiece
    <2>4. out \o Padding(kex_segs[i].file_offset)
              \o Contents(elf_segments[i].off, kex_segs[i].file_size) \in Seq(Bytes)
      BY <2>2, <2>3, Pieces DEF Types
    <2>5. out' \in Seq(Bytes)
      BY <1>5, <2>4 DEF WriteSegment, Types
    <2> QED BY <1>5, <2>5 DEF WriteSegment, Types
  <1>6. CASE FinishLinking
    BY <1>6 DEF FinishLinking, Types
  <1>7. CASE OpenProgram
    BY <1>7 DEF OpenProgram, Types
  <1>8. CASE MapSegmentPage
    <2>1. i \in 1..Len(kex_segs)
      BY <1>8, Elements DEF MapSegmentPage, Types
    <2>2. kex_segs[i].rva + offset \in Nat
      BY <2>1, Elements DEF Types
    <2>3. PageOf(kex_segs[i].rva + offset) \in Nat
      BY <2>2, Split
    <2>4. PICK f \in FrameIds : MapPage(PageOf(kex_segs[i].rva + offset), f)
      BY <1>8 DEF MapSegmentPage
    <2>5. /\ allocatable' = FrameIds /\ held' \subseteq FrameIds
          /\ DOMAIN mapping' \subseteq Nat /\ mapping' \in [DOMAIN mapping' -> held']
          /\ ram' = ram
      BY <2>3, <2>4, Granting
    <2>6. offset' \in Nat
      BY <1>8, KexAssumption DEF MapSegmentPage, Types
    <2> QED BY <1>8, <2>5, <2>6 DEF MapSegmentPage, Types
  <1>9. CASE ZeroSegment
    <2>1. DOMAIN ram' = FrameIds
      BY <1>9 DEF ZeroSegment, Store, Types
    <2>2. pc' \in {"copy", "fault"}
      BY <1>9 DEF ZeroSegment
    <2> QED BY <1>9, <2>1, <2>2 DEF ZeroSegment, Types
  <1>10. CASE CopySegment
    <2>1. DOMAIN ram' = FrameIds
      BY <1>10 DEF CopySegment, Store, Types
    <2> QED BY <1>10, <2>1 DEF CopySegment, Types
  <1>11. CASE EnterProgram
    <2>1. PICK f \in FrameIds : MapPage(StackPage, f)
      BY <1>11 DEF EnterProgram
    <2>2. /\ allocatable' = FrameIds /\ held' \subseteq FrameIds
          /\ DOMAIN mapping' \subseteq Nat /\ mapping' \in [DOMAIN mapping' -> held']
          /\ ram' = ram
      BY <2>1, Granting, KexAssumption
    <2> QED BY <1>11, <2>2 DEF EnterProgram, Types
  <1>12. CASE Stopped \/ UNCHANGED vars
    BY <1>12 DEF Stopped, vars, Types
  <1> QED
    BY <1>1, <1>2, <1>3, <1>4, <1>5, <1>6, <1>7, <1>8, <1>9, <1>10, <1>11, <1>12
    DEF Next

LEMMA CountersStep ==
  ASSUME Types, Counters, [Next]_vars
  PROVE  Counters'
  <1> USE DEF linker, memory
  <1>0. Len(elf) \in Nat /\ Len(elf_segments) \in Nat /\ Len(kex_segs) \in Nat /\ i \in Nat \ {0}
    BY Elements DEF Types
  <1>1. CASE ReadHeader
    BY <1>0, <1>1 DEF ReadHeader, Counters
  <1>2. CASE StartPlacing
    BY <1>0, <1>2 DEF StartPlacing, Counters
  <1>3. CASE PlaceSegment
    <2>1. i \in 1..Len(elf_segments)
      BY <1>0, <1>3 DEF PlaceSegment
    <2>2. kex_segs' = Append(kex_segs, CommandFor(i))
      BY <1>3 DEF PlaceSegment, CommandFor
    <2>3. Len(kex_segs') = Len(kex_segs) + 1
      BY <2>1, <2>2, CommandTyped, Appending DEF Types
    <2> QED BY <1>0, <1>3, <2>1, <2>3 DEF PlaceSegment, Counters
  <1>4. CASE WriteCommands
    BY <1>0, <1>4 DEF WriteCommands, Counters
  <1>5. CASE WriteSegment
    BY <1>0, <1>5 DEF WriteSegment, Counters
  <1>6. CASE FinishLinking
    BY <1>0, <1>6 DEF FinishLinking, Counters
  <1>7. CASE OpenProgram
    BY <1>0, <1>7 DEF OpenProgram, Counters
  <1>8. CASE MapSegmentPage
    BY <1>0, <1>8 DEF MapSegmentPage, Counters
  <1>9. CASE ZeroSegment
    <2>1. pc' \in {"copy", "fault"}
      BY <1>9 DEF ZeroSegment
    <2> QED BY <1>0, <1>9, <2>1 DEF ZeroSegment, Counters
  <1>10. CASE CopySegment
    BY <1>0, <1>10 DEF CopySegment, Counters
  <1>11. CASE EnterProgram
    BY <1>0, <1>11 DEF EnterProgram, Counters
  <1>12. CASE Stopped \/ UNCHANGED vars
    BY <1>12 DEF Stopped, vars, Counters
  <1> QED
    BY <1>1, <1>2, <1>3, <1>4, <1>5, <1>6, <1>7, <1>8, <1>9, <1>10, <1>11, <1>12
    DEF Next

-----------------------------------------------------------------------------
(* The segments found are the loadable headers.                            *)

LEMMA NumberedInit == Init => Numbered
  <1> SUFFICES ASSUME Init PROVE Numbered
    OBVIOUS
  <1>1. elf \in Images /\ elf_segments = <<>> /\ i = 1 /\ pc = "read"
    BY DEF Init
  <1>2. Seen = 0 /\ Len(elf) \in Nat /\ CommandOf(0) = 0 /\ Len(elf_segments) = 0
    BY <1>1, Header, Counting DEF Seen
  <1>3. Segments(elf) \subseteq Nat \ {0}
    BY <1>2 DEF Segments
  <1> QED BY <1>1, <1>2, <1>3 DEF Numbered

\* The phases after reading leave the list of segments as it is.
LEMMA NumberedKept ==
  ASSUME Numbered, UNCHANGED <<elf, elf_segments>>, Seen' = Seen
  PROVE  Numbered'
  <1>1. Segments(elf)' = Segments(elf) /\ \A h : CommandOf(h)' = CommandOf(h)
    BY DEF Segments, CommandOf
  <1>2. \A k, h : ComesFrom(k, h)' = ComesFrom(k, h)
    BY <1>1 DEF ComesFrom, Entry
  <1> QED BY <1>1, <1>2 DEF Numbered

LEMMA NumberedRead ==
  ASSUME Types, Counters, Numbered, ReadHeader
  PROVE  Numbered'
  <1> USE DEF linker, memory
  <1>1. /\ elf \in Images /\ Len(elf) \in Nat /\ i \in 1..Len(elf) /\ pc = "read"
        /\ elf' = elf /\ i' = i + 1 /\ pc' = "read"
    BY Elements DEF ReadHeader, Types
  <1>2. Seen = i - 1 /\ Seen' = i /\ Seen' <= Len(elf')
    BY <1>1 DEF Seen
  <1>3. Segments(elf)' = Segments(elf) /\ \A h : CommandOf(h)' = CommandOf(h)
    BY <1>1 DEF Segments, CommandOf
  <1>4. Segments(elf) \subseteq 1..Len(elf) /\ (elf[i].load <=> i \in Segments(elf))
    BY <1>1 DEF Segments
  <1>5. PICK n \in Nat : n = i - 1
    BY <1>1
  <1>6. /\ i \in Segments(elf) => CommandOf(i) = CommandOf(n) + 1
        /\ i \notin Segments(elf) => CommandOf(i) = CommandOf(n)
    BY <1>1, <1>5, Counting
  <1>7. /\ Len(elf_segments) = CommandOf(n) /\ Len(elf_segments) \in Nat
        /\ \A k \in 1..Len(elf_segments) : ComesFrom(k, elf_segments[k].off)
        /\ \A h \in Segments(elf) :
             h <= n => CommandOf(h) \in 1..Len(elf_segments) /\ ComesFrom(CommandOf(h), h)
    BY <1>2, <1>5, Elements DEF Numbered
  <1>8. CASE i \in Segments(elf)
    <2>1. elf_segments' = Append(elf_segments, Entry(i))
      BY <1>4, <1>8 DEF ReadHeader, Entry
    <2>2. /\ Len(elf_segments') = Len(elf_segments) + 1
          /\ \A k \in 1..Len(elf_segments) : elf_segments'[k] = elf_segments[k]
          /\ elf_segments'[Len(elf_segments) + 1] = Entry(i)
      BY <1>1, <2>1, EntryTyped, Appending DEF Types
    <2>0. PICK j, L : j = i /\ L = Len(elf_segments)
      OBVIOUS
    <2>3. \A k \in 1..L : \A h : ComesFrom(k, h) => ComesFrom(k, h)'
      BY <1>1, <1>3, <2>0, <2>2 DEF ComesFrom, Entry
    <2>4. ComesFrom(L + 1, j)'
      BY <1>1, <1>3, <1>6, <1>5, <1>7, <1>8, <2>0, <2>2 DEF ComesFrom, Entry
    <2>5. Entry(i).off = i
      BY DEF Entry
    <2>6. \A k \in 1..(L + 1) : ComesFrom(k, elf_segments[k].off)'
      BY <1>7, <2>0, <2>2, <2>3, <2>4, <2>5
    <2>7. ASSUME NEW h \in Segments(elf), h <= j
          PROVE  /\ CommandOf(h) \in 1..(L + 1)
                 /\ ComesFrom(CommandOf(h), h)'
      <3>1. CASE h <= n
        BY <1>3, <1>7, <2>0, <2>3, <2>7, <3>1
      <3>2. CASE h = i
        BY <1>3, <1>6, <1>7, <1>8, <2>0, <2>4, <3>2
      <3> QED BY <1>1, <1>4, <1>5, <2>0, <2>7, <3>1, <3>2
    <2>8. Len(elf_segments') = CommandOf(Seen)'
      BY <1>1, <1>2, <1>3, <1>6, <1>7, <1>8, <2>2
    <2> QED BY <1>2, <1>3, <2>0, <2>2, <2>6, <2>7, <2>8 DEF Numbered
  <1>9. CASE i \notin Segments(elf)
    <2>1. elf_segments' = elf_segments
      BY <1>4, <1>9 DEF ReadHeader
    <2>2. \A k, h : ComesFrom(k, h)' = ComesFrom(k, h)
      BY <1>1, <1>3, <2>1 DEF ComesFrom, Entry
    <2>3. \A h \in Segments(elf) : h <= i => h <= n
      BY <1>1, <1>4, <1>5, <1>9
    <2>4. Len(elf_segments') = CommandOf(Seen)'
      BY <1>2, <1>3, <1>6, <1>7, <1>9, <2>1
    <2> QED BY <1>2, <1>3, <1>7, <2>1, <2>2, <2>3, <2>4 DEF Numbered
  <1> QED BY <1>8, <1>9

LEMMA NumberedStep ==
  ASSUME Types, Counters, Numbered, [Next]_vars
  PROVE  Numbered'
  <1> USE DEF linker, memory
  <1>1. CASE ReadHeader
    BY <1>1, NumberedRead
  <1>2. CASE StartPlacing
    <2>1. Seen' = Seen
      BY <1>2, Elements DEF StartPlacing, Seen, Counters, Types
    <2> QED BY <1>2, <2>1, NumberedKept DEF StartPlacing
  <1>3. CASE PlaceSegment
    BY <1>3, NumberedKept DEF PlaceSegment, Seen
  <1>4. CASE WriteCommands
    BY <1>4, NumberedKept DEF WriteCommands, Seen
  <1>5. CASE WriteSegment
    BY <1>5, NumberedKept DEF WriteSegment, Seen
  <1>6. CASE FinishLinking
    BY <1>6, NumberedKept DEF FinishLinking, Seen
  <1>7. CASE OpenProgram
    BY <1>7, NumberedKept DEF OpenProgram, Seen
  <1>8. CASE MapSegmentPage
    BY <1>8, NumberedKept DEF MapSegmentPage, Seen
  <1>9. CASE ZeroSegment
    <2>1. pc' \in {"copy", "fault"}
      BY <1>9 DEF ZeroSegment
    <2> QED BY <1>9, <2>1, NumberedKept DEF ZeroSegment, Seen
  <1>10. CASE CopySegment
    BY <1>10, NumberedKept DEF CopySegment, Seen
  <1>11. CASE EnterProgram
    BY <1>11, NumberedKept DEF EnterProgram, Seen
  <1>12. CASE Stopped \/ UNCHANGED vars
    BY <1>12, NumberedKept DEF Stopped, vars, Seen
  <1> QED
    BY <1>1, <1>2, <1>3, <1>4, <1>5, <1>6, <1>7, <1>8, <1>9, <1>10, <1>11, <1>12
    DEF Next

-----------------------------------------------------------------------------
(* The commands and the places they give.                                  *)

\* Nothing of the file's layout changes once the commands are written.
LEMMA PlacedKept ==
  ASSUME Types, Placed, UNCHANGED <<elf_segments, kex_segs, current_file_pos>>,
         pc' = "place" => pc = "place"
  PROVE  Placed'
  BY DEF Placed, CommandsEnd

LEMMA PlacedPlace ==
  ASSUME Types, Counters, Placed, PlaceSegment
  PROVE  Placed'
  <1> USE DEF linker, memory
  <1>1. /\ i \in 1..Len(elf_segments) /\ Len(kex_segs) = i - 1 /\ pc = "place"
        /\ elf_segments' = elf_segments
    BY Elements DEF PlaceSegment, Types, Counters
  <1>2. PICK j, L : j = i /\ L = Len(kex_segs)
    OBVIOUS
  <1>3. PICK s, c, e : s = elf_segments[j] /\ c = CommandFor(j) /\ e = CommandsEnd
    OBVIOUS
  <1>4. kex_segs' = Append(kex_segs, c)
    BY <1>2, <1>3 DEF PlaceSegment, CommandFor
  <1>5. /\ Len(kex_segs') = j /\ L = j - 1 /\ j \in Nat \ {0}
        /\ \A k \in 1..L : kex_segs'[k] = kex_segs[k]
        /\ kex_segs'[j] = c
    BY <1>1, <1>2, <1>3, <1>4, CommandTyped, Appending, Elements DEF Types
  <1>6. /\ c.rva = s.vaddr /\ c.mem_size = s.memsz /\ c.file_size = s.filesz
        /\ c.file_offset = IF s.filesz > 0 THEN current_file_pos ELSE 0
    BY <1>3 DEF CommandFor
  <1>7. s.filesz \in Nat /\ current_file_pos \in Nat /\ e \in Nat /\ e <= current_file_pos
    BY <1>1, <1>2, <1>3, Elements, Layout DEF Types, Placed
  <1>8. CommandsEnd' = e
    BY <1>1, <1>3 DEF CommandsEnd
  <1>9. /\ current_file_pos' \in Nat /\ current_file_pos <= current_file_pos'
        /\ s.filesz > 0 => current_file_pos + s.filesz <= current_file_pos'
    <2>1. current_file_pos + s.filesz \in Nat
      BY <1>7
    <2>2. /\ RoundUp(current_file_pos + s.filesz) \in Nat
          /\ RoundUp(current_file_pos + s.filesz) >= current_file_pos + s.filesz
      BY <2>1, Rounding
    <2>3. current_file_pos' = IF s.filesz > 0 THEN RoundUp(current_file_pos + s.filesz)
                                              ELSE current_file_pos
      BY <1>2, <1>3 DEF PlaceSegment, NextFilePos
    <2> QED BY <1>7, <2>2, <2>3
  <1>10. \A k \in 1..L :
           /\ Describes(kex_segs[k], elf_segments[k])
           /\ HasData(kex_segs[k]) => /\ e <= kex_segs[k].file_offset
                                      /\ EndOf(kex_segs[k]) <= current_file_pos
           /\ EndOf(kex_segs[k]) \in Nat
    BY <1>2, <1>3, Elements DEF Placed, EndOf
  <1>11. HasData(c) => /\ e <= c.file_offset /\ EndOf(c) <= current_file_pos'
                       /\ c.file_offset = current_file_pos
    BY <1>6, <1>7, <1>9 DEF HasData, EndOf
  <1>12. \A k \in 1..j : Describes(kex_segs'[k], elf_segments[k])
    BY <1>3, <1>5, <1>6, <1>10 DEF Describes
  <1>13. \A k \in 1..j : HasData(kex_segs'[k]) =>
           e <= kex_segs'[k].file_offset /\ EndOf(kex_segs'[k]) <= current_file_pos'
    <2> TAKE k \in 1..j
    <2>1. CASE k \in 1..L
      BY <1>5, <1>7, <1>9, <1>10, <2>1
    <2>2. CASE k = j
      BY <1>5, <1>11, <2>2
    <2> QED BY <1>5, <2>1, <2>2
  <1>14. ASSUME NEW k \in 1..j, NEW l \in 1..j, k < l, HasData(kex_segs'[k]), HasData(kex_segs'[l])
         PROVE  EndOf(kex_segs'[k]) <= kex_segs'[l].file_offset
    <2>1. k \in 1..L
      BY <1>5, <1>14
    <2>2. CASE l \in 1..L
      BY <1>2, <1>5, <1>14, <2>1, <2>2 DEF Placed
    <2>3. CASE l = j
      BY <1>5, <1>10, <1>11, <1>14, <2>1, <2>3
    <2> QED BY <1>5, <2>2, <2>3
  <1>15. e <= current_file_pos'
    BY <1>7, <1>9
  <1> QED BY <1>1, <1>5, <1>8, <1>12, <1>13, <1>14, <1>15 DEF Placed

LEMMA PlacedStep ==
  ASSUME Types, Counters, Placed, [Next]_vars
  PROVE  Placed'
  <1> USE DEF linker, memory
  <1>1. CASE ReadHeader
    <2>1. kex_segs' = <<>> /\ pc' = "read"
      BY <1>1 DEF ReadHeader, Counters
    <2> QED BY <2>1 DEF Placed
  <1>2. CASE StartPlacing
    <2>1. kex_segs' = <<>> /\ elf_segments' = elf_segments
      BY <1>2 DEF StartPlacing, Counters
    <2>2. current_file_pos' = RoundUp(CommandsEnd)
      BY <1>2 DEF StartPlacing
    <2>3. CommandsEnd' = CommandsEnd
      BY <2>1 DEF CommandsEnd
    <2>4. CommandsEnd' <= current_file_pos'
      BY <2>2, <2>3, Layout, Rounding
    <2> QED BY <2>1, <2>4 DEF Placed
  <1>3. CASE PlaceSegment
    BY <1>3, PlacedPlace
  <1>4. CASE WriteCommands
    BY <1>4, PlacedKept DEF WriteCommands
  <1>5. CASE WriteSegment
    BY <1>5, PlacedKept DEF WriteSegment
  <1>6. CASE FinishLinking
    BY <1>6, PlacedKept DEF FinishLinking
  <1>7. CASE OpenProgram
    BY <1>7, PlacedKept DEF OpenProgram
  <1>8. CASE MapSegmentPage
    BY <1>8, PlacedKept DEF MapSegmentPage
  <1>9. CASE ZeroSegment
    <2>1. pc' \in {"copy", "fault"}
      BY <1>9 DEF ZeroSegment
    <2> QED BY <1>9, <2>1, PlacedKept DEF ZeroSegment
  <1>10. CASE CopySegment
    BY <1>10, PlacedKept DEF CopySegment
  <1>11. CASE EnterProgram
    BY <1>11, PlacedKept DEF EnterProgram
  <1>12. CASE Stopped \/ UNCHANGED vars
    BY <1>12, PlacedKept DEF Stopped, vars
  <1> QED
    BY <1>1, <1>2, <1>3, <1>4, <1>5, <1>6, <1>7, <1>8, <1>9, <1>10, <1>11, <1>12
    DEF Next

-----------------------------------------------------------------------------
(* The data of the segments in the file.                                   *)

LEMMA WrittenKept ==
  ASSUME Written, UNCHANGED <<elf_segments, kex_segs, out>>, WrittenUpTo' = WrittenUpTo,
         pc \notin {"read", "place"}, pc' # "write"
  PROVE  Written'
  BY DEF Written

\* Appending keeps what is there.
LEMMA HoldsKept ==
  ASSUME NEW c \in Command, NEW s, NEW f \in Seq(Bytes), NEW p \in Seq(Bytes),
         Holds(c, s, f)
  PROVE  Holds(c, s, f \o p)
  <1>1. c.file_size \in Nat /\ c.file_offset \in Nat
    BY DEF Command
  <1>2. EndOf(c) <= Len(f) /\ Len(f) \in Nat /\ Len(p) \in Nat /\ Len(f \o p) = Len(f) + Len(p)
    BY Pieces DEF Holds
  <1>3. ASSUME NEW k \in 0..(c.file_size - 1)
        PROVE  (f \o p)[c.file_offset + k + 1] = <<s.off, k>>
    <2>1. c.file_offset + k + 1 \in 1..Len(f)
      BY <1>1, <1>2 DEF EndOf
    <2>2. (f \o p)[c.file_offset + k + 1] = f[c.file_offset + k + 1]
      BY <2>1, Pieces
    <2> QED BY <2>2 DEF Holds
  <1>4. EndOf(c) \in Nat
    BY <1>1 DEF EndOf
  <1>5. EndOf(c) <= Len(f \o p)
    BY <1>2, <1>4
  <1> QED BY <1>3, <1>5 DEF Holds

LEMMA WrittenCommands ==
  ASSUME Types, Counters, Placed, WriteCommands
  PROVE  Written'
  <1> USE DEF linker, memory
  <1>1. PICK n \in Nat : n = CommandsEnd
    BY Layout
  <1>2. out' = [k \in 1..n |-> CommandByte] /\ i' = 1 /\ pc' = "write" /\ kex_segs' = kex_segs
    BY <1>1 DEF WriteCommands
  <1>3. Len(out') = n
    BY <1>2
  <1>4. WrittenUpTo' = 0
    BY <1>2 DEF WrittenUpTo
  <1>5. \A k \in 1..Len(kex_segs) : HasData(kex_segs[k]) => Len(out') <= kex_segs[k].file_offset
    BY <1>1, <1>3 DEF Placed
  <1> QED BY <1>2, <1>4, <1>5 DEF Written

LEMMA WrittenSegment ==
  ASSUME Types, Counters, Placed, Written, WriteSegment
  PROVE  Written'
  <1> USE DEF linker, memory
  <1>1. /\ i \in 1..Len(kex_segs) /\ i \in 1..Len(elf_segments) /\ pc = "write" /\ pc' = "write"
        /\ i' = i + 1 /\ kex_segs' = kex_segs /\ elf_segments' = elf_segments
        /\ Len(kex_segs) \in Nat
    BY Elements DEF WriteSegment, Types, Counters
  <1>2. PICK j, c, s : j = i /\ c = kex_segs[j] /\ s = elf_segments[j]
    OBVIOUS
  <1>3. c \in Command /\ c.file_size \in Nat /\ c.file_offset \in Nat /\ s.off \in Nat
    BY <1>1, <1>2, Elements, ElementOfSeq DEF Types
  <1>4. WrittenUpTo = j - 1 /\ WrittenUpTo' = j /\ j \in Nat \ {0}
    BY <1>1, <1>2 DEF WrittenUpTo
  <1>5. /\ \A k \in 1..(j - 1) : HasData(kex_segs[k]) => Holds(kex_segs[k], elf_segments[k], out)
        /\ \A k \in j..Len(kex_segs) : HasData(kex_segs[k]) => Len(out) <= kex_segs[k].file_offset
    BY <1>1, <1>2, <1>4 DEF Written
  <1>6. CASE HasData(c)
    <2>1. PICK p : p = Padding(c.file_offset)
      OBVIOUS
    <2>2. PICK d : d = Contents(s.off, c.file_size)
      OBVIOUS
    <2>3. Len(out) <= c.file_offset
      BY <1>1, <1>2, <1>5, <1>6
    <2>4. p \in Seq(Bytes) /\ Len(out) + Len(p) = c.file_offset
      BY <1>3, <2>1, <2>3, PaddingPiece
    <2>5. d \in Seq(Bytes) /\ Len(d) = c.file_size
      BY <1>3, <2>2, DataPiece
    <2>6. \A k \in 0..(c.file_size - 1) : d[k + 1] = <<s.off, k>>
      BY <1>3, <2>2, DataPiece
    <2>7. out' = (out \o p) \o d
      BY <1>2, <1>6, <2>1, <2>2 DEF WriteSegment, HasData
    <2>8. out \in Seq(Bytes)
      BY DEF Types
    <2>9. PICK f : f = out \o p
      OBVIOUS
    <2>10. f \in Seq(Bytes) /\ Len(f) = c.file_offset
      BY <2>4, <2>8, <2>9, Pieces
    <2>11. Len(out') = EndOf(c) /\ EndOf(c) \in Nat
      <3>1. out' = f \o d
        BY <2>7, <2>9
      <3>2. Len(f \o d) = Len(f) + Len(d)
        BY <2>5, <2>10, Pieces
      <3> QED BY <1>3, <2>5, <2>10, <3>1, <3>2 DEF EndOf
    <2>12. \A k \in 0..(c.file_size - 1) : out'[c.file_offset + k + 1] = <<s.off, k>>
      <3> TAKE k \in 0..(c.file_size - 1)
      <3>0. PICK n, z : n = c.file_size /\ z = c.file_offset
        OBVIOUS
      <3>1. k + 1 \in 1..Len(d) /\ c.file_offset + k + 1 = Len(f) + (k + 1)
        <4>1. n \in Nat /\ z \in Nat /\ k \in 0..(n - 1)
          BY <1>3, <3>0
        <4>2. k + 1 \in 1..n /\ z + k + 1 = z + (k + 1)
          BY <4>1
        <4> QED BY <2>5, <2>10, <3>0, <4>2
      <3>2. (f \o d)[Len(f) + (k + 1)] = d[k + 1]
        BY <2>5, <2>10, <3>1, Pieces
      <3> QED BY <2>6, <2>7, <2>9, <3>1, <3>2
    <2>13. Holds(c, s, out')
      BY <2>11, <2>12 DEF Holds
    <2>14. ASSUME NEW k \in 1..j, HasData(kex_segs[k])
           PROVE  Holds(kex_segs[k], elf_segments[k], out')
      <3>1. CASE k \in 1..(j - 1)
        <4>1. kex_segs[k] \in Command
          BY <1>1, <1>2, ElementOfSeq DEF Types
        <4>2. Holds(kex_segs[k], elf_segments[k], out)
          BY <1>5, <2>14, <3>1
        <4>3. Holds(kex_segs[k], elf_segments[k], f)
          BY <2>4, <2>8, <2>9, <4>1, <4>2, HoldsKept
        <4> QED BY <2>5, <2>7, <2>9, <2>10, <4>1, <4>3, HoldsKept
      <3>2. CASE k = j
        BY <1>2, <2>13, <3>2
      <3> QED BY <1>4, <3>1, <3>2
    <2>15. ASSUME NEW k \in (j + 1)..Len(kex_segs), HasData(kex_segs[k])
           PROVE  Len(out') <= kex_segs[k].file_offset
      <3>1. j \in 1..Len(kex_segs) /\ k \in 1..Len(kex_segs) /\ j < k
        BY <1>1, <1>2, <1>4
      <3>2. EndOf(kex_segs[j]) <= kex_segs[k].file_offset
        BY <1>2, <1>6, <2>15, <3>1 DEF Placed
      <3> QED BY <1>2, <2>11, <3>2
    <2> QED BY <1>1, <1>2, <1>4, <2>14, <2>15 DEF Written
  <1>7. CASE ~ HasData(c)
    <2>1. out' = out
      BY <1>2, <1>7 DEF WriteSegment, HasData
    <2>2. \A k \in 1..j : HasData(kex_segs[k]) => Holds(kex_segs[k], elf_segments[k], out)
      BY <1>2, <1>4, <1>5, <1>7
    <2>3. \A k \in (j + 1)..Len(kex_segs) :
            HasData(kex_segs[k]) => Len(out) <= kex_segs[k].file_offset
      BY <1>1, <1>4, <1>5
    <2> QED BY <1>1, <1>2, <1>4, <2>1, <2>2, <2>3 DEF Written
  <1> QED BY <1>6, <1>7

LEMMA WrittenStep ==
  ASSUME Types, Counters, Placed, Written, [Next]_vars
  PROVE  Written'
  <1> USE DEF linker, memory
  <1>1. CASE ReadHeader
    BY <1>1 DEF ReadHeader, Written
  <1>2. CASE StartPlacing
    BY <1>2 DEF StartPlacing, Written
  <1>3. CASE PlaceSegment
    BY <1>3 DEF PlaceSegment, Written
  <1>4. CASE WriteCommands
    BY <1>4, WrittenCommands
  <1>5. CASE WriteSegment
    BY <1>5, WrittenSegment
  <1>6. CASE FinishLinking
    <2>1. WrittenUpTo' = WrittenUpTo
      BY <1>6, Elements DEF FinishLinking, WrittenUpTo, Counters, Types
    <2> QED BY <1>6, <2>1, WrittenKept DEF FinishLinking
  <1>7. CASE OpenProgram
    BY <1>7, WrittenKept DEF OpenProgram, WrittenUpTo
  <1>8. CASE MapSegmentPage
    BY <1>8, WrittenKept DEF MapSegmentPage, WrittenUpTo
  <1>9. CASE ZeroSegment
    <2>1. pc' \in {"copy", "fault"}
      BY <1>9 DEF ZeroSegment
    <2> QED BY <1>9, <2>1, WrittenKept DEF ZeroSegment, WrittenUpTo
  <1>10. CASE CopySegment
    BY <1>10, WrittenKept DEF CopySegment, WrittenUpTo
  <1>11. CASE EnterProgram
    BY <1>11, WrittenKept DEF EnterProgram, WrittenUpTo
  <1>12. CASE Stopped \/ UNCHANGED vars
    <2>1. UNCHANGED <<pc, i, elf_segments, kex_segs, out>>
      BY <1>12 DEF Stopped, vars
    <2> QED BY <2>1 DEF Written, WrittenUpTo
  <1> QED
    BY <1>1, <1>2, <1>3, <1>4, <1>5, <1>6, <1>7, <1>8, <1>9, <1>10, <1>11, <1>12
    DEF Next

-----------------------------------------------------------------------------
(* The pages mapped.                                                       *)

LEMMA InjectiveGrant ==
  ASSUME Types, Injective, NEW p \in Nat, NEW f \in FrameIds, MapPage(p, f)
  PROVE  Injective'
  <1>1. /\ DOMAIN mapping' = DOMAIN mapping \cup {p} /\ mapping'[p] = f /\ f \notin held
        /\ \A q \in DOMAIN mapping \ {p} : mapping'[q] = mapping[q]
    BY Granting
  <1>2. \A q \in DOMAIN mapping : mapping[q] \in held
    BY DEF Types
  <1> SUFFICES ASSUME NEW q \in DOMAIN mapping', NEW r \in DOMAIN mapping',
                      mapping'[q] = mapping'[r]
               PROVE  q = r
    BY DEF Injective
  <1>3. CASE q = p
    BY <1>1, <1>2, <1>3
  <1>4. CASE r = p
    BY <1>1, <1>2, <1>4
  <1>5. CASE q # p /\ r # p
    BY <1>1, <1>5 DEF Injective
  <1> QED BY <1>3, <1>4, <1>5

\* The segment at hand is one of the program's, as its command says.
LEMMA AtHand ==
  ASSUME Types, Counters, Numbered, Placed, NEW k \in 1..Len(kex_segs),
         pc \notin {"read", "place"}
  PROVE  /\ k \in 1..Len(elf_segments)
         /\ kex_segs[k].rva = elf_segments[k].vaddr
         /\ kex_segs[k].mem_size = elf_segments[k].memsz
         /\ kex_segs[k].file_size = elf_segments[k].filesz
         /\ elf_segments[k].off \in Segments(elf)
         /\ CommandOf(elf_segments[k].off) = k
         /\ elf[elf_segments[k].off].vaddr = elf_segments[k].vaddr
         /\ elf[elf_segments[k].off].memsz = elf_segments[k].memsz
         /\ elf[elf_segments[k].off].filesz = elf_segments[k].filesz
         /\ elf_segments[k].filesz <= elf_segments[k].memsz
  <1>1. k \in 1..Len(elf_segments)
    BY DEF Counters
  <1>2. PICK h : h = elf_segments[k].off
    OBVIOUS
  <1>3. h \in Segments(elf) /\ CommandOf(h) = k /\ elf_segments[k] = Entry(h)
    BY <1>1, <1>2 DEF Numbered, ComesFrom
  <1>4. elf[h].filesz <= elf[h].memsz
    BY <1>3, Header DEF Types, Segments
  <1>5. Describes(kex_segs[k], elf_segments[k])
    BY DEF Placed
  <1> QED BY <1>1, <1>2, <1>3, <1>4, <1>5 DEF Describes, Entry

LEMMA Beginning ==
  ASSUME NEW a
  PROVE  0 % PageSize = 0 /\ PageSize % PageSize = 0 /\ MappedTo(a, 0)
  <1>1. PageSize \in Nat \ {0}
    BY KexAssumption
  <1>2. (0 * PageSize + 0) % PageSize = 0 /\ (1 * PageSize + 0) % PageSize = 0
    BY <1>1, Division
  <1> QED BY <1>1, <1>2 DEF MappedTo

LEMMA MappedPage ==
  ASSUME Types, Counters, Numbered, Placed, Mapped, MapSegmentPage
  PROVE  Mapped'
  <1> USE DEF linker, memory
  <1>1. /\ i \in 1..Len(kex_segs) /\ pc = "map" /\ pc' = "map" /\ i' = i /\ elf' = elf
        /\ kex_segs' = kex_segs /\ offset' = offset + PageSize /\ offset \in Nat
    BY Elements DEF MapSegmentPage, Types
  <1>2. PICK a, n : a = kex_segs[i].rva /\ n = offset
    OBVIOUS
  <1>3. a \in Nat /\ n \in Nat /\ PageSize \in Nat \ {0}
    BY <1>1, <1>2, Elements, KexAssumption
  <1>4. PageOf(a + n) \in Nat
    <2>1. a + n \in Nat
      BY <1>3
    <2> QED BY <2>1, Split
  <1>5. PICK f \in FrameIds : MapPage(PageOf(a + n), f)
    BY <1>2 DEF MapSegmentPage
  <1>6. Injective'
    BY <1>4, <1>5, InjectiveGrant DEF Mapped
  <1>7. DOMAIN mapping' = DOMAIN mapping \cup {PageOf(a + n)}
    BY <1>4, <1>5, Granting
  <1>8. PICK e \in Nat : e = n + PageSize
    BY <1>3
  <1>9. ASSUME Aligned(elf)
        PROVE  e % PageSize = 0 /\ MappedTo(a, e)'
    <2>1. n % PageSize = 0 /\ MappedTo(a, n)
      BY <1>1, <1>2, <1>9 DEF Mapped
    <2>2. a % PageSize = 0
      BY <1>1, <1>2, <1>9, AtHand DEF Aligned
    <2>3. (a + n) % PageSize = 0 /\ e % PageSize = 0
      BY <1>3, <1>8, <2>1, <2>2, Multiples, Beginning
    <2>4. ASSUME NEW k \in 0..(e - 1)
          PROVE  PageOf(a + k) \in DOMAIN mapping'
      <3>1. CASE k \in 0..(n - 1)
        BY <1>7, <2>1, <3>1 DEF MappedTo
      <3>2. CASE k >= n
        <4>1. PICK d : d = k - n
          OBVIOUS
        <4>2. d \in Offsets /\ (a + n) + d = a + k /\ a + n \in Nat
          BY <1>3, <1>8, <3>2, <4>1 DEF Offsets
        <4>3. PageOf((a + n) + d) = PageOf(a + n)
          BY <2>3, <4>2, InPage
        <4> QED BY <1>7, <4>2, <4>3
      <3> QED BY <1>3, <3>1, <3>2
    <2>5. \A k \in 0..(e - 1) : PageOf(a + k) \in DOMAIN mapping'
      BY <2>4
    <2>6. MappedTo(a, e)'
      BY <2>5 DEF MappedTo
    <2> QED BY <2>3, <2>6
  <1>10. Aligned(elf') = Aligned(elf)
    BY <1>1
  <1> QED BY <1>1, <1>2, <1>6, <1>8, <1>9, <1>10 DEF Mapped

\* The loop over the pages of a segment that begins a page reaches all of it.
LEMMA Reached ==
  ASSUME Types, Mapped, pc = "map", i \in 1..Len(kex_segs), ~ MorePages(kex_segs[i]),
         Aligned(elf)
  PROVE  Reaches(RunOf(kex_segs[i].rva, kex_segs[i].mem_size))
  <1>1. PICK a, n : a = kex_segs[i].rva /\ n = kex_segs[i].mem_size
    OBVIOUS
  <1>2. a \in Nat /\ n \in Nat /\ offset \in Nat /\ n <= offset
    BY <1>1, Elements DEF Types, MorePages
  <1>3. MappedTo(a, offset)
    BY <1>1 DEF Mapped
  <1>4. ASSUME NEW b \in RunOf(a, n)
        PROVE  PageOf(b) \in DOMAIN mapping
    <2>1. PICK k : k = b - a
      OBVIOUS
    <2>2. k \in 0..(offset - 1) /\ a + k = b
      BY <1>2, <2>1 DEF RunOf
    <2> QED BY <1>3, <2>2 DEF MappedTo
  <1> QED BY <1>1, <1>4 DEF Reaches

LEMMA MappedStep ==
  ASSUME Types, Counters, Numbered, Placed, Mapped, [Next]_vars
  PROVE  Mapped'
  <1> USE DEF linker, memory
  <1>1. CASE ReadHeader
    BY <1>1 DEF ReadHeader, Mapped, Injective
  <1>2. CASE StartPlacing
    BY <1>2 DEF StartPlacing, Mapped, Injective
  <1>3. CASE PlaceSegment
    BY <1>3 DEF PlaceSegment, Mapped, Injective
  <1>4. CASE WriteCommands
    BY <1>4 DEF WriteCommands, Mapped, Injective
  <1>5. CASE WriteSegment
    BY <1>5 DEF WriteSegment, Mapped, Injective
  <1>6. CASE FinishLinking
    BY <1>6 DEF FinishLinking, Mapped, Injective
  <1>7. CASE OpenProgram
    <2>1. MappedTo(kex_segs[i].rva, 0)' /\ 0 % PageSize = 0
      BY Beginning DEF MappedTo
    <2>2. offset' = 0 /\ mapping' = mapping /\ pc' # "fault"
      BY <1>7 DEF OpenProgram
    <2> QED BY <2>1, <2>2 DEF Mapped, Injective, MappedTo
  <1>8. CASE MapSegmentPage
    BY <1>8, MappedPage
  <1>9. CASE ZeroSegment
    <2>1. i \in 1..Len(kex_segs) /\ pc = "map" /\ ~ MorePages(kex_segs[i])
      BY <1>9, Elements DEF ZeroSegment, Types
    <2>2. pc' = "fault" => ~ Reaches(RunOf(kex_segs[i].rva, kex_segs[i].mem_size))
      BY <1>9 DEF ZeroSegment
    <2>3. pc' = "fault" => ~ Aligned(elf)
      BY <2>1, <2>2, Reached
    <2>4. pc' \in {"copy", "fault"} /\ mapping' = mapping /\ elf' = elf
      BY <1>9 DEF ZeroSegment
    <2> QED BY <2>3, <2>4 DEF Mapped, Injective
  <1>10. CASE CopySegment
    <2>1. MappedTo(kex_segs[i].rva, 0)' /\ 0 % PageSize = 0
      BY Beginning DEF MappedTo
    <2>2. offset' = 0 /\ mapping' = mapping /\ pc' = "map"
      BY <1>10 DEF CopySegment
    <2> QED BY <2>1, <2>2 DEF Mapped, Injective, MappedTo
  <1>11. CASE EnterProgram
    <2>1. PICK f \in FrameIds : MapPage(StackPage, f)
      BY <1>11 DEF EnterProgram
    <2>2. Injective'
      BY <2>1, InjectiveGrant, KexAssumption DEF Mapped
    <2> QED BY <1>11, <2>2 DEF EnterProgram, Mapped
  <1>12. CASE Stopped \/ UNCHANGED vars
    <2>1. UNCHANGED <<pc, i, offset, kex_segs, elf, mapping>>
      BY <1>12 DEF Stopped, vars
    <2> QED BY <2>1 DEF Mapped, Injective, MappedTo
  <1> QED
    BY <1>1, <1>2, <1>3, <1>4, <1>5, <1>6, <1>7, <1>8, <1>9, <1>10, <1>11, <1>12
    DEF Next

-----------------------------------------------------------------------------
(* What is in memory.                                                      *)

\* Storing at the addresses of S changes what is read at those and at no others:
\* no two addresses are the same place of a frame.
LEMMA Storing ==
  ASSUME Types, Injective, NEW S \in SUBSET Nat, NEW val, Reaches(S), Store(S, val),
         mapping' = mapping
  PROVE  /\ \A a \in S : InMemory(a)' = val[a]
         /\ \A a \in Nat \ S : PageOf(a) \in DOMAIN mapping => InMemory(a)' = InMemory(a)
  <1> DEFINE Same(b, f, o) == mapping[PageOf(b)] = f /\ b % PageSize = o
  <1>1. ASSUME NEW a \in Nat, PageOf(a) \in DOMAIN mapping, NEW b \in S,
               Same(b, mapping[PageOf(a)], a % PageSize)
        PROVE  b = a
    <2>1. PageOf(b) \in DOMAIN mapping
      BY DEF Reaches
    <2>2. PageOf(b) = PageOf(a)
      BY <1>1, <2>1 DEF Injective
    <2>3. PICK q \in Nat, r \in Offsets :
            PageOf(a) = q /\ a % PageSize = r /\ a = q * PageSize + r
      BY Split
    <2>4. PICK t \in Nat, u \in Offsets :
            PageOf(b) = t /\ b % PageSize = u /\ b = t * PageSize + u
      BY Split
    <2>5. t = q /\ u = r
      BY <1>1, <2>2, <2>3, <2>4
    <2> QED BY <2>3, <2>4, <2>5
  <1>2. ASSUME NEW a \in Nat, PageOf(a) \in DOMAIN mapping
        PROVE  InMemory(a)' = IF a \in S THEN val[a] ELSE InMemory(a)
    <2>1. PICK f, o : f = mapping[PageOf(a)] /\ o = a % PageSize
      OBVIOUS
    <2>2. f \in FrameIds /\ o \in Offsets
      BY <1>2, <2>1, Split DEF Types
    <2>3. InMemory(a)' = ram'[f][o] /\ InMemory(a) = ram[f][o]
      BY <2>1 DEF InMemory, PageOf
    <2>4. ram'[f][o] = IF \E b \in S : Same(b, f, o)
                         THEN val[CHOOSE b \in S : Same(b, f, o)] ELSE ram[f][o]
      BY <2>2 DEF Store
    <2>5. \A b \in S : Same(b, f, o) => b = a
      BY <1>1, <1>2, <2>1
    <2>6. Same(a, f, o)
      BY <2>1
    <2> HIDE DEF Same
    <2>7. CASE a \in S
      <3>1. (CHOOSE b \in S : Same(b, f, o)) = a
        BY <2>5, <2>6, <2>7
      <3> QED BY <2>3, <2>4, <2>6, <2>7, <3>1
    <2>8. CASE a \notin S
      BY <2>3, <2>4, <2>5, <2>8
    <2> QED BY <2>7, <2>8
  <1>3. \A a \in S : a \in Nat /\ PageOf(a) \in DOMAIN mapping
    BY DEF Reaches
  <1> QED BY <1>2, <1>3

\* Pages of two segments, and the page of the stack, are different.
LEMMA SegmentsApart ==
  ASSUME Types, Counters, Numbered, Placed, AsLinked(elf), pc \notin {"read", "place"},
         NEW k \in 1..Len(kex_segs), NEW m \in 0..(elf_segments[k].memsz - 1)
  PROVE  /\ PageOf(elf_segments[k].vaddr + m) # StackPage
         /\ \A l \in 1..Len(kex_segs) : \A n \in 0..(elf_segments[l].memsz - 1) :
              PageOf(elf_segments[k].vaddr + m) = PageOf(elf_segments[l].vaddr + n) => k = l
  <1>1. /\ elf_segments[k].off \in Segments(elf)
        /\ CommandOf(elf_segments[k].off) = k
        /\ elf[elf_segments[k].off].vaddr = elf_segments[k].vaddr
        /\ elf[elf_segments[k].off].memsz = elf_segments[k].memsz
    BY AtHand
  <1>2. PageOf(elf_segments[k].vaddr + m) \in PagesOf(elf[elf_segments[k].off])
    BY <1>1 DEF PagesOf
  <1>3. ASSUME NEW l \in 1..Len(kex_segs), NEW n \in 0..(elf_segments[l].memsz - 1),
               PageOf(elf_segments[k].vaddr + m) = PageOf(elf_segments[l].vaddr + n)
        PROVE  k = l
    <2>1. /\ elf_segments[l].off \in Segments(elf)
          /\ CommandOf(elf_segments[l].off) = l
          /\ elf[elf_segments[l].off].vaddr = elf_segments[l].vaddr
          /\ elf[elf_segments[l].off].memsz = elf_segments[l].memsz
      BY AtHand
    <2>2. PageOf(elf_segments[l].vaddr + n) \in PagesOf(elf[elf_segments[l].off])
      BY <2>1 DEF PagesOf
    <2>3. PagesOf(elf[elf_segments[k].off]) \cap PagesOf(elf[elf_segments[l].off]) # {}
      BY <1>2, <1>3, <2>2
    <2>4. elf_segments[k].off = elf_segments[l].off
      BY <1>1, <2>1, <2>3 DEF AsLinked
    <2> QED BY <1>1, <2>1, <2>4
  <1>4. StackPage \notin PagesOf(elf[elf_segments[k].off])
    BY <1>1 DEF AsLinked
  <1> QED BY <1>2, <1>3, <1>4

\* A segment in memory stays there as long as its addresses read the same.
Unchanging(s) ==
  \A k \in 0..(s.memsz - 1) :
    PageOf(s.vaddr + k) \in DOMAIN mapping =>
      /\ PageOf(s.vaddr + k) \in DOMAIN mapping'
      /\ InMemory(s.vaddr + k)' = InMemory(s.vaddr + k)

LEMMA InPlaceKept ==
  ASSUME NEW s, Unchanging(s)
  PROVE  (InPlace(s) => InPlace(s)') /\ (Cleared(s) => Cleared(s)')
  BY DEF Unchanging, InPlace, Cleared, Expected, Zero

\* Mapping a page that is not one of the segment's.
LEMMA MapElsewhere ==
  ASSUME Types, NEW p \in Nat, NEW f \in FrameIds, MapPage(p, f), NEW s,
         \A k \in 0..(s.memsz - 1) : PageOf(s.vaddr + k) # p
  PROVE  Unchanging(s)
  <1>1. /\ DOMAIN mapping' = DOMAIN mapping \cup {p} /\ ram' = ram
        /\ \A q \in DOMAIN mapping \ {p} : mapping'[q] = mapping[q]
    BY Granting
  <1> SUFFICES ASSUME NEW k \in 0..(s.memsz - 1), PageOf(s.vaddr + k) \in DOMAIN mapping
               PROVE  /\ PageOf(s.vaddr + k) \in DOMAIN mapping'
                      /\ InMemory(s.vaddr + k)' = InMemory(s.vaddr + k)
    BY DEF Unchanging
  <1>2. PICK a : a = s.vaddr + k
    OBVIOUS
  <1>3. PageOf(a) \in DOMAIN mapping \ {p}
    BY <1>2
  <1>4. mapping'[PageOf(a)] = mapping[PageOf(a)]
    BY <1>1, <1>3
  <1>5. InMemory(a)' = InMemory(a)
    BY <1>1, <1>4 DEF InMemory, PageOf
  <1> QED BY <1>1, <1>2, <1>3, <1>5

\* Mapping a page for segment i, or for the stack, disturbs no segment loaded.
LEMMA LoadingMap ==
  ASSUME Types, Counters, Numbered, Placed, Loading, MapSegmentPage
  PROVE  Loading'
  <1> USE DEF linker, memory
  <1>1. /\ i \in 1..Len(kex_segs) /\ pc = "map" /\ pc' = "map" /\ i' = i /\ elf' = elf
        /\ elf_segments' = elf_segments /\ offset \in Nat /\ Len(kex_segs) \in Nat
        /\ offset < kex_segs[i].mem_size
    BY Elements DEF MapSegmentPage, MorePages, Types
  <1>2. PICK j, n : j = i /\ n = offset
    OBVIOUS
  <1>3. PICK s : s = elf_segments[j]
    OBVIOUS
  <1>4. /\ kex_segs[j].rva = s.vaddr /\ kex_segs[j].mem_size = s.memsz
        /\ s.vaddr \in Nat /\ s.memsz \in Nat
    BY <1>1, <1>2, <1>3, AtHand, Elements
  <1>5. n \in 0..(s.memsz - 1) /\ s.vaddr + n \in Nat
    BY <1>1, <1>2, <1>4
  <1>6. PageOf(s.vaddr + n) \in Nat
    BY <1>5, Split
  <1>7. PICK f \in FrameIds : MapPage(PageOf(s.vaddr + n), f)
    BY <1>2, <1>4 DEF MapSegmentPage
  <1>8. ASSUME AsLinked(elf), NEW k \in 1..(j - 1)
        PROVE  InPlace(elf_segments[k])'
    <2>1. PICK t : t = elf_segments[k]
      OBVIOUS
    <2>2. k \in 1..Len(kex_segs) /\ j \in 1..Len(kex_segs) /\ k # j
      BY <1>1, <1>2
    <2>3. \A m \in 0..(t.memsz - 1) : PageOf(t.vaddr + m) # PageOf(s.vaddr + n)
      BY <1>1, <1>3, <1>5, <1>8, <2>1, <2>2, SegmentsApart
    <2>4. Unchanging(t)
      BY <1>6, <1>7, <2>3, MapElsewhere
    <2>5. InPlace(t)
      BY <1>1, <1>2, <1>8, <2>1 DEF Loading
    <2>6. InPlace(t)'
      BY <2>4, <2>5, InPlaceKept
    <2> QED BY <1>1, <2>1, <2>6
  <1>9. AsLinked(elf') = AsLinked(elf) /\ i' = j
    BY <1>1, <1>2
  <1> QED BY <1>1, <1>8, <1>9 DEF Loading

LEMMA LoadingEnter ==
  ASSUME Types, Counters, Numbered, Placed, Loading, EnterProgram
  PROVE  Loading'
  <1> USE DEF linker, memory
  <1>1. /\ pc = "map" /\ pc' = "user" /\ i' = i /\ elf' = elf
        /\ elf_segments' = elf_segments /\ Len(kex_segs) \in Nat
        /\ i = Len(kex_segs) + 1
    BY Elements DEF EnterProgram, Types, Counters
  <1>2. PICK j : j = i
    OBVIOUS
  <1>3. PICK f \in FrameIds : MapPage(StackPage, f)
    BY DEF EnterProgram
  <1>4. ASSUME AsLinked(elf), NEW k \in 1..(j - 1)
        PROVE  InPlace(elf_segments[k])'
    <2>1. PICK t : t = elf_segments[k]
      OBVIOUS
    <2>2. k \in 1..Len(kex_segs)
      BY <1>1, <1>2
    <2>3. \A m \in 0..(t.memsz - 1) : PageOf(t.vaddr + m) # StackPage
      BY <1>1, <1>4, <2>1, <2>2, SegmentsApart
    <2>4. Unchanging(t)
      BY <1>3, <2>3, MapElsewhere, KexAssumption
    <2>5. InPlace(t)
      BY <1>1, <1>2, <1>4, <2>1 DEF Loading
    <2>6. InPlace(t)'
      BY <2>4, <2>5, InPlaceKept
    <2> QED BY <1>1, <2>1, <2>6
  <1>5. AsLinked(elf') = AsLinked(elf) /\ i' = j
    BY <1>1, <1>2
  <1> QED BY <1>1, <1>4, <1>5 DEF Loading

\* Storing inside of segment i disturbs no other.
LEMMA StoreElsewhere ==
  ASSUME Types, Counters, Numbered, Placed, Injective, AsLinked(elf),
         pc \notin {"read", "place"},
         NEW j \in 1..Len(kex_segs), NEW k \in 1..Len(kex_segs), k # j,
         NEW n \in 0..elf_segments[j].memsz, NEW val,
         Reaches(RunOf(elf_segments[j].vaddr, n)),
         Store(RunOf(elf_segments[j].vaddr, n), val),
         mapping' = mapping
  PROVE  Unchanging(elf_segments[k])
  <1>1. PICK s, t : s = elf_segments[j] /\ t = elf_segments[k]
    OBVIOUS
  <1>2. /\ s.vaddr \in Nat /\ s.memsz \in Nat /\ t.vaddr \in Nat /\ t.memsz \in Nat
        /\ n \in Nat /\ n <= s.memsz
    BY <1>1, AtHand, Elements
  <1>3. PICK S : S = RunOf(s.vaddr, n)
    OBVIOUS
  <1>4. S \in SUBSET Nat
    BY <1>2, <1>3 DEF RunOf
  <1>5. ASSUME NEW m \in 0..(t.memsz - 1), PageOf(t.vaddr + m) \in DOMAIN mapping
        PROVE  InMemory(t.vaddr + m)' = InMemory(t.vaddr + m)
    <2>1. PICK a \in Nat : a = t.vaddr + m
      BY <1>2
    <2>2. ASSUME a \in S PROVE FALSE
      <3>1. PICK x : x = a - s.vaddr
        OBVIOUS
      <3>2. x \in 0..(s.memsz - 1) /\ s.vaddr + x = a
        <4>1. PICK v, z : v = s.vaddr /\ z = s.memsz
          OBVIOUS
        <4>2. v \in Nat /\ z \in Nat /\ n \in Nat /\ n <= z
          BY <1>2, <4>1
        <4>3. a \in v..(v + n - 1)
          BY <1>3, <2>2, <4>1 DEF RunOf
        <4>4. x = a - v
          BY <3>1, <4>1
        <4>5. x \in 0..(z - 1) /\ v + x = a
          BY <4>2, <4>3, <4>4
        <4> QED BY <4>1, <4>5
      <3>3. PageOf(t.vaddr + m) = PageOf(s.vaddr + x)
        BY <2>1, <3>2
      <3>4. k = j
        BY <1>1, <3>2, <3>3, SegmentsApart
      <3> QED BY <3>4
    <2>3. InMemory(a)' = InMemory(a)
      BY <1>1, <1>3, <1>4, <1>5, <2>1, <2>2, Storing
    <2> QED BY <2>1, <2>3
  <1>6. DOMAIN mapping' = DOMAIN mapping
    OBVIOUS
  <1>7. Unchanging(t)
    BY <1>5, <1>6 DEF Unchanging
  <1> QED BY <1>1, <1>7

LEMMA LoadingZero ==
  ASSUME Types, Counters, Numbered, Placed, Mapped, Loading, ZeroSegment
  PROVE  Loading'
  <1> USE DEF linker, memory
  <1>1. /\ i \in 1..Len(kex_segs) /\ pc = "map" /\ i' = i /\ elf' = elf
        /\ elf_segments' = elf_segments /\ mapping' = mapping /\ Len(kex_segs) \in Nat
        /\ pc' \in {"copy", "fault"}
    BY Elements DEF ZeroSegment, Types
  <1>2. PICK j : j = i
    OBVIOUS
  <1>3. PICK s : s = elf_segments[j]
    OBVIOUS
  <1>4. /\ kex_segs[j].rva = s.vaddr /\ kex_segs[j].mem_size = s.memsz
        /\ s.vaddr \in Nat /\ s.memsz \in Nat
    BY <1>1, <1>2, <1>3, AtHand, Elements
  <1>5. PICK S, val : S = RunOf(s.vaddr, s.memsz) /\ val = [a \in S |-> Filled(a)]
    OBVIOUS
  <1>6. pc' = "copy" => Reaches(S) /\ Store(S, val)
    BY <1>2, <1>4, <1>5 DEF ZeroSegment
  <1>7. S \in SUBSET Nat
    BY <1>4, <1>5 DEF RunOf
  <1>8. ASSUME pc' = "copy"
        PROVE  Cleared(s)'
    <2>1. ASSUME NEW k \in 0..(s.memsz - 1)
          PROVE  PageOf(s.vaddr + k) \in DOMAIN mapping /\ InMemory(s.vaddr + k)' = Zero
      <3>1. PICK a : a = s.vaddr + k
        OBVIOUS
      <3>2. a \in S
        BY <1>4, <1>5, <3>1 DEF RunOf
      <3>3. PageOf(a) \in DOMAIN mapping
        BY <1>6, <1>8, <3>2 DEF Reaches
      <3>4. InMemory(a)' = val[a]
        <4>1. Injective /\ mapping' = mapping /\ Reaches(S) /\ Store(S, val)
          BY <1>1, <1>6, <1>8 DEF Mapped
        <4> QED BY <1>7, <3>2, <4>1, Storing
      <3>5. val[a] = Zero
        BY <1>5, <3>2 DEF Filled
      <3> QED BY <3>1, <3>3, <3>4, <3>5
    <2>2. \A k \in 0..(s.memsz - 1) : /\ PageOf(s.vaddr + k) \in DOMAIN mapping'
                                     /\ InMemory(s.vaddr + k)' = Zero
      BY <1>1, <2>1
    <2> QED BY <2>2 DEF Cleared, Zero
  <1>9. ASSUME pc' = "copy", AsLinked(elf), NEW k \in 1..(j - 1)
        PROVE  InPlace(elf_segments[k])'
    <2>1. k \in 1..Len(kex_segs) /\ j \in 1..Len(kex_segs) /\ k # j
      BY <1>1, <1>2
    <2>2. PICK n : n = s.memsz
      OBVIOUS
    <2>3. n \in 0..elf_segments[j].memsz
      BY <1>3, <1>4, <2>2
    <2>4. Unchanging(elf_segments[k])
      BY <1>1, <1>3, <1>5, <1>6, <1>9, <2>1, <2>2, <2>3, StoreElsewhere DEF Mapped
    <2>5. PICK t : t = elf_segments[k]
      OBVIOUS
    <2>6. InPlace(t)
      BY <1>1, <1>2, <1>9, <2>5 DEF Loading
    <2>7. InPlace(t)'
      BY <2>4, <2>5, <2>6, InPlaceKept
    <2> QED BY <1>1, <2>5, <2>7
  <1>10. AsLinked(elf') = AsLinked(elf) /\ i' = j
    BY <1>1, <1>2
  <1>11. pc' = "copy" => Cleared(elf_segments[i])'
    BY <1>1, <1>2, <1>3, <1>8
  <1> QED BY <1>1, <1>9, <1>10, <1>11 DEF Loading

LEMMA LoadingCopy ==
  ASSUME Types, Counters, Numbered, Placed, Written, Mapped, Loading, CopySegment
  PROVE  Loading'
  <1> USE DEF linker, memory
  <1>1. /\ pc = "copy" /\ pc' = "map" /\ i' = i + 1 /\ elf' = elf /\ i \in Nat
        /\ elf_segments' = elf_segments /\ mapping' = mapping /\ Len(kex_segs) \in Nat
    BY Elements DEF CopySegment, Types
  <1>2. i \in 1..Len(kex_segs)
    BY <1>1, Elements DEF Types, Counters
  <1>3. PICK j, s, c : j = i /\ s = elf_segments[j] /\ c = kex_segs[j]
    OBVIOUS
  <1>4. /\ c.rva = s.vaddr /\ c.mem_size = s.memsz /\ c.file_size = s.filesz
        /\ s.filesz <= s.memsz
    BY <1>1, <1>2, <1>3, AtHand
  <1>5. s.vaddr \in Nat /\ s.memsz \in Nat /\ s.filesz \in Nat /\ c.file_offset \in Nat
    BY <1>1, <1>2, <1>3, AtHand, Elements
  <1>6. SUFFICES ASSUME AsLinked(elf)
                 PROVE  \A k \in 1..j : InPlace(elf_segments[k])'
    <2>1. AsLinked(elf') = AsLinked(elf) /\ i' - 1 = j
      BY <1>1, <1>3
    <2> QED BY <1>1, <1>6, <2>1 DEF Loading
  <1>7. Cleared(s) /\ \A k \in 1..(j - 1) : InPlace(elf_segments[k])
    BY <1>1, <1>3, <1>6 DEF Loading
  <1>8. CASE s.filesz = 0
    <2>1. ram' = ram
      BY <1>3, <1>4, <1>8 DEF CopySegment
    <2>2. \A t : Unchanging(t)
      BY <1>1, <2>1 DEF Unchanging, InMemory
    <2>3. ASSUME NEW k \in 1..j PROVE InPlace(elf_segments[k])'
      <3>1. PICK t : t = elf_segments[k]
        OBVIOUS
      <3>2. InPlace(s)
        <4>1. \A n \in 0..(s.memsz - 1) : Expected(s, n) = Zero
          BY <1>8 DEF Expected
        <4> QED BY <1>7, <4>1 DEF Cleared, InPlace
      <3>3. InPlace(t)
        BY <1>1, <1>3, <1>7, <3>1, <3>2
      <3>4. InPlace(t)'
        BY <2>2, <3>3, InPlaceKept
      <3> QED BY <1>1, <3>1, <3>4
    <2> QED BY <2>3
  <1>9. CASE s.filesz > 0
    <2>1. PICK n, S, val : /\ n = s.filesz /\ S = RunOf(s.vaddr, n)
                           /\ val = [a \in S |-> out[c.file_offset + (a - s.vaddr) + 1]]
      OBVIOUS
    <2>2. Store(S, val)
      BY <1>3, <1>4, <1>9, <2>1 DEF CopySegment
    <2>3. n \in Nat /\ n <= s.memsz /\ S \in SUBSET Nat
      BY <1>4, <1>5, <2>1 DEF RunOf
    <2>4. \A a \in S : \E k \in 0..(n - 1) : a = s.vaddr + k /\ k = a - s.vaddr
      <3> TAKE a \in S
      <3>1. PICK v : v = s.vaddr
        OBVIOUS
      <3>2. v \in Nat /\ a \in v..(v + n - 1)
        BY <1>5, <2>1, <3>1 DEF RunOf
      <3>3. PICK k : k = a - v
        OBVIOUS
      <3>4. k \in 0..(n - 1) /\ a = v + k
        BY <2>3, <3>2, <3>3
      <3> QED BY <3>1, <3>3, <3>4
    <2>5. Reaches(S)
      <3> SUFFICES ASSUME NEW a \in S PROVE PageOf(a) \in DOMAIN mapping
        BY DEF Reaches
      <3>1. PICK k \in 0..(n - 1) : a = s.vaddr + k
        BY <2>4
      <3>2. k \in 0..(s.memsz - 1)
        BY <1>5, <2>3, <3>1
      <3> QED BY <1>7, <3>1, <3>2 DEF Cleared
    <2>6. Injective
      BY DEF Mapped
    <2>7. Holds(c, s, out)
      BY <1>1, <1>2, <1>3, <1>4, <1>9 DEF Written, WrittenUpTo, HasData
    <2>8. ASSUME NEW k \in 1..(j - 1)
          PROVE  InPlace(elf_segments[k])'
      <3>1. k \in 1..Len(kex_segs) /\ j \in 1..Len(kex_segs) /\ k # j
        BY <1>2, <1>3
      <3>2. n \in 0..elf_segments[j].memsz
        BY <1>3, <1>5, <2>3
      <3>3. Unchanging(elf_segments[k])
        BY <1>1, <1>3, <1>6, <2>1, <2>2, <2>5, <2>6, <3>1, <3>2, StoreElsewhere
      <3>4. PICK t : t = elf_segments[k]
        OBVIOUS
      <3>5. InPlace(t)'
        BY <1>7, <3>3, <3>4, InPlaceKept
      <3> QED BY <1>1, <3>4, <3>5
    <2>9. ASSUME NEW k \in 0..(s.memsz - 1)
          PROVE  /\ PageOf(s.vaddr + k) \in DOMAIN mapping'
                 /\ InMemory(s.vaddr + k)' = Expected(s, k)
      <3>1. PICK a \in Nat : a = s.vaddr + k
        BY <1>5
      <3>2. PageOf(a) \in DOMAIN mapping /\ InMemory(a) = Zero
        BY <1>7, <3>1 DEF Cleared
      <3>3. CASE k < n
        <4>1. a \in S
          BY <1>5, <2>1, <2>3, <3>1, <3>3 DEF RunOf
        <4>2. InMemory(a)' = val[a]
          BY <1>1, <2>2, <2>3, <2>5, <2>6, <4>1, Storing
        <4>3. PICK m \in 0..(n - 1) : a = s.vaddr + m /\ m = a - s.vaddr
          BY <2>4, <4>1
        <4>4. m = k
          BY <1>5, <3>1, <4>3
        <4>5. val[a] = out[c.file_offset + k + 1]
          BY <2>1, <4>1, <4>3, <4>4
        <4>6. out[c.file_offset + k + 1] = <<s.off, k>>
          BY <1>4, <2>1, <2>7, <4>3, <4>4 DEF Holds
        <4> QED BY <1>1, <2>1, <3>1, <3>2, <3>3, <4>2, <4>5, <4>6 DEF Expected
      <3>4. CASE ~ (k < n)
        <4>1. a \notin S
          <5> SUFFICES ASSUME a \in S PROVE FALSE
            OBVIOUS
          <5>1. PICK m \in 0..(n - 1) : a = s.vaddr + m
            BY <2>4
          <5> QED BY <1>5, <2>3, <3>1, <3>4, <5>1
        <4>2. InMemory(a)' = InMemory(a)
          BY <1>1, <2>2, <2>3, <2>5, <2>6, <3>2, <4>1, Storing
        <4> QED BY <1>1, <2>1, <3>1, <3>2, <3>4, <4>2 DEF Expected
      <3> QED BY <3>3, <3>4
    <2>10. InPlace(s)'
      <3>1. \A k \in 0..(s.memsz - 1) : Expected(s, k)' = Expected(s, k)
        BY DEF Expected, Zero
      <3> QED BY <2>9, <3>1 DEF InPlace
    <2> QED BY <1>1, <1>3, <2>8, <2>10
  <1> QED BY <1>5, <1>8, <1>9

LEMMA LoadingStep ==
  ASSUME Types, Counters, Numbered, Placed, Written, Mapped, Loading, [Next]_vars
  PROVE  Loading'
  <1> USE DEF linker, memory
  <1>1. CASE ReadHeader \/ StartPlacing \/ PlaceSegment \/ WriteCommands
             \/ WriteSegment \/ FinishLinking
    <2>1. pc' \notin {"map", "copy", "user"}
      BY <1>1 DEF ReadHeader, StartPlacing, PlaceSegment, WriteCommands, WriteSegment,
                  FinishLinking
    <2> QED BY <2>1 DEF Loading
  <1>2. CASE OpenProgram
    <2>1. pc' # "copy" /\ i' = 1
      BY <1>2 DEF OpenProgram
    <2> QED BY <2>1 DEF Loading
  <1>3. CASE MapSegmentPage
    BY <1>3, LoadingMap
  <1>4. CASE ZeroSegment
    BY <1>4, LoadingZero
  <1>5. CASE CopySegment
    BY <1>5, LoadingCopy
  <1>6. CASE EnterProgram
    BY <1>6, LoadingEnter
  <1>7. CASE Stopped \/ UNCHANGED vars
    <2>1. UNCHANGED <<pc, i, elf, elf_segments, mapping, ram>>
      BY <1>7 DEF Stopped, vars
    <2>2. \A s : InPlace(s)' = InPlace(s) /\ Cleared(s)' = Cleared(s)
      BY <2>1 DEF InPlace, Cleared, InMemory, Expected
    <2> QED BY <2>1, <2>2 DEF Loading
  <1> QED BY <1>1, <1>2, <1>3, <1>4, <1>5, <1>6, <1>7 DEF Next

-----------------------------------------------------------------------------
(* The theorems.                                                           *)

LEMMA InitHolds == Init => IInv
  <1> SUFFICES ASSUME Init PROVE IInv
    OBVIOUS
  <1>1. Types /\ Counters /\ Numbered
    BY CountersInit, NumberedInit
  <1>2. Placed /\ Written /\ Mapped /\ Loading
    BY DEF Init, Placed, Written, Mapped, Injective, Loading
  <1> QED BY <1>1, <1>2 DEF IInv

LEMMA StepHolds == IInv /\ [Next]_vars => IInv'
  <1> SUFFICES ASSUME IInv, [Next]_vars PROVE IInv'
    OBVIOUS
  <1>1. Types /\ Counters /\ Numbered /\ Placed /\ Written /\ Mapped /\ Loading
    BY DEF IInv
  <1>2. Types' /\ Counters' /\ Numbered'
    BY <1>1, TypesStep, CountersStep, NumberedStep
  <1>3. Placed' /\ Written' /\ Mapped' /\ Loading'
    BY <1>1, PlacedStep, WrittenStep, MappedStep, LoadingStep
  <1> QED BY <1>2, <1>3 DEF IInv

\* The invariant of the linker and the loader.
THEOREM Inductive == Spec => []IInv
  BY InitHolds, StepHolds, PTL DEF Spec

LEMMA TypesHold == IInv => TypeOK
  <1> SUFFICES ASSUME IInv PROVE TypeOK
    OBVIOUS
  <1>1. Types /\ Counters /\ Numbered
    BY DEF IInv
  <1>2. /\ Len(elf) \in Nat /\ Len(elf_segments) \in Nat /\ Len(kex_segs) \in Nat
        /\ i \in Nat \ {0}
    BY <1>1, Elements DEF Types
  <1>3. Seen \in Nat /\ Seen <= Len(elf)
    BY <1>1, <1>2 DEF Numbered, Seen
  <1>4. Len(elf_segments) <= Len(elf)
    <2>1. CommandOf(Seen) \in 0..Seen
      BY <1>1, <1>3, Counting DEF Types
    <2> QED BY <1>1, <1>2, <1>3, <2>1 DEF Numbered
  <1>5. Len(kex_segs) <= Len(elf_segments)
    BY <1>1, <1>2 DEF Counters, Types
  <1>6. i \in 1..(Len(elf) + 1)
    BY <1>1, <1>2, <1>4, <1>5 DEF Counters, Types
  <1> QED BY <1>1, <1>4, <1>5, <1>6 DEF Types, TypeOK, Command

\* The place the command of a loadable header names holds that header's data.
LEMMA FileOf ==
  ASSUME IInv, pc \in {"boot", "map", "copy", "user"}, NEW h \in Segments(elf)
  PROVE  /\ CommandOf(h) \in 1..Len(kex_segs)
         /\ elf_segments[CommandOf(h)] = Entry(h)
         /\ HasData(kex_segs[CommandOf(h)]) =>
              Holds(kex_segs[CommandOf(h)], Entry(h), out)
  <1>1. Types /\ Counters /\ Numbered /\ Written
    BY DEF IInv
  <1>2. h <= Seen
    BY <1>1, Elements DEF Segments, Seen
  <1>3. CommandOf(h) \in 1..Len(elf_segments) /\ elf_segments[CommandOf(h)] = Entry(h)
    BY <1>1, <1>2 DEF Numbered, ComesFrom
  <1>4. Len(kex_segs) = Len(elf_segments) /\ WrittenUpTo = Len(kex_segs)
    BY <1>1 DEF Counters, WrittenUpTo
  <1> QED BY <1>1, <1>3, <1>4 DEF Written

\* For every ELF file, whatever headers lie between the loadable ones and
\* however the sizes fall on the page size, the KEX file that kex-ld writes
\* holds the data of each segment where its command says.
THEOREM FileRight == Spec => []FileHolds
  <1>1. IInv => FileHolds
    <2> SUFFICES ASSUME IInv, pc \in {"boot", "map", "copy", "user"},
                        NEW h \in Segments(elf),
                        kex_segs[CommandOf(h)].file_size > 0
                 PROVE  LET seg == kex_segs[CommandOf(h)] IN
                        /\ seg.file_offset + seg.file_size <= Len(out)
                        /\ \A k \in 0..(seg.file_size - 1) :
                             out[seg.file_offset + k + 1] = <<h, k>>
      BY TypesHold DEF FileHolds
    <2>1. Holds(kex_segs[CommandOf(h)], Entry(h), out)
      BY FileOf DEF HasData
    <2>2. Entry(h).off = h
      BY DEF Entry
    <2> QED BY <2>1, <2>2 DEF Holds, EndOf
  <1> QED BY <1>1, Inductive, PTL

\* What load_kex_and_run jumps to is the program as linked: for every ELF file
\* laid out as userland.ld lays one out, every byte of every segment is in
\* memory with the bytes past the data zero; and the loader faults only on a
\* segment that does not begin a page.
THEOREM LoadedRight == Spec => []LoadedIsLinked
  <1>1. IInv => LoadedIsLinked
    <2> SUFFICES ASSUME IInv PROVE LoadedIsLinked
      OBVIOUS
    <2>1. Types /\ Counters /\ Mapped /\ Loading
      BY DEF IInv
    <2>2. ASSUME pc = "user", AsLinked(elf), NEW h \in Segments(elf),
                 NEW k \in 0..(elf[h].memsz - 1)
          PROVE  InMemory(elf[h].vaddr + k) = IF k < elf[h].filesz THEN <<h, k>> ELSE Zero
      <3>1. CommandOf(h) \in 1..Len(kex_segs) /\ elf_segments[CommandOf(h)] = Entry(h)
        BY <2>2, FileOf
      <3>2. i - 1 = Len(kex_segs)
        BY <2>1, <2>2, Elements DEF Counters
      <3>3. InPlace(Entry(h))
        BY <2>1, <2>2, <3>1, <3>2 DEF Loading
      <3> QED BY <3>3 DEF InPlace, Expected, Entry
    <2>3. pc = "fault" => ~ Aligned(elf)
      BY <2>1 DEF Mapped
    <2> QED BY <2>2, <2>3 DEF LoadedIsLinked
  <1> QED BY <1>1, Inductive, PTL
=============================================================================

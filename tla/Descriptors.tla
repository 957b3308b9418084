---------------------------- MODULE Descriptors ----------------------------
(***************************************************************************)
(* The tables the processor reads: gdt_initialize (gdt.c), tss_install     *)
(* (tss.c) and idt_initialize (idt.c), which cut addresses into fields,    *)
(* and how the processor puts them together again.  The selectors that     *)
(* choose descriptors are literals of gdt_flush.S, tss_flush.S, process.S  *)
(* and idt.c.                                                              *)
(*                                                                         *)
(* A number of 16, 32 or 64 bits is the sequence of its bytes, the lowest  *)
(* first.                                                                  *)
(***************************************************************************)
EXTENDS Integers, Sequences

CONSTANTS
  Vectors,    \* the entries of the table of gates considered, 0..255
  Isr,        \* where isr0, isr13, isr14, isr32, isr33 and isr128 are
  TssEntry,   \* where tss_entry is
  KernelRsp   \* the end of tss_kernel_stack

Handled == {0, 13, 14, 32, 33, 128}
Byte == 0..255
Number(n) == [1..n -> Byte]

ASSUME DescriptorsAssumption ==
  /\ Handled \subseteq Vectors /\ Isr \in [Handled -> Number(8)]
  /\ TssEntry \in Number(8) /\ KernelRsp \in Number(8)

VARIABLES gdt, idt, tss

descriptors == <<gdt, idt, tss>>

Zeros(n) == [k \in 1..n |-> 0]
Bytes(x, a, b) == SubSeq(x, a, b)

NoSegment == [limit_low |-> Zeros(2), base_low |-> Zeros(2), base_middle |-> 0,
              access |-> 0, granularity |-> 0, base_high |-> 0]
NoGate == [base_low |-> Zeros(2), sel |-> 0, flags |-> 0,
           base_mid |-> Zeros(2), base_high |-> Zeros(4)]

DescriptorsInit ==
  /\ gdt = [n \in 0..6 |-> NoSegment]
  /\ idt = [n \in Vectors |-> NoGate]
  /\ tss = [rsp0 |-> Zeros(8), iopb_offset |-> 0]

gdt_set_gate(g, num, base, limit, access, gran) ==
  [g EXCEPT ![num] =
     [base_low |-> Bytes(base, 1, 2), base_middle |-> base[3], base_high |-> base[4],
      limit_low |-> Bytes(limit, 1, 2),
      granularity |-> (limit[3] % 16) + 16 * (gran \div 16), access |-> access]]

SizeofTss == 104

\* The upper half of the base goes into the next entry.
\* Mutated tss_install: the two words of the upper half are swapped.
tss_installSwapped(g, idx) ==
  [gdt_set_gate(g, idx, TssEntry, <<SizeofTss, 0, 0, 0>>, 137, 0)
     EXCEPT ![idx + 1] = [NoSegment EXCEPT !.limit_low = Bytes(TssEntry, 7, 8),
                                           !.base_low = Bytes(TssEntry, 5, 6)]]
tss_install(g, idx) ==
  [gdt_set_gate(g, idx, TssEntry, <<SizeofTss, 0, 0, 0>>, 137, 0)
     EXCEPT ![idx + 1] = [NoSegment EXCEPT !.limit_low = Bytes(TssEntry, 5, 6),
                                           !.base_low = Bytes(TssEntry, 7, 8)]]

\* A segment from 0 with the limit 0xFFFFFFFF.
Flat(g, num, access, gran) ==
  gdt_set_gate(g, num, Zeros(8), [k \in 1..4 |-> 255], access, gran)

\* access and gran are 0x9A 0xAF, 0x92 0xCF and, for ring 3, 0xFA 0xAF, 0xF2 0xCF.
gdt_initialize ==
  /\ LET null == gdt_set_gate(gdt, 0, Zeros(8), Zeros(4), 0, 0)
         kernel == Flat(Flat(null, 1, 154, 175), 2, 146, 207)
         user == Flat(Flat(kernel, 3, 250, 175), 4, 242, 207)
     IN  gdt' = tss_install(user, 5)
  /\ tss' = [rsp0 |-> KernelRsp, iopb_offset |-> SizeofTss]
  /\ UNCHANGED idt

\* idt_set_gate(num, base, 0x08, flags)
Gate(base, flags) ==
  [base_low |-> Bytes(base, 1, 2), base_mid |-> Bytes(base, 3, 4),
   base_high |-> Bytes(base, 5, 8), sel |-> 8, flags |-> flags]

idt_initialize ==
  /\ idt' = [n \in Vectors |->
               IF n \notin Handled THEN NoGate
               ELSE Gate(Isr[n], IF n = 128 THEN 238 ELSE 142)]
  /\ UNCHANGED <<gdt, tss>>

-----------------------------------------------------------------------------
(* The processor.                                                          *)

Present(flags) == flags \div 128 = 1
Dpl(flags) == (flags \div 32) % 4
SegmentBase(e) == e.base_low \o <<e.base_middle, e.base_high>>
SegmentLimit(e) == e.limit_low[1] + 256 * e.limit_low[2] + 65536 * (e.granularity % 16)

\* What selector sel names: a code or data segment that may be loaded at
\* privilege cpl.
Selects(sel, code, cpl) ==
  LET e == gdt[sel \div 8] IN
  /\ sel \div 8 # 0 /\ Present(e.access)
  /\ (e.access \div 16) % 2 = 1 /\ (e.access \div 8) % 2 = (IF code THEN 1 ELSE 0)
  /\ Dpl(e.access) = cpl /\ sel % 4 = cpl
  /\ (e.access \div 2) % 2 = 1                          \* readable, writable
  /\ code => (e.granularity \div 32) % 4 = 1            \* 64 bits: L and not D

\* The processor finds what the kernel set up: through every gate the stub of
\* that vector, at ring 0 with interrupts off, and only the system call from
\* ring 3; through the literal selectors the code and data segments of either
\* ring; through the selector of ltr a task state with the kernel's stack,
\* whose base takes two entries; and no port that ring 3 may use.
TablesRead ==
  /\ \A n \in Vectors : Present(idt[n].flags) <=> n \in Handled
  /\ \A n \in Handled :
       LET g == idt[n] IN
       /\ g.base_low \o g.base_mid \o g.base_high = Isr[n]
       /\ g.flags % 16 = 14
       /\ Dpl(g.flags) = IF n = 128 THEN 3 ELSE 0
       /\ Selects(g.sel, TRUE, 0)
  /\ Selects(16, FALSE, 0)                              \* gdt_flush
  /\ Selects(35, FALSE, 3) /\ Selects(27, TRUE, 3)      \* switch_to_user_mode
  /\ LET e == gdt[40 \div 8] IN                         \* tss_flush
       /\ e.access = 137
       /\ SegmentBase(e) \o gdt[6].limit_low \o gdt[6].base_low = TssEntry
       /\ tss.rsp0 = KernelRsp
       /\ SegmentLimit(e) <= tss.iopb_offset
=============================================================================

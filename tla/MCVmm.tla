------------------------------- MODULE MCVmm -------------------------------
(***************************************************************************)
(* The boot of the kernel with two pages of heap, one of video, a program  *)
(* of two pages and its stack, placed as in the source: the heap in a      *)
(* region of its own, the video, the program and the stack below one pdpt, *)
(* program and stack below one pd.  A program may have two segments that   *)
(* share a page.  Memory runs out at every point: there are machines with  *)
(* any number of frames from none to more than needed.                     *)
(***************************************************************************)
EXTENDS Vmm

Kernel == <<2, 0, 0, 0>>
Low == <<0, 0, 0, 0>>      \* mapped by the bootloader only
Heap == <<3, 0, 0, 0>>
Heap2 == <<3, 0, 0, 1>>
Video == <<0, 2, 0, 0>>
Text == <<0, 0, 0, 1>>
Data == <<0, 0, 0, 2>>
Stack == <<0, 0, 3, 3>>

MCPages == {Kernel, Low, Heap, Heap2, Video, Text, Data, Stack}
MCIndex == 0..3
MCKernelHalf == {2, 3}

\* Frame 0 is nobody's; 1 to 4 are the bootloader's tables, 5 the kernel, 6 the
\* ramdisk; the rest is free.
MaxFrames == 18
MCFrameIds == 0..(6 + MaxFrames)
MCLeftover == [i \in MCIndex |-> [frame |-> 1, flags |-> Flags]]

Only(i, f) == [j \in MCIndex |->
                 IF j = i THEN [frame |-> f, flags |-> {"P", "W"}] ELSE Absent]

MCTables(f) ==
  IF f = 1 THEN [j \in MCIndex |->
                   IF j \in {0, 2} THEN [frame |-> 2, flags |-> {"P", "W"}]
                                   ELSE Absent]
  ELSE IF f = 2 THEN Only(0, 3)
  ELSE IF f = 3 THEN Only(0, 4)
  ELSE IF f = 4 THEN Only(0, 5)
  ELSE MCLeftover

Call(v, f, s) == [virt |-> v, phys |-> f, flags |-> s]
HeapCalls == <<Call(Heap, 0, {"P", "W"}), Call(Heap2, 0, {"P", "W"})>>
VideoCalls == {<<>>, <<Call(Video, 6, Flags)>>}
TextCalls == <<Call(Text, 0, Flags), Call(Data, 0, Flags)>>
ProgramCalls == {TextCalls, Append(TextCalls, Call(Data, 0, Flags))}

MCBoots ==
  {[allocatable |-> 7..(6 + n),
    root |-> 1,
    tables |-> [f \in MCFrameIds \ (7..(6 + n)) |-> MCTables(f)],
    levels |-> [f \in 2..4 |-> f - 1],
    calls |-> HeapCalls \o video \o program \o <<Call(Stack, 0, Flags)>>] :
     n \in 0..MaxFrames, video \in VideoCalls, program \in ProgramCalls}
=============================================================================

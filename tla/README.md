# BadOS: a TLA+ verification project

BadOS (`src/`) is a small x86_64 kernel booted by Limine. It sets up a bitmap
of physical frames, page tables and a heap, loads one user program
(`init.kex`) from a ustar ramdisk, and that program plays a run-length encoded
black-and-white video through five system calls. This directory holds TLA+
models of the parts with state worth reasoning about, TLC configurations that
check small instances, and TLAPS proofs for every value of the constants.

Running things, from this directory:

    tlc -workers 2 -config MCKheap.cfg MCKheap.tla     # any run of PROJECT.json
    tlapm KheapProofs.tla                              # any *Proofs module

## 1. The system

| Component | Source | State | Operations |
|---|---|---|---|
| Kernel heap | `kernel/kernel/kheap.c` | the block list in the 16 MB arena | `kheap_initialize`, `kmalloc`, `kfree` |
| Physical memory manager | `kernel/kernel/pmm.c`, `_start` in `kernel.c` 64-93 | bitmap, `used_blocks`, `max_blocks` | `pmm_initialize`, `pmm_init_region`, `pmm_deinit_region`, `pmm_alloc_block`, `pmm_free_block` |
| Virtual memory | `kernel/arch/x86_64/vmm.c` | four levels of page tables | `vmm_initialize`, `vmm_map_page` |
| Boot | `kernel/kernel/kernel.c` | order of the initialisers, frames left, what is mapped | `_start` |
| Interrupts | `idt.c`, `idt_flush.S`, `pic.c` | IDT, controller, PIT | stubs, `isr14/33/128`, `irq0` |
| Processes and scheduler | `kernel/kernel/process.c`, `process.S` | ring of `process_t`, `uptime_ms` | `multitasking_initialize`, `schedule`, `irq0_handler`, `create_kernel_thread`, `switch_to_user_mode` |
| System calls | `kernel/kernel/syscall.c` | back buffer pointer | putchar, exit, uptime, draw, yield |
| Player | `userland/init/init.c` | position in the stream, frame, run in hand | `_start` |
| Converter | `misc/index.js` | open run, output buffer | `Converter.process` |
| Ramdisk | `kernel/kernel/fs.c` | address of the archive | `fs_init`, `fs_get_file` |
| Program loader | `kernel/kernel/kex.c` | none beyond page tables | `load_kex_and_run` |
| Linker | `kex-ld/kex-ld.cpp` | segment table | build-time program |
| Keyboard | `idt.c` `isr33_handler`, `tty.c` ring | 256-byte ring, shift | put from the interrupt, get by polling |
| Descriptor tables | `gdt.c`, `tss.c`, `idt.c` 12-23 and 112-129, `gdt_flush.S`, `tss_flush.S` | GDT, task state, IDT | `gdt_initialize`, `tss_install`, `idt_initialize` |
| Serial line, terminal | `serial.c`, `tty.c` 15-29 | registers of the chip | `serial_initialize`, `serial_putchar`, `terminal_write*` |
| C library | `libc/stdio`, `libc/string`, `libc/stdlib` | none | `printf`, `puts`, `gets`, memory and string functions |
| Build | `*.sh`, linker scripts, Limine configuration | none at run time | - |

**How they interact.** `_start` runs everything up to `switch_to_user_mode`
with interrupts disabled, on one CPU. The memory map feeds the frame bitmap;
the bitmap feeds the page tables (`vmm_map_page` takes its tables from
`pmm_alloc_block`) and the heap's pages; the heap feeds `process_t` and the back
buffer. After boot the only activities are the player in ring 3, the system
call it is in, and the interrupts of timer and keyboard. Every gate is an
interrupt gate and every stub starts with `cli`, so kernel code is interrupted
in exactly one place: the `sti; hlt; cli` of the yield system call. The player
and the kernel share no memory but `frame_buffer`, read during the draw call,
and the mapped video. Timer and player are coupled through `uptime_ms` only.
The first interrupt from ring 3 is the first use of the task state and of most
of the descriptors set up at the very beginning. All text goes, character by
character, through `printf` to one polled serial port.

**What is hard here.**

- *Long sequences of legal calls*: splitting and merging in the heap;
  `used_blocks`, kept by hand through four operations.
- *Boundaries*: a remainder with exactly room for a header; `max_blocks` not a
  multiple of 8; a bitmap size that rounds down to bytes and then up to blocks;
  a run of exactly 127 pixels; a run that crosses a frame; a file that ends at
  the end of a record; a video that begins inside a page; `INT_MIN` in `printf`.
- *Interleaving*: an interrupt between the player's comparison and its `hlt`;
  a key that wakes the wait early; a tick raised while a tick is latched.
- *Missing checks*: the 0 of `pmm_alloc_block` and the NULL of `kmalloc` are
  not looked at; a missing `video.bad` is a warning only; the decoder does not
  know where its stream ends.
- *Things set up long before they are used*: descriptors and task state, the
  divisor of the serial port, the place of the video in its first page.

**What makes each part correct.** The heap: the list tiles the arena, ownership
is exact, "OOM" is honest, searches end. The frame manager: the bitmap says
exactly which blocks may be granted, and its own blocks are not among them. The
video format: what is drawn is what was converted, and the stream is neither
overrun nor left over. Playback: handlers do not nest, acknowledgements name
the right interrupt, no frame is drawn before the one before it was due, the
video does not stop. Page tables: each page maps what was last asked and no
table is shared. Loader and linker: what was linked is what is in memory.
Drawing: back buffer and framebuffer agree, and nothing is written outside them
but by videos that hang over the screen. Ramdisk: the walk stays on headers and
returns the first file of a name. Keyboard: keys are read once and in order,
and a waiting reader wakes. Scheduler: no task is lost, resumed without a
stack, made of another's block, or starved. Boot: the tables the processor
reads are the ones meant, the player finds the whole video, and ring 3 is
entered exactly when frames and ramdisk allow it. Printing: what `printf` was
given arrives at the other end of the line, and every call returns. All of
these are modelled below; the list of hazards, each with its source line and
the properties that cover it, is under `hazards` in `PROJECT.json`.

## 2. The modules

### Kheap, HeapSpec, MCKheap, KheapProofs

`Kheap` models `kheap.c`. `hdr` maps the address of each header on the list to
its three fields; addresses are offsets in the arena. `kmalloc` is a call, one
step per block its loop passes (`kmalloc_next`), and its two ends
(`kmalloc_grant`, which splits when there is room for another header, and
`kmalloc_oom`); the loop is stepped so that what it knows about the blocks
behind it can be stated. `kfree` marks the block free and absorbs the successor
when that is free, and never looks backwards, as in the code. `live` is a
history variable: which pointers callers hold and what they asked for.
`TotalSize` keeps the wrap of `size_t`; `KheapAssumption` says that no request
of the kernel comes near it, and that `kheap_initialize` is called once with
room for a header. Callers free only pointers they hold.

`HeapSpec` is the promise: a grant is a range that overlaps no held range.

Not modelled: `kfree(NULL)`, which returns at once.

### Pmm, FrameSpec, MCPmm, PmmProofs

`Pmm` models `pmm.c` and lines 67-93 of `kernel.c`. Addresses are in blocks:
Limine aligns usable entries to 4096. `bits` is the set of bits set. The model
keeps the three roundings of the code apart: `memset` writes `max_blocks / 8`
bytes (`WholeBytes`), so the bits of the last, partial byte start as whatever
the memory held (the parameter of `pmm_initialize`); `bitmap_size` rounds down
to bytes and `pmm_deinit_region` up to blocks (`Reserved`); the bits really lie
in `Home`. `pmm_init_region` sets bit 0 without counting it, as the code does;
usable memory may begin at block 0, since base revision 3 of the Limine protocol,
which `kernel.c:20` asks for, does not rule that out (`FromBootloader`).
`MemTop` and `BitmapPhys` are the first loop of `_start`; for that loop
`bitmap_phys == 0` means that no place has been found yet, so an entry at 0 is
passed over when a later one is large enough.

`UsedIsCount` is therefore not quite what the name of the counter says: block 0
is counted free with its entry and then marked without a count, so `used_blocks`
is one short, unless the bitmap is put there (`Uncounted`). See section 5.

Three conditions are named, because the code relies on them without checking:
`BitmapPlaced` (the first entry of 1 MB or more holds the whole bitmap; assumed
in `PmmAssumption`), `TailUsable` (the blocks of a partial last byte are all
usable) and `TailReserved` (the byte rounded away does not start a block).
The last two are *not* assumed: maps that break them are explored, and the
properties that need them say so. What happens without `TailUsable` is the
finding `pmm_tracked`.

`FrameSpec` is the promise: a grant is an allocatable block nobody holds.

### Rle

`Rle` models the converter and the decoding loop of the player together. The
encoder takes one step per pixel, the decoder one per turn of the inner loop
(`init.c` 72-93): fetch a byte if no run is in hand, paint the part of the run
that fits in the frame, keep the rest. `start` is a history variable: the pixel
at which each byte begins. A frame buffer is one bit per pixel; the 12-byte header is left out, as is the conversion of a PNG
pixel to its bright bit.

### Draw

`Draw` models system call 4 of `syscall.c`, row by row: the first call makes the
back buffer and clears the screen (`MakeBackbuffer`), then rows are painted
(`PaintRow`) and copied (`CopyRow`). Screen and back buffer are arrays of
pixels with `pitch` pixels to a row; a store outside sets the history variable
`stray`. `Start` keeps the widths of the code: the difference is unsigned and 64
bits wide, halved, and stored in an `int`. `frame` is what the call finds at the
address it is given, as the set of bright bit numbers. `shown` is the frame of
the call before, so that a property can speak of a screen half redrawn. Which
framebuffer there is comes from the bootloader. `Draw` has no next-state
relation of its own: `Video` calls it.

### Video, MCVideo, VideoProofs

`Video` puts `Rle` and `Draw` together into the path from the converter to the
screen: when the decoder has completed a frame it calls `draw_frame` with what
`frame_buffer` holds (`Packed`), the one array that is used for every frame, and
it goes on when the call has returned (`Proceed`). Pixel `px` of a frame is bit
`px % 8` of byte `px / 8`, so the number of the pixel is the number of its bit;
that the kernel takes rows from whole bytes is in `Draw!Colour`.

`InsideBuffers` says exactly when a call writes outside: rows above and below the
screen are skipped, columns beside it are not, so each row of a wider video
reaches into the rows around it, and the first one before the beginning of the
buffers if the columns that hang over (`Overhang`) are more than the pixels of the
rows above it (`Overhangs`). `VideoShown` speaks of the widths for which the
picture is right, whole bytes and no more than the screen; what else a wider
video leaves inside the buffers is not stated. A row is written in one step.

### Playback, InterruptProofs

`Playback` models what happens once the kernel is in ring 3. `cpu` says what
runs, `stack` holds the contexts saved on the kernel stack, `ints` is
RFLAGS.IF, `irr`/`isr` are the latch and in-service registers of the interrupt
controller (external: modelled from how `pic.c` programs it). Each system call
is an action; yield is two, before and after the `hlt`. `sti; hlt` and
`sti; iretq` are atomic because the processor delivers nothing after the
instruction that follows `sti`. `schedule` runs on the ring of one process that
`multitasking_initialize` makes, so it saves and returns the same stack pointer.
Times are relative to `start_time` and saturate at the last frame's time plus
one tick, which is all the player compares with; `real` counts what the PIT
counted.

`video` says what `video.bad` is: a good one; one without the magic (`"bad"`);
one too large for `frame_buffer` (`"large"`), for both of which the player
prints a message and calls exit; one whose stream ends within the last frame
(`"cut"`): the decoder then reads zeros to the end of the page, runs of no
pixel, and faults on the next; and none at all (`"missing"`), where the first
read faults. `isr14_handler` halts without a word (`PageFault`). `reported` is
whether an error message of the player went out.

Decoding and drawing are one atomic call here; `Video` has both.

### Vmm, VmSpec, MCVmm, VmmProofs

`Vmm` models `vmm.c` over frames granted as `FrameSpec` says. A page is its four
indices; `tab` is what every frame holds, read as a table, whether it is used as
one or not. `vmm_map_page` is a call, three times `Descend` (the three blocks of
the source differ only in the index they use) and `SetEntry`, which flushes the
page from `tlb`. `Touch` lets the kernel use any mapped page between two calls,
so that translations get cached. `Boots` gives the machines: which frames are
free, the tables of the bootloader, and the sequence of calls that `_start` and
`load_kex_and_run` make: the heap, the video if there is one, the segments of
the program, its stack. The program may map a page twice. What the bootloader
leaves in the kernel's half is taken to be a tree of tables outside of free
memory in which ring 3 can write no page (`KernelTree`; `levels` says how far
from the root each of its tables is). Its large pages are left out: no walk of
`vmm_map_page` comes to them.

`pmm_alloc_block` returns frame 0 when there is none left, and no caller looks.
The model goes on as the code does, with frame 0 as a table, and the history
variable `oom` records it; the safety properties speak of runs without `oom`.
Frame 0 is writable memory here, as the direct map makes it.

`VmSpec` is the promise: one mapping from pages to entries, of which the switch
to the kernel's own tables keeps the upper half. The calls are served in their
order: `Ask` takes the next one and fixes the entry it asks for (its flags, and
its frame if it names one), and `Map` gives the page this entry and changes no
other. `vmm_map_page` implements `Ask`, `SetEntry` implements `Map`.

### Kex, MCKex, KexProofs

`Kex` models `kex-ld.cpp` and `kex.c` together, as one pipeline: the linker
goes through the program headers, of which it keeps those that are loaded
(`ReadHeader`), places each segment (`PlaceSegment`) and writes commands,
padding and data; the kernel maps each segment page by page
(`MapSegmentPage`), zeroes and fills it, maps the stack and enters ring 3. Byte `k` of segment `s` is the value
`<<s, k>>`, so that a byte in memory says where it came from. `out` is the
file, `ram` what each frame holds; a frame starts with leftovers. A store to an
address that is not mapped is a page fault, and `isr14_handler` stops the
machine. `init.kex` may be missing or something else. `AsLinked` says what
`userland.ld` guarantees: segments begin at pages of their own, away from the
stack. Other programs are explored too. There are always frames enough here;
running out is in `Vmm`.

The hash of the integrity command is left out: the loader does not check it
(`kex.c:45`), nor the flags and the alignment of a segment command.

### Ramdisk

`Ramdisk` models the walks of `fs.c`. `archive` is a list of files, `Positions`
is where tar puts the header of each (the reference), `Octal` the digits tar
writes for a size, and the walk goes by `NextOffset(get_size(...))`, which keep
the code's `unsigned int`. Names are compared as a whole; what `fs_cat` prints is
the file it finds. Files fit their field and the word, by assumption: the field
holds 33 bits, but no ramdisk comes near.
A file says whether it is a program and where it holds the magic of a video.

### Descriptors

`Descriptors` models `gdt_initialize`, `tss_install` and `idt_initialize`. A
number is the sequence of its bytes, so that cutting an address into fields and
putting it together again in a wrong order shows. `TablesRead` is the
processor's side: what it finds through the selectors that are literals in
`gdt_flush.S`, `tss_flush.S`, `process.S` and `idt.c`, and through each gate.

### Boot, MCBoot, BootProofs

`Boot` models `_start` over `Ramdisk` and `Descriptors`: the two tables, the
root table, the pages of the heap, the walk of `fs_init`, the search for
`video.bad` and the mapping of its pages in place (`vid_phys`, `offset`,
`pages_needed`), the search for `init.kex`, and the pages of the program and its
stack. `fs_cat`, which nothing calls, may run after `fs_init`. Frames are
counted and tables are known by the addresses they serve, which is what `Pmm`
and `Vmm` show to be enough; where frames end this module stops (`"starved"`)
and `Vmm` goes on. The initialisation of the frame bitmap is in `Pmm`, of the
serial port in `Libc`, of interrupt controller, PIT and process ring in
`Playback`. `fs_init` gets the address of the first module and `_start` halts
if there is none.

### Serial, Libc, Library, MCLibrary, LibraryProofs

`Serial` models `serial.c` and the chip: which register an offset reaches
depends on the latch bit, and in loopback nothing reaches the line. The port may
be in any of four states when the kernel finds it, or absent, which reads as all
ones. `Libc` models `printf` as the code runs: text up to the next `%`, one
directive after the other, each handed to `print`, which calls `putchar` for
every character; `Spin` is the poll of `serial_putchar`. `Magnitude` and `Buffer`
keep the width of `int`. `puts` is `printf("%s\n")`, as in the code, and
`terminal_writestring` puts its string out the same way. `Expected` is what the
format says, apart from how `printf` works: `Read` goes through the format
character by character and keeps the text, the number of arguments used and
whether a `%` is open; `Numeral` writes a number from its first digit, where
`Buffer` fills from the last one and the code turns it round.

`Library` composes `Libc` with `Strings`: when `_start` has set up the port, a
caller makes one call, either of `printf` and its kin or of a function on memory.

### Strings, Library, MCLibrary, LibraryProofs

`Strings` models `libc/string`: `memcpy`, `memmove`, `fast_memcpy`, `memset`,
`memcmp`, `strlen`, `strcmp` and `strcpy`, one call on a memory of `MemSize`
bytes, one step for each turn of the loop; `fast_memcpy` moves `Quad` bytes at a
time and then the rest. `Calls` are the calls with arguments the function is
defined for: the places lie in memory, strings have their 0, and where the
function does not allow it they do not overlap. `before` is the memory a call
found. `StringsRight` compares what it leaves and returns with definitions that
do not say how: `Copied`, `Filled`, and the order of a dictionary (`Precedes`).

### Keyboard, KeyQueue, MCKeyboard, LibraryProofs

`Keyboard` models `isr33_handler`, the ring of `tty.c`, `keyboard_getchar` and
`gets`. The handler is one step (interrupt gate); the reader can be interrupted
between any two. A key between the test and the `hlt` leaves the reader asleep
until the next interrupt (`Halt`, `Woken`). `rereads` is whether the compiled
loop reads the two pointers again: they are not `volatile` and the `asm`
statement clobbers no memory, so with `-O2` both are possible outcomes. Nothing
calls `gets` today; a caller that asks for one line after the other is assumed.
`KeyQueue` is the promise: a bounded queue that drops the newest.

### Scheduler, InterruptProofs

`Scheduler` models `create_kernel_thread` and `schedule` on the ring, with the
timer between any two steps if callers leave interrupts enabled (`masked`).
`kmalloc` and `pmm_alloc_block` are two steps each, since both look for
something free and mark it afterwards (`FindBlock` and `TakeBlock`, `FindFrame`
and `TakeFrame`): two creations that look before either marks get the same. So
is `next_pid++`, which reads and then stores (`ReadPid`, `StorePid`); then the
task points into the ring (`PointTask`), is linked (`LinkTask`), its stack is
filled (`FillStack`) and its stack pointer set (`SetStack`). The history variable
`overlapped` says whether two creations were ever under way at once.

A task is named by its block and a saved context by its task, so that resuming
a wrong one shows. These names mean something until a block or a frame is given
to two tasks; there the model ends, with `stopped = "shared"`. That end is what
`RunsItself` is about: it is reached only if two creations overlapped. What the
second owner does to the block list, the ring and the stack of the first is not
followed, and other callers of `kmalloc` and `pmm_alloc_block` are not modelled
here; in the kernel they run before any thread exists, but for the one call that
makes the back buffer, with interrupts disabled. The copy of `page_directory`
(line 28), which nothing reads, is left out.

Nothing calls `create_kernel_thread` today; `FillStack` is the store through a
physical address that faults once `vmm_initialize` has cleared the lower half.

## 3. The runs

| Run | Instance | What it shows |
|---|---|---|
| `heap` | arena of 12 units, header 2, requests 0, 1, 2, 5 | tiling, disjointness, exact ownership, honest refusal, stable headers, termination of the search, refinement of `HeapSpec` |
| `pmm` | every map of one or two entries below 10 blocks, 3 blocks to a byte, 2 bytes to a block | usable memory from block 0 or above; bitmap exact, count right but for block 0, bitmap protected, refinement of `FrameSpec` |
| `video` | 3 frames of 6 pixels in every shape (6x1, 3x2, 2x3, 1x6), runs of at most 8, 2 pixels to a byte; videos that change colour at most twice or alternate; no screen, or one of four from 4x2 to 6x3 with and without a gap between rows | drawn = converted, stream bounds, stores inside the buffers unless the video hangs over (6x1 on 4x2 does, on 3x5 and 5x5 it is wider and does not), and the screen shows the converted video, in order and never a row of two frames |
| `playback` | 3 frames, all five videos | no nesting, acknowledgement, no frame drawn before the one before it was due (less one tick), a good video plays on, the others stop the machine with the right message or none |
| `vmm` | boot calls for two heap pages, at most one of video, two of program, the stack; 0 to 18 free frames; tables of 4 entries | the tables are a tree, user pages alias neither tables nor each other, the TLB is fresh, refinement of `VmSpec`: each page has the entry last asked for it |
| `kex` | pages of 3 bytes, every program of one or two segments of 0 to 5 bytes at 4 addresses, with and without a header that is not loaded | the file holds what its commands say, memory what was linked, faults only for unaligned segments |
| `boot` | archives of up to three files out of nine, records of 4 bytes, pages of 8, sizes of two octal digits; 0 to 21 frames; with and without modules | walks find and end, tables read right, the player finds the whole video, ring 3 is entered exactly when it should be and with the frames it takes |
| `libc` | the library (`MCLibrary`): every format of up to 4 characters over `% c d s x a`, integers of 8 bits, a port that answers or not; memories of 5 bytes out of three, two bytes to a `movsq`, every call that is defined | text arrives whole and in order, each memory and string function does what its loop is for (`strcpy` copies without the terminator, the result of `fast_memcpy` is left out), every call returns |
| `keyboard` | ring of 3, 4 keys, lines of 1 to 3, 5 presses | refinement of `KeyQueue`, lines as typed, a waiting reader wakes |
| `scheduler` | at most 5 tasks | the current task's code runs; only overlapping creations share a block, a frame or a number, and only a creation under way leaves a task without a stack; with interrupts off neither happens; every linked task gets its turn |
| `pmm_tracked` | as `pmm` | violation: see section 5 |
| `video_any_width` | as `video` | violation |

**Why these bounds are enough.** Heap: six headers' worth of arena allows three
blocks in use, a remainder with room for a header and no more, one too small
for a header, free neighbours that are not merged (only the successor is
absorbed) and refusals; nothing in the code depends on more than a block and its
successor. Frames: with three blocks to a byte and two bytes to a block there
are bitmaps of one and of two blocks, with and without partial bytes and
blocks, and maps that break `TailUsable` or `TailReserved`; two entries give a
hole below, between and above. Video: with
frames of 6 and runs of 8 a run can end before, at and after a frame boundary,
reach over a whole frame, and be a maximal run that is split; screens are smaller,
equal and larger than the video in each direction, with odd and even
differences, widths are and are not multiples of the byte, and one buffer is
more than the heap can grant; a call depends on the one before only through the
buffers, so the third frame meets everything a later one would. A reader of every
one of the 2^18 videos would see no more than the single pixels and bars that
are tried: the theorems on `Rle` and `Video` are for all of them. Playback: at 30 frames a second with a tick of 10 ms, three frames
have the times 0, 33 and 66, so that a frame is due between ticks and the last
one needs several; the clock is bounded by `Cap`, and the tick count by it; the
stream that is cut off ends in a frame that has others before it.
Page tables: the heap, the low half and the kernel sit in different entries of
the root, program and stack in different tables below a common one, so that
every level is both shared and new; 18 frames are more than any boot uses, and
every smaller number makes memory run out at another call and level. Loader:
segments end one byte before, at and after a page, share pages, overlap, have
no data or no bytes at all, and reach the stack; commands end at and inside a
page, and a header that is not loaded comes before and after one that is.
Boot: sizes zero, one below, at and above a record, a page and an octal digit, up
to the largest that the word allows; three files give a name that is absent,
first, last and repeated, and a video at every place of a page; 21 frames are one
more than any boot takes, and every smaller number makes the boot stop somewhere
else. Printing: four characters hold two directives, a directive with text
before or after it, `%%` before a directive, an unknown directive with and
without one before it, and a `%` at the end; integers have both ends of the
range, zero, and numbers of one, two and three digits in either base. Memory: in
five bytes two places can overlap by any amount in either direction, and be equal
or apart; `0`, `1` and `200` are the end of a string and two bytes whose order as
signed numbers is the other one. Keyboard: a ring of three is full with two, and five
presses make both pointers go round; lines of one have no room for a character.
Scheduler: five tasks let two creations with blocks of their own be under way at
once, and three that have not marked theirs, with other tasks in the ring; the ends "lost" and "shared" are both reached.
The theorems of section 4 remove the bounds for the safety properties; liveness
is left to them.

**Fairness.** `Kheap!FairSpec`: weak fairness of the search, which runs on the
only CPU with nothing to preempt it. `Playback!FairSpec`: weak fairness of the
PIT (it ticks), of delivery (a request that stays deliverable is taken) and of
the handlers (they wait for nothing); strong fairness of the thread, player and
system calls, because between two interrupts, 10 ms apart and each handled in
microseconds, the interrupted code executes instructions. Weak fairness would
not do: the model, which has no notion of how long a step takes, could
interrupt the thread again before each step. No fairness is asked of keys.
`Boot!FairSpec`: weak fairness of the steps of `_start`, which nothing preempts;
none is asked of `fs_cat`. `Library!FairLibrary`: weak fairness of the kernel's
steps, of the chip, which goes on sending what it holds, and of the loops of the
functions on memory, which wait for nothing.
`Keyboard!FairSpec`: weak fairness of the tick and of the reader's steps; the
claim is made for a loop that reads the pointers again, and for no other.
`Scheduler!FairScheduler`: weak fairness of `schedule`, because the timer ticks, and
of the steps of a creation that was begun (`GoOn`). With interrupts disabled
nothing comes between those steps; with interrupts enabled a creation goes on
when its task has its turn again, which is asked of no scheduler but the ring.

Every property is paired in `PROJECT.json` with a changed definition (the
"Mutated ..." operators in the modules) under which TLC finds it violated.

## 4. The proofs

Each `*Proofs` module proves `Spec => []IInv` for an inductive `IInv`, then
each property from it.

- **KheapProofs.** `IInv` is the conjunction of the checked invariants and
  `ScanInv` (the search is at a block of the list or at its end). None is
  inductive alone: a split keeps the tiling only because blocks do not overlap,
  and `kfree` finds its header only because ownership is exact. `HonestOom`
  needs the tiling, since "the blocks passed" are those at lower addresses.
  `Refinement` follows step by step.
- **PmmProofs.** While the entries are gone through (`Booting`): the bits of
  the blocks done are clear, those of the other whole bytes are set, and
  `used_blocks` is the number of tracked blocks not done. Afterwards
  (`Counting`): `used_blocks` is the number of blocks never allocatable plus
  the number held, less one for a block 0 that is `Uncounted`, on any map;
  `TailUsable` turns that into the exactness of the bitmap. The arithmetic of the roundings is in `ReservedFacts` and
  `TrackedFacts`.
- **InterruptProofs.** For the player the invariant lists, for each place of the CPU, what the
  stack and the interrupt flag are, where the player waits, and how far `clock`
  can be from `real` with a tick latched or in service. From it:
  `HandlersDoNotNest`, `Acknowledged`, `Paced`, for any number of frames and
  every kind of video. `Paired` joins the first two to what the run checks.
  For kernel threads: the task a creation has taken is its own and has no stack
  (`Owned`); the ring leads from linked tasks to linked tasks (`Closed`); a stack
  pointer is unset or the task's own, and unset in the ring only for the running
  task and one between the stores of lines 30 and 58 (`Contexts`, `Hanging`). As
  long as no two creations overlapped what a creation has read is still so when
  it stores: the block and the frame it found are free, the number it read is the
  next (`Fresh`); with interrupts off they never overlap (`Alone`). From these
  `RunsOnlyItself`. `Ring` says what the list looks like after any number of
  creations that did not overlap; `RingComplete` is that every linked task is on
  it.
- **VideoProofs.** The encoder invariant says that the bytes written so far are
  the runs of the pixels before the open run, that consecutive bytes meet
  (`start`), and that the open run is one colour; the decoder invariant says
  that the byte in hand covers the pixel the decoder is at. From these:
  `Faithful`, and `StreamRead` by its three parts, for every number of
  frames, pixels and every maximal run. The system of converter, player and
  drawing call implements `Rle` (`RunsRle`: each of its steps is a step of `Rle`
  or leaves `Rle` alone), so the theorems on `Rle` hold of it. `HandedInOrder`
  then needs `HandInv`: what the call holds is the frame that `frame_buffer` was
  when it was made, and the player does not touch the buffer until the call is
  back. `ScreenInv` adds the screen: the row the call is at and where on the
  screen the frame begins (`DrawSafe`), and, pixel by pixel, which rows show the
  frame of the call and which still the frame before, in the back buffer and on
  the screen, and that nothing else was touched (`DrawnSoFar`). That both
  buffers carry over from call to call is why it speaks of two frames. `DrawSafe`
  also has when a pixel outside was written: never unless the video `Overhangs`,
  and then once the first row on the screen is copied (`RowInside`, `RowOutside`:
  the ends of a row lie in the rows around it, or before the first cell). From it
  `DrawsInside`, for every screen and video, and `ShowsVideo`, for every video of
  whole bytes no wider than the screen, centred or cut off above and below.
- **VmmProofs.** `TreeShaped` says of each table that one entry points to it,
  which a new table keeps only if it is known which frames *are* tables, how deep
  each is, and that a free frame is none. The invariant says that levels can be
  given to the tables (`lev`): the root has 0, an entry of a table that is not of
  the last level leads to one a level below, and no two entries to the same one
  (`Tree`). `Apart` is about the entries of the last level that a program can
  use: their frames are no tables and not each other's, the frame of the call
  under way and those of the calls to come included, since they will be such
  entries. `OnPath` ties the local variables of `vmm_map_page` to the tree. The
  levels change as tables are hung in, so they are bound by an existential
  quantifier and given anew at each step (`LevelsAdded`, `LevelsOf`). From this
  `OneParent`, `ProgramsApart`, and, because in a tree another page's walk does
  not meet the entry that changes (`Route`, `EnteredWalk`), `OneMapping`: a
  call implements `VmSpec!Ask` and its last store `VmSpec!Map`, a new table being
  a stutter. `FlushEnough` follows in the same way: no entry that is present
  changes but the one flushed. All of these are for as long as frames last.
  Afterwards frame 0 is cleared anew for each table it is to be, and pages that
  were mapped through it lose their entries without a flush.
- **KexProofs.** The segments found are the loadable headers among those seen,
  in order (`Numbered`); that the command of a header has the number of loadable
  ones up to it is a count carried along with the loop. The places given to
  their data follow one another behind the commands (`Placed`), and while the
  file is written it never reaches past the place of data still to come, so
  padding ends exactly there (`Written`). For the loader: no two pages share a
  frame, and a segment that begins a page is mapped as far as the loop came
  (`Mapped`, with the arithmetic of pages in `Split`, `InPage`, `Multiples`).
  `Storing` then says that a store to some addresses changes those and no
  others, and `Loading` that the segments done are in memory, which neither a
  page mapped nor a byte stored for a later one disturbs (`SegmentsApart`, from
  `AsLinked`). From these `FileRight`, for every ELF file, and `LoadedRight`.
- **BootProofs.** Three inductions over data come first, by least
  counterexample (`Induction`, from the well-foundedness of `<` on the naturals):
  a number taken apart into digits and read back modulo the word is the number
  (`SizeRead`), headers lie in the order of their files and no two at one place,
  and the pages of a file are those from its first byte's to its last's.
  The invariant: a walk has passed
  the files up to the header it is at and found none of them (`Walking`); the
  tables are those written (`Described`); what is known at each place of
  `_start`, among it that the search for a name that returned NULL means there is
  none (`Stages`, with `WalkFinds`); every frame gone is the root, a page of its
  own or a table on the way to a mapped page (`Accounts`); and pages of the video
  are at the frames where it lies (`Placed`). `WalksFind` needs the place *and*
  the history of the walk, since `fs_cat` may run in between. `BootAccounts`
  compares `Accounts` with `Needed`, which is defined from the archive alone:
  what is mapped when frames end is part of what the boot would map, and one
  frame more than there are. `VideoThere` follows from `Placed` by the arithmetic
  of pages.
- **LibraryProofs.** The keyboard: `RingIsQueue` is arithmetic modulo
  `BufferSize`: the characters between the pointers, in order, with one place
  always unused. For
  `LinesAreTyped`: what `gets` holds is the text of what it has read (`Held`), it
  has read no end of line but the one it ended with (`Ended`), and after the
  character just taken the line goes on from there (`OnLine`). `Line` is defined
  by recursion over what was typed; that there is one such function is carried
  along as part of the invariant while `typed` grows (`OneText`).
  The functions on memory: the invariant (`StringsInv`) says, for each function,
  what the bytes done are and that the others are as they were. For `memmove`
  the part still to be read must be untouched, which is what taking the right
  direction gives; for `fast_memcpy` the turns before the last eight are whole
  ones (`InQuads`); for the comparisons and `strlen` the bytes passed are equal
  and not 0, so that where the loop stops is the first difference or the end;
  for `strcpy` the 0 it looks for is still there. From it `StringsDo`.
  printf: the invariant (`PrintfInv`) has two halves. `Port` says which registers
  `serial_initialize` has programmed after each of its ten writes, and that
  nothing is on the line before the last; without it a character could be taken
  for a divisor. `Told` says that the format has been read up to `format` in some
  way `u`, that what went over the line, what the chip holds and what is
  still to be put out are together the text of `u`, that what was counted and
  what is still to be put out are as long as it, and that `u` has used as
  many arguments as were fetched. `Expected` and `Numeral` are recursive
  functions, and the arguments are fetched on the way: that a format read up to
  here can be read further, and is read the same when arguments are added
  behind, are `ReadOn`, `ReadText` and `ReadDirective`; that the digits filled in
  from the last and turned round are the numeral, with the sign and the width of
  an `int` down to the smallest one, are `Digits`, `Decimal` and `Hexadecimal`.
  Both are inductions, written as statements about sets of naturals with a
  least member (`Descent`, `Induction`). From it `PrintfSays`, and with
  `StringsDo` that the library does both, whichever is called (`LibraryDoes`).

Assumptions: the named ASSUMEs of the modules, evaluated by TLC in every run.
Beyond the types of the constants they say: sizes of `Kheap` do not wrap, the
usable entries of the memory map are in ascending order, apart and not empty
(`FromBootloader`; the first may begin at block 0), the bitmap is placed in one
entry (`BitmapPlaced`), the bootloader's tables are a tree (`KernelTree`), an
ELF segment has no more data than memory, the two control characters of the
keyboard are different, the size of a file fits its field and the word,
`_start` maps no page twice and the program below the video (`BootAssumption`).
A call of a memory or string function is one it is defined for (`Calls`);
formats and texts have their 0 only at the end, and an integer is one of its
width (`LibcAssumption`).

**Only model-checked.** Liveness (`KmallocReturns`, `Plays`, `BootEnds`,
`CallsReturn`, `ReaderWakes`, `EachRuns`), which is outside the reach of the
prover, and the two disagreements of section 5 that a run shows. Of the page
tables nothing but their types is claimed once frames have run out.

## 5. Where the code and its text disagree

Two are shown by a run:

1. `pmm_tracked`: `pmm_initialize` counts `max_blocks` used blocks and announces
   that many tracked, but leaves the bits of the last `max_blocks % 8` blocks
   unwritten. On a machine whose last usable entry is shorter than that, a block
   of the gap below it may be granted.
2. `video_any_width`: the player packs pixels without a gap between rows
   (`init.c` 46, 86-87) and the call reads `w / 8` whole bytes for each row
   (`syscall.c:47`). A video whose width is no multiple of 8 is sheared and
   loses its last columns, where `README.md:21` says the frame is rendered.

The others are behaviours that the models have and no run is spent on:

- `pmm.c:45` sets bit 0 without counting it. Where usable memory begins at block
  0, which base revision 3 allows, the entry has counted that block free, and
  `used_blocks` is one short from then on (`Uncounted`). Nothing reads it.
- `syscall.c` 49-79 clips rows and not columns. Rows of a video wider than the
  screen reach into the rows around them, and the call writes outside
  of the buffers exactly if `Overhangs` (`InsideBuffers`). `README.md:21` names no
  limit on the width.
- `kheap.c:20` calls `kmalloc` a best-fit allocator. It is first-fit
  (`kmalloc_grant` takes the first block that `Fits`; `PassedDoNotFit`).
- `README.md:21` says the timer keeps playback synced. Ticks raised during one
  system call are merged into one (`irr` in `Playback`), so `clock` falls behind
  `real` and the video slows down. `NeverEarly` holds all the same, and says no
  more than this: `init.c` 95-100 draws a frame and then waits for its time, so
  each is on the screen about a period before it is due.
- `init.c:37` has an error message for a missing `video.bad`, but the first read
  faults and the fault handler halts silently (`"missing"` in `Playback`); so
  does a stream that ends too early (`"cut"`: zeros follow it up to the end of
  the page; a stream followed by other bytes would be decoded on).
- The search of `init.c` 28-34 starts at the beginning of the page, where the
  files before `video.bad` lie: a program that holds the four bytes of the magic,
  as the player itself may, is taken for the video if it is in the same page.
  `VideoReadable` asks that no file before holds them.
- `pmm_alloc_block` returning 0 is noticed by nobody (`"starved"` in `Boot`,
  `oom` in `Vmm`).
- `strcpy` copies `strlen` bytes and writes no terminator (`StringsRight` says
  what it does), and `fast_memcpy` returns the address after its last eight
  bytes where `memcpy` returns the destination. Neither result is used.
- `serial_initialize` tells whether the chip is faulty; nobody looks
  (`kernel.c:61`), and a port with nothing behind it swallows what is printed.
- `printf("%d", ...)` takes an `int` where `kernel.c:118` and `syscall.c:86` give
  64 bits: sizes of 4 GB and more are printed wrong.
- `README.md:11` promises preemptive multitasking. `process.c:33` writes the
  stack of a new thread at the physical address of its frame, which is not
  mapped after `vmm_initialize` (`FillStack`), and links the thread before its
  stack pointer is set, which is safe only with interrupts disabled (`masked`).
  Neither `kmalloc`, `next_pid++` nor `pmm_alloc_block` is safe in two threads:
  with interrupts enabled two creations can get one block, one number or one
  frame (`"shared"` in `Scheduler`).
- `keyboard_getchar` reads pointers that are not `volatile`; compiled with `-O2`
  a reader that waits need not see the key that came (`rereads`).

## 6. Not modelled, and the plan

**Not modelled**, and why:

- *Build scripts, linker scripts, bootloader configuration*: they run before the
  system exists.
- *Bits of cr0 and cr4 that `_start` sets*, and the saving of registers in
  `pusha64`: the models have no notion of a floating-point register. `pusha64` saves
  none of the SSE registers, so what an interrupted program holds there is up to
  the compiler.
- *The handlers of vectors 0 and 13*: they print and halt, and nothing modelled
  raises them. An exception on a vector without a gate is a triple fault;
  `TablesRead` says which vectors have one.
- *`tss_set_stack`, `kfree(NULL)` and the kernel's `abort`*: nothing calls them.
- *Hash, flags, architecture and alignment of a KEX file*: written and never read.
- *The echo of keys to the serial line* and the scan codes without a character.
- *The conversion of PNG pixels, colours, wording*: data that no property is about.

**The plan**: what is left is one proof.

- **Vmm.** What is left when frames run out: `TypeOK` holds then too, but frame 0
  is a table with many parents, and `TlbFresh` fails when it is cleared again.

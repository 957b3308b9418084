------------------------------ MODULE Playback ------------------------------
(***************************************************************************)
(* Playing the video: the loop of userland/init/init.c in ring 3, the      *)
(* system calls it makes (int 0x80, kernel/kernel/syscall.c), and the      *)
(* timer and keyboard interrupts that arrive meanwhile, through the stubs  *)
(* of arch/x86_64/idt_flush.S and the interrupt controller that            *)
(* pic_remap sets up.                                                      *)
(*                                                                         *)
(* One step of a thread stands for the instructions up to the next point   *)
(* where the order of things matters; a request may be raised at any time  *)
(* and is delivered between steps while interrupts are enabled.            *)
(*                                                                         *)
(* uptime_ms is kept relative to start_time.  The player only compares the *)
(* difference with the times of the frames, so it stops counting at the    *)
(* last of them.                                                           *)
(***************************************************************************)
EXTENDS Naturals, Sequences

CONSTANTS
  Frames,     \* total_frames
  Videos      \* what video.bad may be: "good", "bad" (no magic), "large" (for
              \* frame_buffer), "cut" (its stream ends too early), "missing"

ASSUME PlaybackAssumption ==
  /\ Frames \in Nat \ {0}
  /\ Videos \subseteq {"good", "bad", "large", "cut", "missing"}

TickMs == 10
Expected(f) == (f * 1000) \div 30
Cap == Expected(Frames - 1) + TickMs
Later(t) == IF t + TickMs < Cap THEN t + TickMs ELSE Cap

VARIABLES
  video,          \* video.bad of the ramdisk
  cpu,            \* what runs: "user", a handler, "hlt", "woken", "halted"
  ints,           \* RFLAGS.IF
  stack,          \* contexts saved on the kernel stack, innermost last
  irr, isr,       \* requests latched and requests in service: 0 timer, 1 keys
  process_rsp,    \* current_process->rsp, as a depth of the stack
  clock,          \* uptime_ms - start_time
  real,           \* history: milliseconds the PIT has counted since then
  user,           \* where the player is
  rax,            \* what uptime() returned, relative to start_time
  current_frame,
  reported        \* an error message of the player is on the serial line

machine == <<cpu, ints, stack, irr, isr, process_rsp>>
time == <<clock, real>>
player == <<user, rax, current_frame, reported>>
vars == <<video, machine, time, player>>

-----------------------------------------------------------------------------
\* switch_to_user_mode enters ring 3 with interrupts enabled.  The boot code
\* ran with interrupts disabled, so requests may be waiting.
Init ==
  /\ video \in Videos
  /\ cpu = "user"
  /\ ints = 1
  /\ stack = <<>>
  /\ irr \in SUBSET {0, 1}
  /\ isr = {}
  /\ process_rsp = 0
  /\ clock = 0
  /\ real = 0
  /\ user = "scan"
  /\ rax = 0
  /\ current_frame = 0
  /\ reported = 0

\* Mutated Enter: the gate leaves interrupts enabled.
EnterEnabled(handler) ==
  /\ stack' = Append(stack, [cpu |-> IF cpu = "hlt" THEN "woken" ELSE cpu,
                             ints |-> ints])
  /\ cpu' = handler
  /\ ints' = ints
\* An interrupt gate and the cli of every stub.  hlt is left for good.
Enter(handler) ==
  /\ stack' = Append(stack, [cpu |-> IF cpu = "hlt" THEN "woken" ELSE cpu,
                             ints |-> ints])
  /\ cpu' = handler
  /\ ints' = 0

\* popa64; sti; iretq from the frame the stack pointer is at.  Nothing is
\* delivered between sti and iretq.
ReturnFrom(rsp) ==
  /\ stack' = SubSeq(stack, 1, rsp - 1)
  /\ cpu' = stack[rsp].cpu
  /\ ints' = stack[rsp].ints
Return == ReturnFrom(Len(stack))

-----------------------------------------------------------------------------
(* The devices and the interrupt controller.                               *)

\* A tick while the last one is still latched is lost.
Tick ==
  /\ irr' = irr \cup {0}
  /\ real' = Later(real)
  /\ UNCHANGED <<video, cpu, ints, stack, isr, process_rsp, clock, player>>

Key ==
  /\ irr' = irr \cup {1}
  /\ UNCHANGED <<video, cpu, ints, stack, isr, process_rsp, time, player>>

\* The timer comes first, and a request in service holds back its own line
\* and the lower ones.
Deliver(n) ==
  /\ ints = 1
  /\ n \in irr
  /\ \A m \in irr : n <= m
  /\ \A m \in isr : n < m
  /\ irr' = irr \ {n}
  /\ isr' = isr \cup {n}
  /\ Enter(IF n = 0 THEN "irq0" ELSE "irq1")
  /\ UNCHANGED <<video, process_rsp, time, player>>

\* outb(0x20, 0x20): ends the request in service of highest priority.
\* Mutated Eoi: the acknowledgement is forgotten.
EoiForgotten == isr
Eoi == {m \in isr : \E k \in isr : k < m}

\* Mutated Ticked: the PIT runs twice as fast as "1 tick = 10ms" says.
TickedTwice(t) == Later(Later(t))
Ticked(t) == Later(t)

\* The ring of processes holds only the one multitasking_initialize made, so
\* schedule saves the stack pointer and hands back the same one.
irq0_handler ==
  /\ cpu = "irq0"
  /\ clock' = Ticked(clock)
  /\ isr' = Eoi
  /\ process_rsp' = Len(stack)
  /\ ReturnFrom(process_rsp')
  /\ UNCHANGED <<video, irr, real, player>>

\* What the handler does with the scancode is not modelled here.
isr33_handler ==
  /\ cpu = "irq1"
  /\ isr' = Eoi
  /\ Return
  /\ UNCHANGED <<video, irr, process_rsp, time, player>>

-----------------------------------------------------------------------------
(* System calls.                                                           *)

\* What the player prints before it plays is no error.
sys_putchar ==
  /\ cpu = "putchar"
  /\ reported' = IF user = "abort" THEN 1 ELSE reported
  /\ Return
  /\ UNCHANGED <<video, irr, isr, process_rsp, time, user, rax, current_frame>>

\* exit and isr14_handler: cli; hlt for ever.
sys_exit ==
  /\ cpu \in {"exit", "isr14"}
  /\ cpu' = "halted"
  /\ UNCHANGED <<video, ints, stack, irr, isr, process_rsp, time, player>>

\* With the player at the start of a pass the value becomes start_time.
sys_uptime ==
  /\ cpu = "uptime"
  /\ IF user = "started"
       THEN clock' = 0 /\ real' = 0 /\ rax' = 0
       ELSE rax' = clock /\ UNCHANGED time
  /\ Return
  /\ UNCHANGED <<video, irr, isr, process_rsp, user, current_frame, reported>>

sys_draw ==
  /\ cpu = "draw"
  /\ Return
  /\ UNCHANGED <<video, irr, isr, process_rsp, time, player>>

\* sti; hlt: nothing is delivered between the two.
sys_yield ==
  /\ cpu = "yield"
  /\ cpu' = "hlt"
  /\ ints' = 1
  /\ UNCHANGED <<video, stack, irr, isr, process_rsp, time, player>>

\* The cli after the hlt, and the return to the player.
sys_yield_woken ==
  /\ cpu = "woken"
  /\ Return
  /\ UNCHANGED <<video, irr, isr, process_rsp, time, player>>

Syscall ==
  \/ sys_putchar \/ sys_exit \/ sys_uptime
  \/ sys_draw \/ sys_yield \/ sys_yield_woken

-----------------------------------------------------------------------------
(* The player.                                                             *)

\* int 0x80, with the player going on at next when the call returns.
Call(from, handler, next) ==
  /\ cpu = "user"
  /\ user = from
  /\ user' = next
  /\ Enter(handler)
  /\ UNCHANGED <<video, irr, isr, process_rsp, time, rax, current_frame,
                 reported>>

\* The search for the magic and the look at the size.
Playable == video \in {"good", "cut"}
Scan ==
  /\ cpu = "user"
  /\ user = "scan"
  /\ video # "missing"
  /\ user' = IF Playable THEN "intro" ELSE "error"
  /\ UNCHANGED <<video, machine, time, rax, current_frame, reported>>

\* Reading where nothing is mapped.  Without video.bad that is the first read;
\* a stream that ends too early, here within the last frame, is followed by
\* runs of no pixel up to the end of the page.
Unmapped ==
  \/ user = "scan" /\ video = "missing"
  \/ user = "decode" /\ video = "cut" /\ current_frame + 1 = Frames
PageFault ==
  /\ cpu = "user"
  /\ Unmapped
  /\ Enter("isr14")
  /\ UNCHANGED <<video, user, irr, isr, process_rsp, time, rax, current_frame,
                 reported>>

StartPass ==
  /\ cpu = "user"
  /\ user = "started"
  /\ current_frame' = 0
  /\ user' = "decode"
  /\ UNCHANGED <<video, machine, time, rax, reported>>

MustWait == rax < Expected(current_frame)

Compare ==
  /\ cpu = "user"
  /\ user = "compare"
  /\ \/ /\ MustWait
        /\ user' = "yield"
        /\ UNCHANGED current_frame
     \/ /\ ~ MustWait
        /\ current_frame + 1 < Frames
        /\ current_frame' = current_frame + 1
        /\ user' = "decode"
     \/ /\ ~ MustWait
        /\ current_frame + 1 = Frames
        /\ user' = "start"
        /\ UNCHANGED current_frame
  /\ UNCHANGED <<video, machine, time, rax, reported>>

Player ==
  \/ Scan
  \/ PageFault
  \/ Call("intro", "putchar", "start")
  \/ Call("start", "uptime", "started")
  \/ StartPass
  \/ ~ Unmapped /\ Call("decode", "draw", "wait")
  \/ Call("wait", "uptime", "compare")
  \/ Compare
  \/ Call("yield", "yield", "wait")
  \/ Call("error", "putchar", "abort")
  \/ Call("abort", "exit", "aborted")

Handler == irq0_handler \/ isr33_handler
Thread == Player \/ Syscall

Next ==
  \/ Tick
  \/ Key
  \/ \E n \in {0, 1} : Deliver(n)
  \/ Handler
  \/ Thread

Spec == Init /\ [][Next]_vars

(***************************************************************************)
(* The PIT keeps ticking; the CPU takes a request that stays deliverable   *)
(* and finishes the handler it runs, which waits for nothing.  A handler   *)
(* is far shorter than a tick, so the interrupted thread gets to run       *)
(* between interrupts: if it could run again and again, it does.           *)
(***************************************************************************)
FairSpec ==
  /\ Spec
  /\ WF_vars(Tick)
  /\ WF_vars(\E n \in {0, 1} : Deliver(n))
  /\ WF_vars(Handler)
  /\ SF_vars(Thread)

-----------------------------------------------------------------------------
Places == {"user", "irq0", "irq1", "putchar", "exit", "uptime", "draw",
           "yield", "hlt", "woken", "isr14", "halted"}

TypeOK ==
  /\ video \in Videos
  /\ cpu \in Places
  /\ ints \in {0, 1}
  /\ stack \in Seq([cpu : {"user", "woken"}, ints : {0, 1}])
  /\ irr \subseteq {0, 1}
  /\ isr \subseteq {0, 1}
  /\ process_rsp \in Nat
  /\ clock \in 0..Cap
  /\ real \in 0..Cap
  /\ user \in {"scan", "intro", "start", "started", "decode", "wait", "compare",
               "yield", "error", "abort", "aborted"}
  /\ rax \in 0..Cap
  /\ current_frame \in 0..(Frames - 1)
  /\ reported \in {0, 1}

\* Handlers do not nest: the only kernel code an interrupt ever finds running
\* is the wait of a yield, so kernel data needs no lock and the kernel stack
\* holds at most two frames.
NoNesting ==
  /\ Len(stack) <= 2
  /\ cpu = "user" <=> stack = <<>>
  /\ \A d \in 1..Len(stack) : stack[d].cpu = IF d = 1 THEN "user" ELSE "woken"

\* The interrupt controller and the CPU agree on what is being served, so
\* every acknowledgement ends the request of the handler that sends it.
ServedIsRunning ==
  isr = IF cpu = "irq0" THEN {0} ELSE IF cpu = "irq1" THEN {1} ELSE {}

\* The player draws a frame and then waits for its time: when frame f is drawn,
\* the time of frame f - 1 has passed on the PIT itself, up to the one tick that
\* may have been latched before the pass began.  It may be a period early itself.
NeverEarly ==
  cpu = "draw" /\ current_frame > 0 =>
    real + TickMs >= Expected(current_frame - 1)

\* Handlers and acknowledgements are paired: the CPU, the stack and the
\* controller never disagree on what is being served.
Serving == NoNesting /\ ServedIsRunning

\* A good video plays on and starts again and again: no wakeup is lost between
\* the comparison and the hlt, and every yield ends.  One that cannot be
\* played stops the machine, with the player's message if there is a video to
\* look at and without one if a read faults.
Plays ==
  /\ video = "good" => []<>(user = "start") /\ [](reported = 0)
  /\ video \in {"bad", "large"} => <>[](cpu = "halted" /\ reported = 1)
  /\ video \in {"cut", "missing"} => <>[](cpu = "halted" /\ reported = 0)
=============================================================================

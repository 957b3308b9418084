--------------------------- MODULE InterruptProofs --------------------------
(***************************************************************************)
(* What the timer interrupt does to the code it stops.  The player, for    *)
(* every number of frames: handlers never nest, every acknowledgement ends *)
(* the request being served, and no frame is drawn before the frame before *)
(* it was due, less a tick.  Kernel threads, for every number of tasks:    *)
(* the processor always runs the current task, what can go wrong besides   *)
(* needs interrupts enabled in the middle of a creation, and until two     *)
(* creations overlap the ring holds every task that was linked.            *)
(***************************************************************************)
EXTENDS Playback, Scheduler, SequenceTheorems, TLAPS

-----------------------------------------------------------------------------
(* Facts about the operators.                                              *)

Player1 == [cpu |-> "user", ints |-> 1]
Waiting == [cpu |-> "woken", ints |-> 1]

\* The three forms the kernel stack takes, and how a frame comes and goes.
LEMMA StackForms ==
  /\ Append(<<>>, Player1) = <<Player1>>
  /\ Append(<<Player1>>, Waiting) = <<Player1, Waiting>>
  /\ SubSeq(<<Player1>>, 1, 0) = <<>>
  /\ SubSeq(<<Player1, Waiting>>, 1, 1) = <<Player1>>
  /\ Len(<<Player1>>) = 1 /\ Len(<<Player1, Waiting>>) = 2
  /\ <<Player1>>[1] = Player1
  /\ <<Player1, Waiting>>[1] = Player1 /\ <<Player1, Waiting>>[2] = Waiting
  <1> HIDE DEF Player1, Waiting
  <1>1. \A p : Append(<<>>, p) = <<p>> /\ SubSeq(<<p>>, 1, 0) = <<>>
    OBVIOUS
  <1>2. ASSUME NEW p, NEW w PROVE Append(<<p>>, w) = <<p, w>>
    <2> DEFINE S == {p, w}
               v == <<p>>
               t == Append(<<p>>, w)
               u == <<p, w>>
    <2>1. /\ v \in Seq(S) /\ w \in S /\ Len(v) = 1 /\ v[1] = p
          /\ u \in Seq(S) /\ Len(u) = 2 /\ u[1] = p /\ u[2] = w
      OBVIOUS
    <2>2. /\ t \in Seq(S) /\ Len(t) = Len(v) + 1 /\ t[Len(v) + 1] = w
          /\ \A k \in 1..Len(v) : t[k] = v[k]
      BY <2>1, AppendProperties
    <2> HIDE DEF S, t, u, v
    <2>3. Len(t) = 2 /\ t[2] = w
      BY <2>1, <2>2
    <2>4. t[1] = p
      BY <2>1, <2>2
    <2>5. \A k \in 1..Len(t) : t[k] = u[k]
      <3>1. \A k \in 1..Len(t) : k = 1 \/ k = 2
        BY <2>3
      <3> QED BY <2>1, <2>3, <2>4, <3>1
    <2>6. t = u
      BY <2>1, <2>2, <2>3, <2>5, SeqEqual
    <2> QED BY <2>6 DEF t, u
  <1>3. ASSUME NEW p, NEW w PROVE SubSeq(<<p, w>>, 1, 1) = <<p>>
    <2> DEFINE S == {p, w}
               t == SubSeq(<<p, w>>, 1, 1)
    <2>1. /\ t \in Seq(S) /\ Len(t) = 1
          /\ \A k \in 1..1 : t[k] = <<p, w>>[k]
      <3>1. \A k \in 1..1 : <<p, w>>[k] \in S
        OBVIOUS
      <3>2. /\ t \in Seq(S)
            /\ Len(t) = IF 1 <= 1 THEN 1 - 1 + 1 ELSE 0
            /\ \A k \in 1..(1 - 1 + 1) : t[k] = <<p, w>>[1 + k - 1]
        BY <3>1, SubSeqProperties
      <3> QED BY <3>2
    <2>2. t[1] = p
      BY <2>1
    <2>3. <<p>> \in Seq(S) /\ Len(<<p>>) = 1 /\ <<p>>[1] = p
      OBVIOUS
    <2> HIDE DEF t, S
    <2>4. \A k \in 1..Len(t) : t[k] = <<p>>[k]
      BY <2>1, <2>2, <2>3
    <2>5. t = <<p>>
      BY <2>1, <2>3, <2>4, SeqEqual
    <2> QED BY <2>5 DEF t
  <1> QED BY <1>1, <1>2, <1>3

\* The times of the frames are ordered and below Cap, and the clock moves up
\* to Cap by at most a tick.
LEMMA Times ==
  /\ Cap \in Nat
  /\ \A f \in 0..(Frames - 1) : Expected(f) \in 0..Cap
  /\ \A t \in 0..Cap :
       /\ Later(t) \in 0..Cap
       /\ t <= Later(t) /\ Later(t) <= t + TickMs
       /\ Later(t) = t + TickMs \/ Later(t) = Cap
  <1>1. Expected(Frames - 1) \in Nat /\ Cap \in Nat
    BY PlaybackAssumption DEF Expected, Cap, TickMs
  <1>2. \A f \in 0..(Frames - 1) :
          Expected(f) \in Nat /\ Expected(f) <= Expected(Frames - 1)
    BY PlaybackAssumption DEF Expected
  <1> QED BY <1>1, <1>2 DEF Cap, Later, TickMs

-----------------------------------------------------------------------------
(* The inductive invariant.                                                *)

Calls == {"putchar", "exit", "uptime", "draw", "yield", "isr14"}

\* What runs decides the interrupt flag, what the stack holds and what the
\* interrupt controller has in service.
Shape ==
  \/ cpu = "user" /\ ints = 1 /\ stack = <<>> /\ isr = {}
  \/ cpu \in Calls \cup {"halted"} /\ ints = 0 /\ stack = <<Player1>> /\ isr = {}
  \/ cpu \in {"hlt", "woken"} /\ ints = 1 /\ stack = <<Player1>> /\ isr = {}
  \/ /\ cpu \in {"irq0", "irq1"} /\ ints = 0
     /\ stack \in {<<Player1>>, <<Player1, Waiting>>}
     /\ isr = IF cpu = "irq0" THEN {0} ELSE {1}

\* Ticks the PIT has counted and the clock has not: latched, or being served.
Owed == (IF 0 \in irr THEN TickMs ELSE 0) + (IF cpu = "irq0" THEN TickMs ELSE 0)

\* The clock, with the ticks it is still owed, is at most the tick latched
\* before the pass began ahead of the PIT.
ClockBound == real = Cap \/ clock + Owed <= real + TickMs

\* What the player knows of the clock is not ahead of it, the call in progress
\* is the one the player made, and the frame in hand is due.
Pace ==
  /\ rax <= clock
  /\ cpu = "draw" => user = "wait"
  /\ current_frame > 0 /\ user \in {"decode", "wait", "compare", "yield"} =>
       real + TickMs >= Expected(current_frame - 1)

IInv == TypeOK /\ Shape /\ ClockBound /\ Pace

-----------------------------------------------------------------------------
\* Ring 3 is entered with the interrupt controller idle and nothing drawn.
LEMMA InitInv == Init => IInv
  <1> SUFFICES ASSUME Init PROVE IInv
    OBVIOUS
  <1>1. TypeOK
    BY Times, PlaybackAssumption DEF Init, TypeOK, Places
  <1>2. Shape
    BY DEF Init, Shape
  <1>3. ClockBound /\ Pace
    BY Times DEF Init, ClockBound, Owed, Pace, TickMs
  <1> QED BY <1>1, <1>2, <1>3 DEF IInv

\* Every form of the stack is a sequence of saved contexts.
LEMMA StackTyped ==
  ASSUME NEW s \in {<<>>, <<Player1>>, <<Player1, Waiting>>}
  PROVE  s \in Seq([cpu : {"user", "woken"}, ints : {0, 1}])
  <1> DEFINE C == [cpu : {"user", "woken"}, ints : {0, 1}]
  <1>1. Player1 \in C /\ Waiting \in C
    BY DEF Player1, Waiting
  <1> HIDE DEF C, Player1, Waiting
  <1>2. /\ <<>> \in Seq(C) /\ <<Player1>> \in Seq(C)
        /\ <<Player1, Waiting>> \in Seq(C)
    BY <1>1
  <1>3. s \in Seq(C)
    BY <1>2
  <1> QED BY <1>3 DEF C

\* A step that leaves the clocks alone, and neither latches a tick nor ends
\* one, keeps the clock's bound.
LEMMA ClockKept ==
  ASSUME IInv, UNCHANGED time, Owed' = Owed
  PROVE  ClockBound'
  BY DEF IInv, ClockBound, time

\* A tick is counted by the PIT and latched, or lost.
LEMMA TickInv == IInv /\ Tick => IInv'
  <1> SUFFICES ASSUME IInv, Tick PROVE IInv'
    OBVIOUS
  <1> USE DEF Tick
  <1>1. /\ real \in 0..Cap /\ real' = Later(real) /\ Cap \in Nat
        /\ clock \in 0..Cap /\ clock' = clock
        /\ real' \in 0..Cap /\ real <= real'
        /\ real' = real + TickMs \/ real' = Cap
    BY Times DEF IInv, TypeOK
  <1>2. TypeOK'
    BY <1>1 DEF IInv, TypeOK, player
  <1>3. Shape'
    BY DEF IInv, Shape
  <1>4. ClockBound'
    <2>1. real = Cap => real' = Cap
      BY <1>1
    <2>2. Owed' <= Owed + TickMs /\ Owed \in Nat /\ Owed' \in Nat
      BY DEF Owed, TickMs
    <2> QED BY <1>1, <2>1, <2>2 DEF IInv, ClockBound, TickMs
  <1>5. Pace'
    <2>1. current_frame > 0 => Expected(current_frame - 1) \in Nat
      BY Times, PlaybackAssumption DEF IInv, TypeOK
    <2> QED BY <1>1, <2>1 DEF IInv, Pace, player, TickMs
  <1> QED BY <1>2, <1>3, <1>4, <1>5 DEF IInv

\* A key press is latched.
LEMMA KeyInv == IInv /\ Key => IInv'
  <1> SUFFICES ASSUME IInv, Key PROVE IInv'
    OBVIOUS
  <1> USE DEF Key
  <1>1. TypeOK'
    BY DEF IInv, TypeOK, time, player
  <1>2. Shape'
    BY DEF IInv, Shape
  <1>3. ClockBound'
    BY ClockKept DEF Owed
  <1>4. Pace'
    BY DEF IInv, Pace, time, player
  <1> QED BY <1>1, <1>2, <1>3, <1>4 DEF IInv

\* A request is taken from the player, or from the wait of a yield.
LEMMA DeliverInv ==
  ASSUME IInv, NEW n \in {0, 1}, Deliver(n)
  PROVE  IInv'
  <1> USE DEF Deliver
  <1>1. /\ ints = 1 /\ n \in irr /\ irr' = irr \ {n} /\ isr' = isr \cup {n}
        /\ cpu' = (IF n = 0 THEN "irq0" ELSE "irq1") /\ ints' = 0
        /\ stack' = Append(stack, [cpu |-> IF cpu = "hlt" THEN "woken" ELSE cpu,
                                   ints |-> ints])
    BY DEF Enter
  <1>2. Shape'
    <2>1. CASE cpu = "user" /\ stack = <<>> /\ isr = {}
      <3>1. stack' = Append(<<>>, Player1)
        BY <1>1, <2>1 DEF Player1
      <3>2. stack' = <<Player1>>
        BY <3>1, StackForms
      <3> QED BY <1>1, <2>1, <3>2 DEF Shape
    <2>2. CASE cpu \in {"hlt", "woken"} /\ stack = <<Player1>> /\ isr = {}
      <3>1. stack' = Append(<<Player1>>, Waiting)
        BY <1>1, <2>2 DEF Waiting
      <3>2. stack' = <<Player1, Waiting>>
        BY <3>1, StackForms
      <3> QED BY <1>1, <2>2, <3>2 DEF Shape
    <2> QED BY <1>1, <2>1, <2>2 DEF IInv, Shape
  <1>3. TypeOK'
    <2>1. stack' \in Seq([cpu : {"user", "woken"}, ints : {0, 1}])
      <3>1. stack' \in {<<>>, <<Player1>>, <<Player1, Waiting>>}
        BY <1>2 DEF Shape
      <3> QED BY <3>1, StackTyped
    <2>2. cpu' \in Places /\ ints' \in {0, 1}
      BY <1>1 DEF Places
    <2>3. irr' \subseteq {0, 1} /\ isr' \subseteq {0, 1}
      BY <1>1 DEF IInv, TypeOK
    <2> QED BY <2>1, <2>2, <2>3 DEF IInv, TypeOK, time, player
  <1>4. Owed' = Owed
    <2>1. cpu # "irq0"
      BY <1>1 DEF IInv, Shape
    <2> QED BY <1>1, <2>1 DEF Owed, TickMs
  <1>5. ClockBound'
    BY <1>4, ClockKept
  <1>6. Pace'
    BY <1>1 DEF IInv, Pace, time, player
  <1> QED BY <1>2, <1>3, <1>5, <1>6 DEF IInv

\* Returning from the innermost context: what ran before runs again, with the
\* interrupts enabled as they were.
LEMMA ReturnForms ==
  ASSUME IInv, Return, cpu # "user"
  PROVE  \/ /\ stack = <<Player1>>
            /\ stack' = <<>> /\ cpu' = "user" /\ ints' = 1
         \/ /\ stack = <<Player1, Waiting>> /\ cpu \in {"irq0", "irq1"}
            /\ stack' = <<Player1>> /\ cpu' = "woken" /\ ints' = 1
  <1>1. CASE stack = <<Player1>>
    <2>1. /\ stack' = SubSeq(<<Player1>>, 1, 1 - 1)
          /\ cpu' = <<Player1>>[1].cpu /\ ints' = <<Player1>>[1].ints
      BY <1>1, StackForms DEF Return, ReturnFrom
    <2>2. stack' = <<>> /\ cpu' = Player1.cpu /\ ints' = Player1.ints
      BY <2>1, StackForms
    <2> QED BY <1>1, <2>2 DEF Player1
  <1>2. CASE stack = <<Player1, Waiting>> /\ cpu \in {"irq0", "irq1"}
    <2>1. /\ stack' = SubSeq(<<Player1, Waiting>>, 1, 2 - 1)
          /\ cpu' = <<Player1, Waiting>>[2].cpu
          /\ ints' = <<Player1, Waiting>>[2].ints
      BY <1>2, StackForms DEF Return, ReturnFrom
    <2>2. stack' = <<Player1>> /\ cpu' = Waiting.cpu /\ ints' = Waiting.ints
      BY <2>1, StackForms
    <2> QED BY <1>2, <2>2 DEF Waiting
  <1>3. \/ stack = <<Player1>>
        \/ stack = <<Player1, Waiting>> /\ cpu \in {"irq0", "irq1"}
    <2> HIDE DEF Player1, Waiting
    <2> QED BY DEF IInv, Shape
  <1> QED BY <1>1, <1>2, <1>3

\* What a return leaves is well typed and well formed, provided nothing is
\* left in service.
LEMMA ReturnShape ==
  ASSUME IInv, Return, cpu # "user", isr' = {}
  PROVE  /\ Shape'
         /\ cpu' \in {"user", "woken"} /\ ints' \in {0, 1}
         /\ stack' \in Seq([cpu : {"user", "woken"}, ints : {0, 1}])
  <1> HIDE DEF Player1, Waiting
  <1>1. \/ stack' = <<>> /\ cpu' = "user" /\ ints' = 1
        \/ stack' = <<Player1>> /\ cpu' = "woken" /\ ints' = 1
    BY ReturnForms
  <1>2. Shape'
    BY <1>1 DEF Shape
  <1>3. stack' \in {<<>>, <<Player1>>, <<Player1, Waiting>>}
    BY <1>1
  <1> QED BY <1>1, <1>2, <1>3, StackTyped

\* The acknowledgement ends the one request in service.
LEMMA EoiEnds ==
  ASSUME NEW n \in {0, 1}, isr = {n}
  PROVE  Eoi = {}
  BY DEF Eoi

\* The timer's handler: the tick it serves passes from what is owed to the
\* clock, and its acknowledgement leaves nothing in service.
LEMMA Irq0Inv == IInv /\ irq0_handler => IInv'
  <1> SUFFICES ASSUME IInv, irq0_handler PROVE IInv'
    OBVIOUS
  <1> USE DEF irq0_handler
  <1>1. /\ cpu = "irq0" /\ isr = {0} /\ isr' = {} /\ irr' = irr
        /\ real' = real /\ clock' = Later(clock) /\ video' = video
        /\ UNCHANGED player /\ Return
    <2>1. cpu = "irq0" /\ isr = {0}
      BY DEF IInv, Shape, Calls
    <2>2. isr' = {}
      BY <2>1, EoiEnds
    <2>3. Return
      BY DEF Return, ReturnFrom
    <2> QED BY <2>1, <2>2, <2>3 DEF Ticked
  <1>2. /\ clock \in 0..Cap /\ clock' \in 0..Cap /\ real \in 0..Cap
        /\ clock <= clock' /\ clock' <= clock + TickMs /\ Cap \in Nat
    BY <1>1, Times DEF IInv, TypeOK
  <1>3. /\ Shape' /\ cpu' \in {"user", "woken"} /\ ints' \in {0, 1}
        /\ stack' \in Seq([cpu : {"user", "woken"}, ints : {0, 1}])
    BY <1>1, ReturnShape
  <1>4. process_rsp' \in Nat
    BY DEF IInv, TypeOK
  <1>5. TypeOK'
    BY <1>1, <1>2, <1>3, <1>4 DEF IInv, TypeOK, player, Places
  <1>6. ClockBound'
    <2>1. PICK c \in 0..Cap : c = clock' /\ c <= clock + 10
      BY <1>2 DEF TickMs
    <2>2. PICK latched \in {0, 10} : Owed = latched + 10 /\ Owed' = latched
      BY <1>1, <1>3 DEF Owed, TickMs
    <2>3. real = Cap \/ clock + (latched + 10) <= real + 10
      BY <2>2 DEF IInv, ClockBound, TickMs
    <2>4. real = Cap \/ c + latched <= real + 10
      BY <1>2, <2>1, <2>3
    <2>5. real' = Cap \/ clock' + Owed' <= real' + TickMs
      BY <1>1, <2>1, <2>2, <2>4 DEF TickMs
    <2> QED BY <2>5 DEF ClockBound
  <1>7. Pace'
    BY <1>1, <1>2, <1>3 DEF IInv, Pace, TypeOK, player
  <1> QED BY <1>3, <1>5, <1>6, <1>7 DEF IInv

\* The keyboard's handler.
LEMMA Irq1Inv == IInv /\ isr33_handler => IInv'
  <1> SUFFICES ASSUME IInv, isr33_handler PROVE IInv'
    OBVIOUS
  <1> USE DEF isr33_handler
  <1>1. cpu = "irq1" /\ isr = {1} /\ isr' = {} /\ Return
    <2>1. cpu = "irq1" /\ isr = {1}
      BY DEF IInv, Shape, Calls
    <2> QED BY <2>1, EoiEnds
  <1>2. /\ Shape' /\ cpu' \in {"user", "woken"} /\ ints' \in {0, 1}
        /\ stack' \in Seq([cpu : {"user", "woken"}, ints : {0, 1}])
    BY <1>1, ReturnShape
  <1>3. TypeOK'
    BY <1>1, <1>2 DEF IInv, TypeOK, time, player, Places
  <1>4. ClockBound'
    <2>1. Owed' = Owed
      BY <1>1, <1>2 DEF Owed
    <2> QED BY <2>1, ClockKept
  <1>5. Pace'
    BY <1>2 DEF IInv, Pace, time, player
  <1> QED BY <1>2, <1>3, <1>4, <1>5 DEF IInv

\* putchar, draw and the end of a yield change nothing the invariant speaks
\* of, and return to the player.
LEMMA PlainCallInv ==
  IInv /\ (sys_putchar \/ sys_draw \/ sys_yield_woken) => IInv'
  <1> SUFFICES ASSUME IInv, sys_putchar \/ sys_draw \/ sys_yield_woken
               PROVE  IInv'
    OBVIOUS
  <1>1. /\ cpu \in {"putchar", "draw", "woken"} /\ Return
        /\ irr' = irr /\ isr' = isr /\ process_rsp' = process_rsp
        /\ video' = video /\ clock' = clock /\ real' = real
        /\ user' = user /\ rax' = rax /\ current_frame' = current_frame
        /\ reported' \in {reported, 1}
    BY DEF sys_putchar, sys_draw, sys_yield_woken, time, player
  <1>2. isr' = {}
    BY <1>1 DEF IInv, Shape
  <1>3. /\ Shape' /\ cpu' \in {"user", "woken"} /\ ints' \in {0, 1}
        /\ stack' \in Seq([cpu : {"user", "woken"}, ints : {0, 1}])
    BY <1>1, <1>2, ReturnShape
  <1>4. TypeOK'
    BY <1>1, <1>3 DEF IInv, TypeOK, Places
  <1>5. ClockBound'
    <2>1. Owed' = Owed
      BY <1>1, <1>3 DEF Owed
    <2> QED BY <1>1, <2>1, ClockKept DEF time
  <1>6. Pace'
    BY <1>1, <1>3 DEF IInv, Pace
  <1> QED BY <1>3, <1>4, <1>5, <1>6 DEF IInv

\* uptime() hands the clock to the player; at the start of a pass it restarts
\* both times, with at most one tick latched.
LEMMA UptimeInv == IInv /\ sys_uptime => IInv'
  <1> SUFFICES ASSUME IInv, sys_uptime PROVE IInv'
    OBVIOUS
  <1>1. /\ cpu = "uptime" /\ Return /\ irr' = irr /\ isr' = isr
        /\ process_rsp' = process_rsp /\ video' = video
        /\ user' = user /\ current_frame' = current_frame
        /\ reported' = reported
        /\ \/ user = "started" /\ clock' = 0 /\ real' = 0 /\ rax' = 0
           \/ clock' = clock /\ real' = real /\ rax' = clock
    BY DEF sys_uptime, time
  <1>2. isr' = {}
    BY <1>1 DEF IInv, Shape
  <1>3. /\ Shape' /\ cpu' \in {"user", "woken"} /\ ints' \in {0, 1}
        /\ stack' \in Seq([cpu : {"user", "woken"}, ints : {0, 1}])
    BY <1>1, <1>2, ReturnShape
  <1>4. TypeOK'
    BY <1>1, <1>3, Times DEF IInv, TypeOK, Places
  <1>5. Owed' = Owed /\ Owed \in {0, TickMs}
    BY <1>1, <1>3 DEF Owed, TickMs
  <1>6. ClockBound'
    <2>1. CASE clock' = 0 /\ real' = 0
      BY <1>5, <2>1 DEF ClockBound, TickMs
    <2>2. CASE clock' = clock /\ real' = real
      BY <1>5, <2>2, ClockKept DEF time
    <2> QED BY <1>1, <2>1, <2>2
  <1>7. Pace'
    <2>1. rax' <= clock'
      BY <1>1 DEF IInv, TypeOK
    <2> QED BY <1>1, <1>3, <2>1 DEF IInv, Pace
  <1> QED BY <1>3, <1>4, <1>6, <1>7 DEF IInv

\* sti; hlt: the wait begins with interrupts enabled.  exit and a page fault
\* stop the machine.
LEMMA WaitInv == IInv /\ (sys_yield \/ sys_exit) => IInv'
  <1> SUFFICES ASSUME IInv, sys_yield \/ sys_exit PROVE IInv'
    OBVIOUS
  <1>1. /\ stack' = stack /\ irr' = irr /\ isr' = isr
        /\ process_rsp' = process_rsp /\ video' = video
        /\ UNCHANGED time /\ UNCHANGED player
        /\ \/ cpu = "yield" /\ cpu' = "hlt" /\ ints' = 1
           \/ cpu \in {"exit", "isr14"} /\ cpu' = "halted" /\ ints' = ints
    BY DEF sys_yield, sys_exit
  <1>2. Shape'
    BY <1>1 DEF IInv, Shape, Calls
  <1>3. TypeOK'
    BY <1>1 DEF IInv, TypeOK, time, player, Places
  <1>4. ClockBound'
    <2>1. Owed' = Owed
      BY <1>1 DEF Owed
    <2> QED BY <1>1, <2>1, ClockKept
  <1>5. Pace'
    BY <1>1 DEF IInv, Pace, player, time
  <1> QED BY <1>2, <1>3, <1>4, <1>5 DEF IInv

\* Entering the kernel from the player.
LEMMA EnterFromUser ==
  ASSUME IInv, cpu = "user", NEW h \in Calls, Enter(h), isr' = isr
  PROVE  /\ Shape' /\ cpu' = h /\ ints' = 0
         /\ stack' \in Seq([cpu : {"user", "woken"}, ints : {0, 1}])
  <1>1. ints = 1 /\ stack = <<>> /\ isr = {}
    BY DEF IInv, Shape, Calls
  <1>2. stack' = Append(<<>>, Player1) /\ cpu' = h /\ ints' = 0
    BY <1>1 DEF Enter, Player1
  <1>3. stack' = <<Player1>>
    BY <1>2, StackForms
  <1>4. Shape'
    BY <1>1, <1>2, <1>3 DEF Shape
  <1> QED BY <1>2, <1>3, <1>4, StackTyped

\* int 0x80 from the player, for the calls the player makes.
LEMMA CallInv ==
  ASSUME IInv, NEW from, NEW h \in Calls, NEW after, Call(from, h, after),
         after \in {"start", "started", "wait", "compare", "abort", "aborted"},
         after = "wait" => from \in {"decode", "yield"},
         after = "compare" => from = "wait",
         h = "draw" => after = "wait"
  PROVE  IInv'
  <1>1. /\ cpu = "user" /\ user = from /\ user' = after /\ Enter(h)
        /\ irr' = irr /\ isr' = isr /\ process_rsp' = process_rsp
        /\ video' = video /\ UNCHANGED time /\ rax' = rax
        /\ current_frame' = current_frame /\ reported' = reported
    BY DEF Call
  <1>2. /\ Shape' /\ cpu' = h /\ ints' = 0
        /\ stack' \in Seq([cpu : {"user", "woken"}, ints : {0, 1}])
    BY <1>1, EnterFromUser
  <1>3. TypeOK'
    BY <1>1, <1>2 DEF IInv, TypeOK, time, Places, Calls
  <1>4. ClockBound'
    <2>1. Owed' = Owed
      BY <1>1, <1>2 DEF Owed, Calls
    <2> QED BY <1>1, <2>1, ClockKept
  <1>5. Pace'
    BY <1>1, <1>2 DEF IInv, Pace, time
  <1> QED BY <1>2, <1>3, <1>4, <1>5 DEF IInv

\* The search for the magic.
LEMMA ScanInv == IInv /\ Scan => IInv'
  <1> SUFFICES ASSUME IInv, Scan PROVE IInv'
    OBVIOUS
  <1>1. /\ cpu = "user" /\ UNCHANGED machine /\ UNCHANGED time
        /\ video' = video /\ rax' = rax /\ current_frame' = current_frame
        /\ reported' = reported /\ user' \in {"intro", "error"}
    BY DEF Scan
  <1>2. Shape' /\ cpu' = "user"
    BY <1>1 DEF IInv, Shape, machine
  <1>3. TypeOK'
    BY <1>1 DEF IInv, TypeOK, machine, time
  <1>4. Owed' = Owed
    BY <1>1 DEF Owed, machine
  <1>5. Pace'
    BY <1>1, <1>2 DEF IInv, Pace, time
  <1> QED BY <1>1, <1>2, <1>3, <1>4, <1>5, ClockKept DEF IInv

\* A read where nothing is mapped.
LEMMA FaultInv == IInv /\ PageFault => IInv'
  <1> SUFFICES ASSUME IInv, PageFault PROVE IInv'
    OBVIOUS
  <1>1. /\ cpu = "user" /\ Enter("isr14") /\ irr' = irr /\ isr' = isr
        /\ process_rsp' = process_rsp /\ video' = video /\ UNCHANGED time
        /\ rax' = rax /\ current_frame' = current_frame
        /\ reported' = reported /\ user' = user
    BY DEF PageFault
  <1>2. /\ Shape' /\ cpu' = "isr14" /\ ints' = 0
        /\ stack' \in Seq([cpu : {"user", "woken"}, ints : {0, 1}])
    <2>1. "isr14" \in Calls
      BY DEF Calls
    <2> QED BY <1>1, <2>1, EnterFromUser
  <1>3. TypeOK'
    BY <1>1, <1>2 DEF IInv, TypeOK, time, Places
  <1>4. Owed' = Owed
    BY <1>1, <1>2 DEF Owed
  <1>5. Pace'
    BY <1>1, <1>2 DEF IInv, Pace, time
  <1> QED BY <1>1, <1>2, <1>3, <1>4, <1>5, ClockKept DEF IInv

\* The player moving on by itself: to the first frame, to the next one once
\* the time of this one has come, into a wait, or to the next pass.
LEMMA MoveInv == IInv /\ (StartPass \/ Compare) => IInv'
  <1> SUFFICES ASSUME IInv, StartPass \/ Compare PROVE IInv'
    OBVIOUS
  <1>1. /\ cpu = "user" /\ UNCHANGED machine /\ UNCHANGED time
        /\ video' = video /\ rax' = rax /\ reported' = reported
        /\ \/ user' = "decode" /\ current_frame' = 0
           \/ user = "compare" /\ user' = "yield"
              /\ current_frame' = current_frame
           \/ user = "compare" /\ user' = "decode" /\ ~ MustWait
              /\ current_frame + 1 < Frames
              /\ current_frame' = current_frame + 1
           \/ user = "compare" /\ user' = "start"
              /\ current_frame' = current_frame
    BY DEF StartPass, Compare
  <1>2. Shape' /\ Owed' = Owed /\ cpu' = "user"
    BY <1>1 DEF IInv, Shape, Owed, machine
  <1>3. TypeOK'
    <2>1. current_frame' \in 0..(Frames - 1)
      BY <1>1, PlaybackAssumption DEF IInv, TypeOK
    <2> QED BY <1>1, <2>1 DEF IInv, TypeOK, machine, time
  <1>4. Pace'
    <2>1. rax' <= clock' /\ (cpu' = "draw" => user' = "wait")
      BY <1>1, <1>2 DEF IInv, Pace, time
    <2>2. CASE user' = "decode" /\ current_frame' = 0
      BY <2>1, <2>2 DEF Pace
    <2>3. CASE user' = "yield" /\ user = "compare"
               /\ current_frame' = current_frame
      BY <1>1, <2>1, <2>3 DEF IInv, Pace, time
    <2>4. CASE user' = "start"
      BY <2>1, <2>4 DEF Pace
    <2>5. CASE /\ user' = "decode" /\ ~ MustWait
               /\ current_frame' = current_frame + 1
      <3>1. /\ current_frame \in 0..(Frames - 1)
            /\ current_frame' - 1 = current_frame
        BY <2>5, PlaybackAssumption DEF IInv, TypeOK
      <3>2. Expected(current_frame) \in 0..Cap /\ Cap \in Nat
        BY <3>1, Times
      <3>3. Expected(current_frame) <= clock
        BY <2>5, <3>2 DEF MustWait, IInv, Pace, TypeOK
      <3>4. real + TickMs >= Expected(current_frame)
        <4>1. Owed \in Nat
          BY DEF Owed, TickMs
        <4> QED BY <3>2, <3>3, <4>1
                DEF IInv, ClockBound, TypeOK, TickMs
      <3>5. real' + TickMs >= Expected(current_frame' - 1)
        BY <1>1, <3>1, <3>4 DEF time
      <3> QED BY <2>1, <3>5 DEF Pace
    <2> QED BY <1>1, <2>2, <2>3, <2>4, <2>5
  <1> QED BY <1>1, <1>2, <1>3, <1>4, ClockKept DEF IInv

-----------------------------------------------------------------------------
\* Every step of the machine and of the player preserves the invariant.
LEMMA StepInv == IInv /\ [Next]_vars => IInv'
  <1> SUFFICES ASSUME IInv, [Next]_vars PROVE IInv'
    OBVIOUS
  <1>1. CASE UNCHANGED vars
    BY <1>1 DEF vars, machine, time, player, IInv, TypeOK, Shape, ClockBound,
                Owed, Pace
  <1>2. CASE \E n \in {0, 1} : Deliver(n)
    BY <1>2, DeliverInv
  <1>3. CASE Player
    <2>1. {"uptime", "draw", "yield", "putchar", "exit"} \subseteq Calls
      BY DEF Calls
    <2>8. CASE Call("intro", "putchar", "start")
      BY <2>1, <2>8, CallInv
    <2>2. CASE Call("start", "uptime", "started")
      BY <2>1, <2>2, CallInv
    <2>3. CASE Call("decode", "draw", "wait")
      BY <2>1, <2>3, CallInv
    <2>4. CASE Call("wait", "uptime", "compare")
      BY <2>1, <2>4, CallInv
    <2>5. CASE Call("yield", "yield", "wait")
      BY <2>1, <2>5, CallInv
    <2>6. CASE Call("error", "putchar", "abort")
      BY <2>1, <2>6, CallInv
    <2>7. CASE Call("abort", "exit", "aborted")
      BY <2>1, <2>7, CallInv
    <2> QED BY <1>3, <2>2, <2>3, <2>4, <2>5, <2>6, <2>7, <2>8, ScanInv,
           FaultInv, MoveInv DEF Player
  <1>4. CASE Tick \/ Key \/ Handler \/ Syscall
    BY <1>4, TickInv, KeyInv, Irq0Inv, Irq1Inv, PlainCallInv, UptimeInv,
       WaitInv DEF Handler, Syscall
  <1> QED BY <1>1, <1>2, <1>3, <1>4 DEF Next, Thread

\* The inductive invariant holds of every behaviour.
THEOREM Inductive == Spec => []IInv
  BY InitInv, StepInv, PTL DEF Spec

\* Every variable keeps its type.
THEOREM TypeCorrect == Spec => []TypeOK
  <1>1. IInv => TypeOK
    BY DEF IInv
  <1> QED BY <1>1, Inductive, PTL

\* Interrupts find the kernel only in the wait of a yield, and the kernel stack
\* never holds more than two contexts.
THEOREM HandlersDoNotNest == Spec => []NoNesting
  <1>1. ASSUME Shape PROVE NoNesting
    <2>1. CASE stack = <<>> /\ cpu = "user"
      BY <2>1 DEF NoNesting
    <2>2. CASE stack = <<Player1>> /\ cpu # "user"
      BY <2>2, StackForms DEF NoNesting, Player1
    <2>3. CASE stack = <<Player1, Waiting>> /\ cpu # "user"
      <3>1. Len(stack) = 2 /\ stack # <<>>
        BY <2>3, StackForms
      <3>2. stack[1].cpu = "user" /\ stack[2].cpu = "woken"
        BY <2>3, StackForms DEF Player1, Waiting
      <3>3. \A d \in 1..Len(stack) : d = 1 \/ d = 2
        BY <3>1
      <3> QED BY <2>3, <3>1, <3>2, <3>3 DEF NoNesting
    <2> HIDE DEF Player1, Waiting
    <2> QED BY <1>1, <2>1, <2>2, <2>3 DEF Shape, Calls
  <1>2. IInv => NoNesting
    BY <1>1 DEF IInv
  <1> QED BY <1>2, Inductive, PTL

\* What the interrupt controller has in service is what the CPU is serving.
THEOREM Acknowledged == Spec => []ServedIsRunning
  <1>1. IInv => ServedIsRunning
    BY DEF IInv, Shape, Calls, ServedIsRunning
  <1> QED BY <1>1, Inductive, PTL

\* Handlers and acknowledgements are paired throughout.
THEOREM Paired == Spec => []Serving
  BY HandlersDoNotNest, Acknowledged, PTL DEF Serving

\* A frame is drawn no earlier than the frame before it was due, less one tick
\* of the clock, measured on the PIT and not on the clock the player reads; the
\* player draws a frame and then waits for its time.
THEOREM Paced == Spec => []NeverEarly
  <1>1. IInv => NeverEarly
    BY DEF IInv, Pace, NeverEarly
  <1> QED BY <1>1, Inductive, PTL


-----------------------------------------------------------------------------
(* Kernel threads: the inductive invariant.                                *)

\* Blocks are taken in order.
Numbered == \E n \in 0..MaxPid : Tasks = 0..n

\* A creation that looks for a block has come to the first free one, and the
\* task it has taken is its own, without a stack.
Owned ==
  /\ \A u \in Tasks : step[u] = "found" =>
       new_task[u] # 0 /\ 0..(new_task[u] - 1) \subseteq Tasks
  /\ \A u \in Tasks : step[u] \in Entering \cup Stackless =>
       new_task[u] \in Tasks \ {0} /\ rsp[new_task[u]] = Unset
  /\ \A u, v \in Tasks :
       /\ step[u] \in Entering \cup Stackless
       /\ step[v] \in Entering \cup Stackless
       /\ new_task[u] = new_task[v]
       => u = v

\* The ring leads from tasks in the ring to tasks in the ring.
Closed ==
  /\ 0 \in Made /\ current_process \in Made
  /\ \A t \in Made : next[t] \in Made
  /\ \A u \in Tasks : step[u] = "pointed" => next[new_task[u]] \in Made

\* Between the store that links it and the one that sets its stack pointer.
Hanging(t) == \E u \in Tasks : step[u] \in Stackless /\ new_task[u] = t

\* A stack pointer belongs to its task, so resuming a task runs it; in the ring
\* only the running task and one that hangs have none.
Contexts ==
  /\ \A t \in Tasks : rsp[t] \in {t, Unset}
  /\ stopped = "no" => running = current_process
  /\ running # process_list => rsp[running] = running
  /\ \A t \in Made : rsp[t] = Unset => t = running \/ Hanging(t)
  /\ stopped = "lost" => Hanging(current_process)

\* Without overlap there is one creation at a time; with interrupts disabled it
\* is the running task's.
Alone ==
  /\ ~ overlapped =>
       \A u, v \in Tasks : step[u] # "work" /\ step[v] # "work" => u = v
  /\ masked => /\ ~ overlapped /\ stopped # "lost"
               /\ \A u \in Tasks : step[u] # "work" => u = running

\* The tasks that have a process number.
Written == {t \in Tasks : \A u \in Tasks : step[u] \in {"taken", "counted"} => new_task[u] # t}

\* Without overlap what a creation has read is still so when it stores.
Fresh ==
  ~ overlapped =>
    /\ stopped # "shared"
    /\ \A u \in Tasks : step[u] = "found" => new_task[u] \notin Tasks
    /\ \A u \in Tasks : step[u] = "framed" => reg[u] = frames + 1
    /\ \A u \in Tasks : step[u] = "counted" => reg[u] = next_pid
    /\ \A t \in Written : pid[t] < next_pid
    /\ \A t, u \in Written : pid[t] = pid[u] => t = u

\* Each task is followed by the one made before it, and the first one by the
\* last: schedule goes through all of them.
Ring ==
  ~ overlapped =>
    /\ \A t \in Made \ {process_list} : next[t] = t - 1
    /\ Made = 0..next[process_list]
    /\ \A u \in Tasks : step[u] \in {"found"} \cup Entering =>
         new_task[u] = next[process_list] + 1
    /\ \A u \in Tasks : step[u] = "pointed" => next[new_task[u]] = next[process_list]

SchedulerIInv ==
  SchedulerTypeOK /\ Numbered /\ Owned /\ Closed /\ Contexts /\ Alone /\ Fresh /\ Ring

-----------------------------------------------------------------------------
\* The first free block is the one after the last.
LEMMA NextBlock ==
  ASSUME NEW n \in 0..MaxPid, Tasks = 0..n, \E m \in 1..MaxPid : m \notin Tasks
  PROVE  n + 1 \in 1..MaxPid /\ FreeBlock = n + 1
  <1>1. n + 1 \in 1..MaxPid
    BY SchedulerAssumption
  <1>2. n + 1 \notin Tasks /\ 1..(n + 1 - 1) \subseteq Tasks
    BY SchedulerAssumption
  <1>3. \A m \in 1..MaxPid : m \notin Tasks /\ 1..(m - 1) \subseteq Tasks => m = n + 1
    <2> SUFFICES ASSUME NEW m \in 1..MaxPid, m \notin Tasks, 1..(m - 1) \subseteq Tasks,
                        m # n + 1
                 PROVE  FALSE
      OBVIOUS
    <2>1. m > n + 1
      BY SchedulerAssumption
    <2>2. n + 1 \in 1..(m - 1)
      BY <2>1, SchedulerAssumption
    <2> QED BY <2>2, <1>2
  <1> QED BY <1>1, <1>2, <1>3 DEF FreeBlock

LEMMA SchedulerInitially == SchedulerInit => SchedulerIInv
  <1> SUFFICES ASSUME SchedulerInit PROVE SchedulerIInv
    OBVIOUS
  <1> USE SchedulerAssumption DEF process_list
  <1>1. /\ Tasks = 0..0 /\ Tasks = {0} /\ step[0] = "work" /\ next[0] = 0
    BY DEF SchedulerInit, Tasks
  <1>2. Made = {0} /\ Made = 0..0 /\ Written = {0}
    BY <1>1 DEF Made, Written, Entering
  <1>3. SchedulerTypeOK
    <2>1. /\ next \in [Tasks -> Tasks \cup {Unset}] /\ pid \in [Tasks -> Nat]
          /\ rsp \in [Tasks -> Tasks \cup {Unset}] /\ reg \in [Tasks -> Nat]
      BY <1>1 DEF SchedulerInit
    <2>2. step \in [Tasks -> Steps] /\ new_task \in [Tasks -> 0..MaxPid]
      BY <1>1 DEF SchedulerInit, Steps, Searching
    <2>3. /\ 0 \in Tasks /\ Tasks \subseteq 0..MaxPid /\ current_process \in Tasks
          /\ running \in Tasks
      BY <1>1 DEF SchedulerInit
    <2> QED BY <2>1, <2>2, <2>3 DEF SchedulerInit, SchedulerTypeOK
  <1>4. Numbered /\ Owned
    BY <1>1 DEF SchedulerInit, Numbered, Owned, Entering, Stackless
  <1>5. Closed /\ Contexts
    BY <1>1, <1>2 DEF SchedulerInit, Closed, Contexts, Unset
  <1>6. Alone /\ Fresh
    BY <1>1, <1>2 DEF SchedulerInit, Alone, Fresh
  <1>7. Ring
    BY <1>1, <1>2 DEF SchedulerInit, Ring, Entering
  <1> QED BY <1>3, <1>4, <1>5, <1>6, <1>7 DEF SchedulerIInv

\* kmalloc comes to the block after the last one taken; without overlap that is
\* the one after the last task in the ring.
LEMMA Looking == SchedulerIInv /\ FindBlock => SchedulerIInv'
  <1> SUFFICES ASSUME SchedulerIInv, FindBlock PROVE SchedulerIInv'
    OBVIOUS
  <1> USE SchedulerAssumption DEF process_list
  <1>1. /\ running \in Tasks /\ stopped = "no" /\ step[running] = "work"
        /\ Tasks \subseteq Nat /\ 0 \in Tasks /\ Made \subseteq Tasks /\ Written \subseteq Tasks
    BY DEF FindBlock, Creates, SchedulerIInv, SchedulerTypeOK, Made, Written
  <1>2. PICK k \in 0..MaxPid : Tasks = 0..k /\ k + 1 \in 1..MaxPid /\ FreeBlock = k + 1
    BY NextBlock DEF FindBlock, SchedulerIInv, Numbered
  <1>3. /\ \/ /\ step' = [step EXCEPT ![running] = "found"]
              /\ new_task' = [new_task EXCEPT ![running] = k + 1]
              /\ stopped' = stopped
           \/ step' = step /\ new_task' = new_task /\ stopped' = "fault"
        /\ overlapped' = (overlapped \/ \E t \in Tasks : step[t] # "work")
        /\ UNCHANGED <<next, pid, next_pid, rsp, frames, current_process, running,
                       reg, masked>>
    BY <1>2 DEF FindBlock, Goes
  <1>4. /\ Tasks' = Tasks /\ Unset' = Unset /\ step' \in [Tasks -> Steps]
        /\ new_task' \in [Tasks -> 0..MaxPid]
        /\ \A u \in Tasks :
             \/ step'[u] = step[u] /\ new_task'[u] = new_task[u]
             \/ u = running /\ step'[u] = "found" /\ new_task'[u] = k + 1
    <2>1. /\ step \in [Tasks -> Steps] /\ new_task \in [Tasks -> 0..MaxPid]
          /\ "found" \in Steps /\ k + 1 \in 0..MaxPid
      BY <1>2 DEF SchedulerIInv, SchedulerTypeOK, Steps, Searching
    <2>2. Tasks' = Tasks /\ Unset' = Unset
      BY <1>3 DEF Tasks, Unset
    <2> QED BY <2>1, <2>2, <1>1, <1>3
  <1>5. /\ Made' = Made /\ Written' = Written
        /\ \A t \in Tasks : Hanging(t)' <=> Hanging(t)
    BY <1>1, <1>3, <1>4 DEF Made, Written, Hanging, Entering, Stackless
  <1>6. ~ overlapped' => ~ overlapped /\ \A u \in Tasks : step[u] = "work"
    BY <1>3
  <1>6a. masked => ~ overlapped' /\ \A u \in Tasks : step[u] = "work"
    BY <1>1, <1>3 DEF SchedulerIInv, Alone
  <1>6b. /\ masked' = masked /\ stopped' \in {stopped, "fault"}
         /\ UNCHANGED <<next, pid, next_pid, rsp, frames, current_process, running, reg>>
    BY <1>3
  <1>7. SchedulerTypeOK'
    BY <1>1, <1>3, <1>4 DEF SchedulerIInv, SchedulerTypeOK
  <1>8. Numbered'
    BY <1>4 DEF SchedulerIInv, Numbered
  <1>9. Owned'
    <2>1. 0..(k + 1 - 1) \subseteq Tasks
      BY <1>2
    <2>2. \A u \in Tasks : step'[u] = "found" =>
            new_task'[u] # 0 /\ 0..(new_task'[u] - 1) \subseteq Tasks
      <3> SUFFICES ASSUME NEW u \in Tasks, step'[u] = "found"
                   PROVE  new_task'[u] # 0 /\ 0..(new_task'[u] - 1) \subseteq Tasks
        OBVIOUS
      <3>1. CASE step'[u] = step[u] /\ new_task'[u] = new_task[u]
        BY <3>1 DEF SchedulerIInv, Owned
      <3>2. CASE new_task'[u] = k + 1
        BY <3>2, <2>1, <1>2
      <3> QED BY <3>1, <3>2, <1>4
    <2>3. \A u \in Tasks : step'[u] \in Entering \cup Stackless =>
            step'[u] = step[u] /\ new_task'[u] = new_task[u]
      BY <1>4 DEF Entering, Stackless
    <2> QED BY <2>2, <2>3, <1>4, <1>6b DEF SchedulerIInv, Owned
  <1>10. Closed'
    BY <1>1, <1>3, <1>4, <1>5 DEF SchedulerIInv, Closed
  <1>11. Contexts'
    BY <1>1, <1>4, <1>5, <1>6b DEF SchedulerIInv, Contexts
  <1>12. Alone'
    BY <1>1, <1>4, <1>6, <1>6a, <1>6b DEF SchedulerIInv, Alone
  <1>13. Fresh'
    <2> SUFFICES ASSUME ~ overlapped' PROVE Fresh'
      BY DEF Fresh
    <2>1. k + 1 \notin Tasks
      BY <1>2
    <2>2. \A u \in Tasks : step'[u] # "work" => step'[u] = "found" /\ new_task'[u] \notin Tasks
      BY <2>1, <1>4, <1>6
    <2>3. \A u \in Tasks : step'[u] \notin {"framed", "counted"}
      BY <2>2
    <2> QED BY <2>2, <2>3, <1>4, <1>5, <1>6, <1>6b DEF SchedulerIInv, Fresh
  <1>14. Ring'
    <2> SUFFICES ASSUME ~ overlapped' PROVE Ring'
      BY DEF Ring
    <2>1. Made = Tasks /\ next[0] \in Nat
      BY <1>1, <1>6 DEF Made, Entering, SchedulerIInv, Closed
    <2>2. next[0] = k
      BY <2>1, <1>2, <1>6 DEF SchedulerIInv, Ring
    <2> QED BY <2>1, <2>2, <1>1, <1>4, <1>5, <1>6, <1>6b DEF SchedulerIInv, Ring, Entering
  <1> QED BY <1>7, <1>8, <1>9, <1>10, <1>11, <1>12, <1>13, <1>14 DEF SchedulerIInv

\* A new task enters with nothing set; a block that is a task already ends it.
LEMMA Taking == SchedulerIInv /\ TakeBlock => SchedulerIInv'
  <1> SUFFICES ASSUME SchedulerIInv, TakeBlock PROVE SchedulerIInv'
    OBVIOUS
  <1> USE SchedulerAssumption DEF process_list
  <1> DEFINE n == new_task[running]
  <1>1. /\ running \in Tasks /\ stopped = "no" /\ step[running] = "found"
        /\ Tasks \subseteq Nat /\ 0 \in Tasks /\ Made \subseteq Tasks /\ Written \subseteq Tasks
        /\ n \in 1..MaxPid /\ 0..(n - 1) \subseteq Tasks
    BY DEF TakeBlock, Creates, SchedulerIInv, SchedulerTypeOK, Made, Written, Owned
  <1>2. UNCHANGED <<next_pid, frames, current_process, running, masked, overlapped>>
    BY DEF TakeBlock
  <1>3. CASE n \in Tasks
    <2>1. /\ UNCHANGED <<next, pid, rsp, step, new_task, reg>> /\ stopped' = "shared"
      BY <1>3 DEF TakeBlock
    <2>2. /\ Tasks' = Tasks /\ Made' = Made /\ Written' = Written
          /\ \A t \in Tasks : Hanging(t)' <=> Hanging(t)
      BY <2>1 DEF Tasks, Made, Written, Hanging
    <2>3. overlapped
      BY <1>1, <1>3 DEF SchedulerIInv, Fresh
    <2>4. SchedulerTypeOK' /\ Numbered'
      BY <2>1, <2>2, <1>2 DEF SchedulerIInv, SchedulerTypeOK, Numbered, Unset
    <2>5. Owned' /\ Closed'
      BY <2>1, <2>2, <1>2 DEF SchedulerIInv, Owned, Closed, Unset
    <2>6. Contexts' /\ Alone'
      BY <2>1, <2>2, <1>1, <1>2 DEF SchedulerIInv, Contexts, Alone, Unset
    <2>7. Fresh' /\ Ring'
      BY <2>3, <1>2 DEF Fresh, Ring
    <2> QED BY <2>4, <2>5, <2>6, <2>7 DEF SchedulerIInv
  <1>4. CASE n \notin Tasks
    <2>1. /\ Tasks' = Tasks \cup {n} /\ Unset' = Unset /\ stopped' = "no"
          /\ next' = [u \in Tasks \cup {n} |-> IF u = n THEN Unset ELSE next[u]]
          /\ pid' = [u \in Tasks \cup {n} |-> IF u = n THEN 0 ELSE pid[u]]
          /\ rsp' = [u \in Tasks \cup {n} |-> IF u = n THEN Unset ELSE rsp[u]]
          /\ new_task' = [u \in Tasks \cup {n} |-> IF u = n THEN 0 ELSE new_task[u]]
          /\ reg' = [u \in Tasks \cup {n} |-> IF u = n THEN 0 ELSE reg[u]]
      BY <1>1, <1>4 DEF TakeBlock, With, Tasks, Unset, SchedulerIInv, SchedulerTypeOK
    <2>2. step' = [u \in Tasks \cup {n} |-> IF u = running THEN "taken"
                                          ELSE IF u = n THEN "work" ELSE step[u]]
      BY <1>1, <1>4 DEF TakeBlock, With, SchedulerIInv, SchedulerTypeOK
    <2> HIDE DEF n
    <2>3. \A u \in Tasks : step[u] \in Entering \cup Stackless => new_task[u] # n
      BY <1>4 DEF SchedulerIInv, Owned
    <2>4. n = new_task[running] /\ running # n
      BY <1>1, <1>4 DEF n
    <2>5. Made' = Made /\ Written' = Written
      BY <1>1, <1>4, <2>1, <2>2, <2>3, <2>4 DEF Made, Written, Entering, Stackless
    <2>6. \A t \in Tasks : Hanging(t)' <=> Hanging(t)
      BY <1>1, <1>4, <2>1, <2>2, <2>4 DEF Hanging, Stackless
    <2>7. SchedulerTypeOK'
      BY <1>1, <1>2, <2>1, <2>2, <2>4
         DEF SchedulerIInv, SchedulerTypeOK, Steps, Searching, Entering
    <2>8. Numbered'
      <3>1. PICK k \in 0..MaxPid : Tasks = 0..k
        BY DEF SchedulerIInv, Numbered
      <3>2. n = k + 1
        BY <3>1, <1>1, <1>4
      <3>3. Tasks' = 0..n
        BY <3>1, <3>2, <2>1
      <3> QED BY <3>3, <1>1 DEF Numbered
    <2>9. Owned'
      BY <1>1, <1>4, <2>1, <2>2, <2>3, <2>4 DEF SchedulerIInv, Owned, Entering, Stackless
    <2>10. Closed'
      BY <1>1, <1>2, <1>4, <2>1, <2>2, <2>3, <2>4, <2>5
         DEF SchedulerIInv, Closed, Owned, Entering
    <2>11. Contexts'
      BY <1>1, <1>2, <1>4, <2>1, <2>5, <2>6 DEF SchedulerIInv, Contexts
    <2>12. Alone'
      BY <1>1, <1>2, <1>4, <2>1, <2>2, <2>4 DEF SchedulerIInv, Alone
    <2>13. Fresh'
      BY <1>1, <1>2, <1>4, <2>1, <2>2, <2>4, <2>5
         DEF SchedulerIInv, Fresh, Alone
    <2>14. Ring'
      BY <1>1, <1>2, <1>4, <2>1, <2>2, <2>3, <2>4, <2>5
         DEF SchedulerIInv, Ring, Alone, Entering
    <2> QED BY <2>7, <2>8, <2>9, <2>10, <2>11, <2>12, <2>13, <2>14 DEF SchedulerIInv
  <1> QED BY <1>3, <1>4

\* The steps of a creation, each in the task that runs it.
LEMMA Reading == SchedulerIInv /\ ReadPid => SchedulerIInv'
  <1> SUFFICES ASSUME SchedulerIInv, ReadPid PROVE SchedulerIInv'
    OBVIOUS
  <1> USE SchedulerAssumption DEF process_list
  <1>1. /\ running \in Tasks /\ stopped = "no" /\ step[running] = "taken"
        /\ Tasks \subseteq Nat /\ 0 \in Tasks /\ Made \subseteq Tasks /\ Written \subseteq Tasks
    BY DEF ReadPid, Creates, SchedulerIInv, SchedulerTypeOK, Made, Written
  <1>2. /\ step' = [step EXCEPT ![running] = "counted"]
        /\ reg' = [reg EXCEPT ![running] = next_pid]
        /\ UNCHANGED <<next, pid, next_pid, rsp, frames, current_process,
                       running, new_task, masked, overlapped, stopped>>
    BY DEF ReadPid, Goes
  <1>3. /\ Tasks' = Tasks /\ Unset' = Unset /\ step' \in [Tasks -> Steps]
        /\ \A u \in Tasks : step'[u] = IF u = running THEN "counted" ELSE step[u]
        /\ \A u \in Tasks : reg'[u] = IF u = running THEN next_pid ELSE reg[u]
    BY <1>1, <1>2
       DEF Tasks, Unset, SchedulerIInv, SchedulerTypeOK, Steps, Searching, Entering, Stackless
  <1>4. /\ Made' = Made /\ Written' = Written
        /\ \A t \in Tasks : Hanging(t)' <=> Hanging(t)
    BY <1>1, <1>2, <1>3 DEF Made, Written, Hanging, Entering, Stackless
  <1>5. SchedulerTypeOK'
    BY <1>1, <1>2, <1>3 DEF SchedulerIInv, SchedulerTypeOK
  <1>6. Numbered' /\ Owned'
    BY <1>1, <1>2, <1>3 DEF SchedulerIInv, Numbered, Owned, Entering, Stackless
  <1>7. Closed'
    BY <1>1, <1>2, <1>3, <1>4 DEF SchedulerIInv, Closed, Made, Entering
  <1>8. Contexts'
    BY <1>1, <1>2, <1>3, <1>4 DEF SchedulerIInv, Contexts, SchedulerTypeOK
  <1>9. Alone'
    BY <1>1, <1>2, <1>3 DEF SchedulerIInv, Alone
  <1>10. Fresh'
    BY <1>1, <1>2, <1>3, <1>4 DEF SchedulerIInv, Fresh, Alone, SchedulerTypeOK, Written
  <1>11. Ring'
    BY <1>1, <1>2, <1>3, <1>4 DEF SchedulerIInv, Ring, Entering, Alone
  <1> QED BY <1>5, <1>6, <1>7, <1>8, <1>9, <1>10, <1>11 DEF SchedulerIInv

LEMMA Storing == SchedulerIInv /\ StorePid => SchedulerIInv'
  <1> SUFFICES ASSUME SchedulerIInv, StorePid PROVE SchedulerIInv'
    OBVIOUS
  <1> USE SchedulerAssumption DEF process_list
  <1>1. /\ running \in Tasks /\ stopped = "no" /\ step[running] = "counted"
        /\ Tasks \subseteq Nat /\ 0 \in Tasks /\ Made \subseteq Tasks /\ Written \subseteq Tasks
        /\ new_task[running] \in Tasks \ {0} /\ rsp[new_task[running]] = Unset
    BY DEF StorePid, Creates, SchedulerIInv, SchedulerTypeOK, Made, Written, Owned,
           Entering, Stackless
  <1>2. /\ step' = [step EXCEPT ![running] = "numbered"]
        /\ pid' = [pid EXCEPT ![new_task[running]] = reg[running]]
        /\ next_pid' = reg[running] + 1
        /\ UNCHANGED <<next, rsp, frames, current_process, running, new_task,
                       reg, masked, overlapped, stopped>>
    BY DEF StorePid, Goes
  <1>3. /\ Tasks' = Tasks /\ Unset' = Unset /\ step' \in [Tasks -> Steps]
        /\ \A u \in Tasks : step'[u] = IF u = running THEN "numbered" ELSE step[u]
        /\ \A u \in Tasks : pid'[u] = IF u = new_task[running] THEN reg[running] ELSE pid[u]
    BY <1>1, <1>2
       DEF Tasks, Unset, SchedulerIInv, SchedulerTypeOK, Steps, Searching, Entering, Stackless
  <1>4. /\ Made' = Made /\ Written' = Written \cup {new_task[running]}
        /\ \A t \in Tasks : Hanging(t)' <=> Hanging(t)
    BY <1>1, <1>2, <1>3 DEF Made, Written, Hanging, Entering, Stackless, SchedulerIInv, Owned
  <1>5. SchedulerTypeOK'
    BY <1>1, <1>2, <1>3 DEF SchedulerIInv, SchedulerTypeOK
  <1>6. Numbered' /\ Owned'
    BY <1>1, <1>2, <1>3 DEF SchedulerIInv, Numbered, Owned, Entering, Stackless
  <1>7. Closed'
    BY <1>1, <1>2, <1>3, <1>4 DEF SchedulerIInv, Closed, Made, Entering, Stackless, Owned
  <1>8. Contexts'
    BY <1>1, <1>2, <1>3, <1>4
       DEF SchedulerIInv, Contexts, SchedulerTypeOK, Owned, Hanging, Entering, Stackless
  <1>9. Alone'
    BY <1>1, <1>2, <1>3 DEF SchedulerIInv, Alone
  <1>10. Fresh'
    BY <1>1, <1>2, <1>3, <1>4 DEF SchedulerIInv, Fresh, Alone, SchedulerTypeOK, Written
  <1>11. Ring'
    BY <1>1, <1>2, <1>3, <1>4
       DEF SchedulerIInv, Ring, Entering, Alone, Made, Owned, SchedulerTypeOK
  <1> QED BY <1>5, <1>6, <1>7, <1>8, <1>9, <1>10, <1>11 DEF SchedulerIInv

LEMMA Pointing == SchedulerIInv /\ PointTask => SchedulerIInv'
  <1> SUFFICES ASSUME SchedulerIInv, PointTask PROVE SchedulerIInv'
    OBVIOUS
  <1> USE SchedulerAssumption DEF process_list
  <1>1. /\ running \in Tasks /\ stopped = "no" /\ step[running] = "numbered"
        /\ Tasks \subseteq Nat /\ 0 \in Tasks /\ Made \subseteq Tasks /\ Written \subseteq Tasks
        /\ new_task[running] \in Tasks \ {0} /\ rsp[new_task[running]] = Unset
    BY DEF PointTask, Creates, SchedulerIInv, SchedulerTypeOK, Made, Written, Owned,
           Entering, Stackless
  <1>2. /\ step' = [step EXCEPT ![running] = "pointed"]
        /\ next' = [next EXCEPT ![new_task[running]] = next[0]]
        /\ UNCHANGED <<pid, next_pid, rsp, frames, current_process, running,
                       new_task, reg, masked, overlapped, stopped>>
    BY DEF PointTask, Goes
  <1>3. /\ Tasks' = Tasks /\ Unset' = Unset /\ step' \in [Tasks -> Steps]
        /\ \A u \in Tasks : step'[u] = IF u = running THEN "pointed" ELSE step[u]
        /\ \A u \in Tasks : next'[u] = IF u = new_task[running] THEN next[0] ELSE next[u]
    BY <1>1, <1>2
       DEF Tasks, Unset, SchedulerIInv, SchedulerTypeOK, Steps, Searching, Entering, Stackless
  <1>4. /\ Made' = Made /\ Written' = Written
        /\ \A t \in Tasks : Hanging(t)' <=> Hanging(t)
    BY <1>1, <1>2, <1>3 DEF Made, Written, Hanging, Entering, Stackless, SchedulerIInv, Owned
  <1>5. SchedulerTypeOK'
    BY <1>1, <1>2, <1>3 DEF SchedulerIInv, SchedulerTypeOK, Closed
  <1>6. Numbered' /\ Owned'
    BY <1>1, <1>2, <1>3 DEF SchedulerIInv, Numbered, Owned, Entering, Stackless
  <1>7. Closed'
    BY <1>1, <1>2, <1>3, <1>4 DEF SchedulerIInv, Closed, Made, Entering, Stackless, Owned
  <1>8. Contexts'
    BY <1>1, <1>2, <1>3, <1>4 DEF SchedulerIInv, Contexts
  <1>9. Alone'
    BY <1>1, <1>2, <1>3 DEF SchedulerIInv, Alone
  <1>10. Fresh'
    BY <1>1, <1>2, <1>3, <1>4 DEF SchedulerIInv, Fresh
  <1>11. Ring'
    <2>1. 0 # new_task[running] /\ new_task[running] \notin Made
      BY <1>1 DEF Made, Entering
    <2>2. next'[0] = next[0] /\ \A t \in Made : next'[t] = next[t]
      BY <2>1, <1>1, <1>3
    <2>3. ~ overlapped => \A u \in Tasks : step'[u] = "pointed" => u = running
      BY <1>1, <1>3 DEF SchedulerIInv, Alone
    <2>4. next'[new_task[running]] = next'[0]
      BY <2>2, <1>1, <1>3
    <2> QED BY <2>2, <2>3, <2>4, <1>1, <1>2, <1>3, <1>4 DEF SchedulerIInv, Ring, Entering
  <1> QED BY <1>5, <1>6, <1>7, <1>8, <1>9, <1>10, <1>11 DEF SchedulerIInv

LEMMA Linking == SchedulerIInv /\ LinkTask => SchedulerIInv'
  <1> SUFFICES ASSUME SchedulerIInv, LinkTask PROVE SchedulerIInv'
    OBVIOUS
  <1> USE SchedulerAssumption DEF process_list
  <1>1. /\ running \in Tasks /\ stopped = "no" /\ step[running] = "pointed"
        /\ Tasks \subseteq Nat /\ 0 \in Tasks /\ Made \subseteq Tasks /\ Written \subseteq Tasks
        /\ new_task[running] \in Tasks \ {0} /\ rsp[new_task[running]] = Unset
    BY DEF LinkTask, Creates, SchedulerIInv, SchedulerTypeOK, Made, Written, Owned,
           Entering, Stackless
  <1>2. /\ step' = [step EXCEPT ![running] = "linked"]
        /\ next' = [next EXCEPT ![0] = new_task[running]]
        /\ UNCHANGED <<pid, next_pid, rsp, frames, current_process, running,
                       new_task, reg, masked, overlapped, stopped>>
    BY DEF LinkTask, Goes, Linked
  <1>3. /\ Tasks' = Tasks /\ Unset' = Unset /\ step' \in [Tasks -> Steps]
        /\ \A u \in Tasks : step'[u] = IF u = running THEN "linked" ELSE step[u]
        /\ \A u \in Tasks : next'[u] = IF u = 0 THEN new_task[running] ELSE next[u]
    BY <1>1, <1>2
       DEF Tasks, Unset, SchedulerIInv, SchedulerTypeOK, Steps, Searching, Entering, Stackless
  <1>4. /\ Made' = Made \cup {new_task[running]} /\ Written' = Written
        /\ \A t \in Tasks : Hanging(t)' <=> Hanging(t) \/ t = new_task[running]
    BY <1>1, <1>2, <1>3 DEF Made, Written, Hanging, Entering, Stackless, SchedulerIInv, Owned
  <1>5. SchedulerTypeOK'
    BY <1>1, <1>2, <1>3 DEF SchedulerIInv, SchedulerTypeOK
  <1>6. Numbered' /\ Owned'
    BY <1>1, <1>2, <1>3 DEF SchedulerIInv, Numbered, Owned, Entering, Stackless
  <1>7. Closed'
    BY <1>1, <1>2, <1>3, <1>4 DEF SchedulerIInv, Closed, Made, Entering, Stackless, Owned
  <1>8. Contexts'
    BY <1>1, <1>2, <1>3, <1>4
       DEF SchedulerIInv, Contexts, SchedulerTypeOK, Owned, Hanging, Entering, Stackless
  <1>9. Alone'
    BY <1>1, <1>2, <1>3 DEF SchedulerIInv, Alone
  <1>10. Fresh'
    BY <1>1, <1>2, <1>3, <1>4 DEF SchedulerIInv, Fresh, Alone, SchedulerTypeOK, Written
  <1>11. Ring'
    <2> SUFFICES ASSUME ~ overlapped' PROVE Ring'
      BY DEF Ring
    <2>1. /\ \A t \in Made \ {0} : next[t] = t - 1
          /\ Made = 0..next[0] /\ next[0] \in Nat
          /\ new_task[running] = next[0] + 1 /\ next[new_task[running]] = next[0]
          /\ \A u \in Tasks : step[u] # "work" => u = running
      BY <1>1, <1>2 DEF SchedulerIInv, Ring, Alone, Entering, Closed
    <2>2. \A u \in Tasks : step'[u] \notin {"found"} \cup Entering
      BY <2>1, <1>1, <1>3 DEF Entering
    <2>3. next'[0] = new_task[running] /\ Made' = 0..next'[0]
      BY <2>1, <1>1, <1>3, <1>4
    <2>4. \A t \in Made' \ {0} : next'[t] = t - 1
      BY <2>1, <1>1, <1>3, <1>4
    <2> QED BY <2>2, <2>3, <2>4, <1>3 DEF Ring, Entering
  <1> QED BY <1>5, <1>6, <1>7, <1>8, <1>9, <1>10, <1>11 DEF SchedulerIInv

LEMMA Finding == SchedulerIInv /\ FindFrame => SchedulerIInv'
  <1> SUFFICES ASSUME SchedulerIInv, FindFrame PROVE SchedulerIInv'
    OBVIOUS
  <1> USE SchedulerAssumption DEF process_list
  <1>1. /\ running \in Tasks /\ stopped = "no" /\ step[running] = "linked"
        /\ Tasks \subseteq Nat /\ 0 \in Tasks /\ Made \subseteq Tasks /\ Written \subseteq Tasks
    BY DEF FindFrame, Creates, SchedulerIInv, SchedulerTypeOK, Made, Written
  <1>2. /\ step' = [step EXCEPT ![running] = "framed"]
        /\ reg' = [reg EXCEPT ![running] = frames + 1]
        /\ UNCHANGED <<next, pid, next_pid, rsp, frames, current_process,
                       running, new_task, masked, overlapped, stopped>>
    BY DEF FindFrame, Goes
  <1>3. /\ Tasks' = Tasks /\ Unset' = Unset /\ step' \in [Tasks -> Steps]
        /\ \A u \in Tasks : step'[u] = IF u = running THEN "framed" ELSE step[u]
        /\ \A u \in Tasks : reg'[u] = IF u = running THEN frames + 1 ELSE reg[u]
    BY <1>1, <1>2
       DEF Tasks, Unset, SchedulerIInv, SchedulerTypeOK, Steps, Searching, Entering, Stackless
  <1>4. /\ Made' = Made /\ Written' = Written
        /\ \A t \in Tasks : Hanging(t)' <=> Hanging(t)
    BY <1>1, <1>2, <1>3 DEF Made, Written, Hanging, Entering, Stackless
  <1>5. SchedulerTypeOK'
    BY <1>1, <1>2, <1>3 DEF SchedulerIInv, SchedulerTypeOK
  <1>6. Numbered' /\ Owned'
    BY <1>1, <1>2, <1>3 DEF SchedulerIInv, Numbered, Owned, Entering, Stackless
  <1>7. Closed'
    BY <1>1, <1>2, <1>3, <1>4 DEF SchedulerIInv, Closed, Made, Entering
  <1>8. Contexts'
    BY <1>1, <1>2, <1>3, <1>4 DEF SchedulerIInv, Contexts, SchedulerTypeOK
  <1>9. Alone'
    BY <1>1, <1>2, <1>3 DEF SchedulerIInv, Alone
  <1>10. Fresh'
    BY <1>1, <1>2, <1>3, <1>4 DEF SchedulerIInv, Fresh, Alone, SchedulerTypeOK, Written
  <1>11. Ring'
    BY <1>1, <1>2, <1>3, <1>4 DEF SchedulerIInv, Ring, Entering, Alone
  <1> QED BY <1>5, <1>6, <1>7, <1>8, <1>9, <1>10, <1>11 DEF SchedulerIInv

LEMMA Setting == SchedulerIInv /\ SetStack => SchedulerIInv'
  <1> SUFFICES ASSUME SchedulerIInv, SetStack PROVE SchedulerIInv'
    OBVIOUS
  <1> USE SchedulerAssumption DEF process_list
  <1>1. /\ running \in Tasks /\ stopped = "no" /\ step[running] = "filled"
        /\ Tasks \subseteq Nat /\ 0 \in Tasks /\ Made \subseteq Tasks /\ Written \subseteq Tasks
        /\ new_task[running] \in Tasks \ {0} /\ rsp[new_task[running]] = Unset
    BY DEF SetStack, Creates, SchedulerIInv, SchedulerTypeOK, Made, Written, Owned,
           Entering, Stackless
  <1>2. /\ step' = [step EXCEPT ![running] = "work"]
        /\ rsp' = [rsp EXCEPT ![new_task[running]] = new_task[running]]
        /\ UNCHANGED <<next, pid, next_pid, frames, current_process, running,
                       new_task, reg, masked, overlapped, stopped>>
    BY DEF SetStack, Goes
  <1>3. /\ Tasks' = Tasks /\ Unset' = Unset /\ step' \in [Tasks -> Steps]
        /\ \A u \in Tasks : step'[u] = IF u = running THEN "work" ELSE step[u]
        /\ \A u \in Tasks : rsp'[u] = IF u = new_task[running] THEN new_task[running] ELSE rsp[u]
    BY <1>1, <1>2
       DEF Tasks, Unset, SchedulerIInv, SchedulerTypeOK, Steps, Searching, Entering, Stackless
  <1>4. /\ Made' = Made /\ Written' = Written
        /\ \A t \in Tasks : Hanging(t)' <=> Hanging(t) /\ t # new_task[running]
    BY <1>1, <1>2, <1>3 DEF Made, Written, Hanging, Entering, Stackless, SchedulerIInv, Owned
  <1>5. SchedulerTypeOK'
    BY <1>1, <1>2, <1>3 DEF SchedulerIInv, SchedulerTypeOK
  <1>6. Numbered' /\ Owned'
    BY <1>1, <1>2, <1>3 DEF SchedulerIInv, Numbered, Owned, Entering, Stackless
  <1>7. Closed'
    BY <1>1, <1>2, <1>3, <1>4 DEF SchedulerIInv, Closed, Made, Entering, Stackless, Owned
  <1>8. Contexts'
    <2>1. Unset \notin Tasks
      BY DEF SchedulerIInv, SchedulerTypeOK, Unset
    <2> QED BY <2>1, <1>1, <1>2, <1>3, <1>4 DEF SchedulerIInv, Contexts
  <1>9. Alone'
    BY <1>1, <1>2, <1>3 DEF SchedulerIInv, Alone
  <1>10. Fresh'
    BY <1>1, <1>2, <1>3, <1>4 DEF SchedulerIInv, Fresh, Alone, SchedulerTypeOK, Written
  <1>11. Ring'
    BY <1>1, <1>2, <1>3, <1>4
       DEF SchedulerIInv, Ring, Entering, Alone, Made, Owned, SchedulerTypeOK
  <1> QED BY <1>5, <1>6, <1>7, <1>8, <1>9, <1>10, <1>11 DEF SchedulerIInv

\* pmm_alloc_block and the stores to the stack: a step forward, or the end.
LEMMA Filling == SchedulerIInv /\ FillStack => SchedulerIInv'
  <1> SUFFICES ASSUME SchedulerIInv, FillStack PROVE SchedulerIInv'
    OBVIOUS
  <1> USE SchedulerAssumption DEF process_list
  <1>1. /\ running \in Tasks /\ stopped = "no" /\ step[running] = "stacked"
        /\ Tasks \subseteq Nat /\ 0 \in Tasks /\ Made \subseteq Tasks /\ Written \subseteq Tasks
    BY DEF FillStack, Creates, SchedulerIInv, SchedulerTypeOK, Made, Written
  <1>2. /\ \/ step' = [step EXCEPT ![running] = "filled"] /\ stopped' = stopped
           \/ step' = step /\ stopped' = "fault"
        /\ UNCHANGED <<next, pid, next_pid, rsp, frames, current_process, running,
                       new_task, reg, masked, overlapped>>
    BY DEF FillStack, Goes
  <1>3. /\ Tasks' = Tasks /\ Unset' = Unset /\ step' \in [Tasks -> Steps]
        /\ \A u \in Tasks :
             step'[u] = step[u] \/ (u = running /\ step'[u] = "filled")
    BY <1>1, <1>2
       DEF Tasks, Unset, SchedulerIInv, SchedulerTypeOK, Steps, Searching, Entering, Stackless
  <1>4. /\ Made' = Made /\ Written' = Written
        /\ \A t \in Tasks : Hanging(t)' <=> Hanging(t)
    BY <1>1, <1>2, <1>3 DEF Made, Written, Hanging, Entering, Stackless
  <1>5. SchedulerTypeOK'
    BY <1>1, <1>2, <1>3 DEF SchedulerIInv, SchedulerTypeOK
  <1>6. Numbered' /\ Owned'
    BY <1>1, <1>2, <1>3 DEF SchedulerIInv, Numbered, Owned, Entering, Stackless
  <1>7. Closed'
    BY <1>1, <1>2, <1>3, <1>4 DEF SchedulerIInv, Closed
  <1>8. Contexts'
    BY <1>1, <1>2, <1>3, <1>4 DEF SchedulerIInv, Contexts, SchedulerTypeOK
  <1>9. Alone'
    BY <1>1, <1>2, <1>3 DEF SchedulerIInv, Alone
  <1>10. Fresh'
    BY <1>1, <1>2, <1>3, <1>4 DEF SchedulerIInv, Fresh, Alone, SchedulerTypeOK, Written
  <1>11. Ring'
    BY <1>1, <1>2, <1>3, <1>4 DEF SchedulerIInv, Ring, Entering
  <1> QED BY <1>5, <1>6, <1>7, <1>8, <1>9, <1>10, <1>11 DEF SchedulerIInv

LEMMA Granting == SchedulerIInv /\ TakeFrame => SchedulerIInv'
  <1> SUFFICES ASSUME SchedulerIInv, TakeFrame PROVE SchedulerIInv'
    OBVIOUS
  <1> USE SchedulerAssumption DEF process_list
  <1>1. /\ running \in Tasks /\ stopped = "no" /\ step[running] = "framed"
        /\ Tasks \subseteq Nat /\ 0 \in Tasks /\ Made \subseteq Tasks /\ Written \subseteq Tasks
    BY DEF TakeFrame, Creates, SchedulerIInv, SchedulerTypeOK, Made, Written
  <1>2. /\ \/ /\ step' = [step EXCEPT ![running] = "stacked"]
              /\ frames' = reg[running] /\ reg[running] > frames /\ stopped' = stopped
           \/ step' = step /\ frames' = frames /\ reg[running] <= frames /\ stopped' = "shared"
        /\ UNCHANGED <<next, pid, next_pid, rsp, current_process, running, new_task,
                       reg, masked, overlapped>>
    BY <1>1 DEF TakeFrame, Goes, SchedulerIInv, SchedulerTypeOK
  <1>3. /\ Tasks' = Tasks /\ Unset' = Unset /\ step' \in [Tasks -> Steps]
        /\ \A u \in Tasks :
             step'[u] = step[u] \/ (u = running /\ step'[u] = "stacked")
        /\ step' # step => step'[running] = "stacked"
    BY <1>1, <1>2
       DEF Tasks, Unset, SchedulerIInv, SchedulerTypeOK, Steps, Searching, Entering, Stackless
  <1>4. /\ Made' = Made /\ Written' = Written
        /\ \A t \in Tasks : Hanging(t)' <=> Hanging(t)
    BY <1>1, <1>2, <1>3 DEF Made, Written, Hanging, Entering, Stackless
  <1>5. SchedulerTypeOK'
    BY <1>1, <1>2, <1>3 DEF SchedulerIInv, SchedulerTypeOK
  <1>6. Numbered' /\ Owned'
    BY <1>1, <1>2, <1>3 DEF SchedulerIInv, Numbered, Owned, Entering, Stackless
  <1>7. Closed'
    BY <1>1, <1>2, <1>3, <1>4 DEF SchedulerIInv, Closed
  <1>8. Contexts'
    BY <1>1, <1>2, <1>3, <1>4 DEF SchedulerIInv, Contexts, SchedulerTypeOK
  <1>9. Alone'
    BY <1>1, <1>2, <1>3 DEF SchedulerIInv, Alone
  <1>10. Fresh'
    BY <1>1, <1>2, <1>3, <1>4 DEF SchedulerIInv, Fresh, Alone, SchedulerTypeOK, Written
  <1>11. Ring'
    BY <1>1, <1>2, <1>3, <1>4 DEF SchedulerIInv, Ring, Entering
  <1> QED BY <1>5, <1>6, <1>7, <1>8, <1>9, <1>10, <1>11 DEF SchedulerIInv

\* Resuming the next task in the ring is resuming a context of its own, if it has
\* one; only a task whose creation is between two stores has none.
LEMMA Switching == SchedulerIInv /\ schedule => SchedulerIInv'
  <1> SUFFICES ASSUME SchedulerIInv, schedule PROVE SchedulerIInv'
    OBVIOUS
  <1> USE SchedulerAssumption DEF process_list
  <1> DEFINE to == next[current_process]
  <1>1. /\ running \in Tasks /\ current_process = running /\ stopped = "no"
        /\ Tasks \subseteq Nat /\ 0 \in Tasks /\ Made \subseteq Tasks
        /\ to \in Made /\ to \in Tasks
        /\ masked => step[running] = "work"
    BY DEF schedule, SchedulerIInv, SchedulerTypeOK, Contexts, Closed, Made
  <1>2. /\ rsp' = [rsp EXCEPT ![running] = running]
        /\ current_process' = to
        /\ UNCHANGED <<next, pid, next_pid, frames, step, new_task, reg, masked, overlapped>>
    BY <1>1 DEF schedule, Saved, Chosen
  <1>3. /\ Tasks' = Tasks /\ Unset' = Unset /\ Unset \notin Tasks
        /\ Made' = Made /\ Written' = Written
        /\ \A t \in Tasks : Hanging(t)' <=> Hanging(t)
        /\ \A t \in Tasks : rsp'[t] = IF t = running THEN running ELSE rsp[t]
    BY <1>1, <1>2 DEF Tasks, Unset, Made, Written, Hanging, SchedulerIInv, SchedulerTypeOK
  <1>4. \/ rsp'[to] = Unset /\ stopped' = "lost" /\ running' = running
        \/ rsp'[to] = to /\ stopped' = "no" /\ running' = to
    BY <1>1, <1>2, <1>3 DEF schedule, Saved, Chosen, SchedulerIInv, Contexts
  <1> HIDE DEF to
  <1>5. rsp'[to] = Unset => Hanging(to) /\ ~ masked
    <2>1. rsp'[to] = Unset => Hanging(to)
      BY <1>1, <1>3 DEF SchedulerIInv, Contexts
    <2>2. masked => \A u \in Tasks : step[u] = "work"
      BY <1>1 DEF SchedulerIInv, Alone
    <2> QED BY <2>1, <2>2 DEF Hanging, Stackless
  <1>6. SchedulerTypeOK'
    BY <1>1, <1>2, <1>3, <1>4 DEF SchedulerIInv, SchedulerTypeOK
  <1>7. Numbered'
    BY <1>3 DEF SchedulerIInv, Numbered
  <1>8. Owned'
    <2>1. \A u \in Tasks : step[u] \in Entering \cup Stackless => new_task[u] # running
      BY <1>1, <1>3 DEF SchedulerIInv, Owned, Contexts
    <2> QED BY <2>1, <1>1, <1>2, <1>3 DEF SchedulerIInv, Owned
  <1>9. Closed'
    BY <1>1, <1>2, <1>3 DEF SchedulerIInv, Closed
  <1>10. Contexts'
    BY <1>1, <1>2, <1>3, <1>4, <1>5 DEF SchedulerIInv, Contexts
  <1>11. Alone'
    <2>1. masked => \A u \in Tasks : step[u] = "work"
      BY <1>1 DEF SchedulerIInv, Alone
    <2> QED BY <2>1, <1>1, <1>2, <1>3, <1>4, <1>5 DEF SchedulerIInv, Alone
  <1>12. Fresh'
    BY <1>1, <1>2, <1>3, <1>4 DEF SchedulerIInv, Fresh
  <1>13. Ring'
    BY <1>2, <1>3 DEF SchedulerIInv, Ring
  <1> QED BY <1>6, <1>7, <1>8, <1>9, <1>10, <1>11, <1>12, <1>13 DEF SchedulerIInv

LEMMA SchedulerStuttering == SchedulerIInv /\ UNCHANGED threads => SchedulerIInv'
  BY DEF SchedulerIInv, threads, SchedulerTypeOK, Numbered, Owned, Closed, Contexts, Alone,
         Fresh, Ring, Tasks, Made, Written, Hanging, Unset

\* Every reachable ring leads from tasks in it to tasks in it, with a context for
\* each but the running one and those in creation.
THEOREM SchedulerInductive == SchedulerSpec => []SchedulerIInv
  <1>1. SchedulerIInv /\ [SchedulerNext]_threads => SchedulerIInv'
    BY Looking, Taking, Reading, Storing, Pointing, Linking, Finding, Granting, Filling,
       Setting, Switching, SchedulerStuttering
       DEF SchedulerNext, create_kernel_thread, GoOn, Halted
  <1> QED BY <1>1, SchedulerInitially, PTL DEF SchedulerSpec

\* The code that runs is that of the current task; a block, a frame or a process
\* number is used twice only after two creations overlapped, and a task resumed
\* without a stack only between the stores of process.c:30 and 58.
THEOREM RunsOnlyItself == SchedulerSpec => []RunsItself
  <1>1. SchedulerIInv => RunsItself
    <2> SUFFICES ASSUME SchedulerIInv PROVE RunsItself
      OBVIOUS
    <2>1. Made \subseteq Written
      BY DEF Made, Written, Entering
    <2>2. /\ SchedulerTypeOK
          /\ stopped = "no" => running = current_process
          /\ masked => ~ overlapped /\ stopped # "lost"
      BY DEF SchedulerIInv, Contexts, Alone
    <2>3. ~ overlapped => /\ stopped # "shared"
                          /\ \A t, u \in Made : pid[t] = pid[u] => t = u
      BY <2>1 DEF SchedulerIInv, Fresh
    <2>4. stopped = "lost" =>
            \E t \in Tasks : step[t] \in Stackless /\ new_task[t] = current_process
      BY DEF SchedulerIInv, Contexts, Hanging
    <2> QED BY <2>2, <2>3, <2>4 DEF RunsItself
  <1> QED BY <1>1, SchedulerInductive, PTL

\* Until two creations overlap schedule goes from every task to the one made
\* before it and from the first to the last, so it passes them all, whether
\* interrupts are disabled during creation or not.
THEOREM RingComplete == SchedulerSpec => []Ring
  <1>1. SchedulerIInv => Ring
    BY DEF SchedulerIInv
  <1> QED BY <1>1, SchedulerInductive, PTL
=============================================================================

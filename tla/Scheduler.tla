----------------------------- MODULE Scheduler -----------------------------
(***************************************************************************)
(* Kernel threads: create_kernel_thread and schedule of                    *)
(* kernel/kernel/process.c, with the timer interrupt (isr32) that calls    *)
(* schedule.                                                               *)
(*                                                                         *)
(* Nothing in the kernel calls create_kernel_thread.  Its callers are      *)
(* assumed to be tasks of the kernel, either all with interrupts disabled  *)
(* during the call or all with interrupts enabled.  A task is named by the *)
(* number of its block of the heap, and a saved context by its task.  That *)
(* holds until a block or a frame has been given to two tasks: then their  *)
(* contexts are mixed, and the model ends ("shared").                      *)
(***************************************************************************)
EXTENDS Naturals

CONSTANT MaxPid   \* bound: the tasks explored

ASSUME SchedulerAssumption == MaxPid \in Nat

VARIABLES
  next,       \* task |-> task, the ring; Unset in a fresh block
  pid,        \* task |-> its process number
  next_pid,
  rsp,        \* task |-> the context that resuming it continues
  frames,     \* the frames given out for stacks
  current_process,
  running,    \* the task whose code the processor executes
  step,       \* task |-> how far it is in create_kernel_thread
  new_task,   \* task |-> the block of the task it is making
  reg,        \* task |-> the process number it read, the frame it found
  masked,     \* whether callers disable interrupts
  overlapped, \* history: whether two creations were ever under way at once
  stopped     \* "no", "fault" (isr14_handler), "lost" (a stack pointer
              \* unset), "shared" (a block or a frame given to two tasks)

threads == <<next, pid, next_pid, rsp, frames, current_process, running, step,
             new_task, reg, masked, overlapped, stopped>>

process_list == 0
Tasks == DOMAIN next
Unset == MaxPid + 1

\* Where a creation stands, in three groups: its block is not a task yet; the
\* task is not in the ring yet; the ring holds a task that has no stack yet.
Searching == {"work", "found"}
Entering == {"taken", "counted", "numbered", "pointed"}
Stackless == {"linked", "framed", "stacked", "filled"}
Steps == Searching \cup Entering \cup Stackless

With(f, t, v) == [u \in DOMAIN f \cup {t} |-> IF u = t THEN v ELSE f[u]]

\* multitasking_initialize: one task, the boot code itself, in a ring of one.
SchedulerInit ==
  /\ next = [t \in {0} |-> 0]
  /\ pid = [t \in {0} |-> 0]
  /\ next_pid = 1
  /\ rsp = [t \in {0} |-> Unset]
  /\ frames = 0
  /\ current_process = 0
  /\ running = 0
  /\ step = [t \in {0} |-> "work"]
  /\ new_task = [t \in {0} |-> 0]
  /\ reg = [t \in {0} |-> 0]
  /\ masked \in BOOLEAN
  /\ overlapped = FALSE
  /\ stopped = "no"

-----------------------------------------------------------------------------
(* create_kernel_thread: an interrupt can come between any two of these    *)
(* steps, unless the caller disabled interrupts.                           *)

Creates(s) == stopped = "no" /\ step[running] = s
Goes(s) == step' = [step EXCEPT ![running] = s]
FreeBlock == CHOOSE n \in 1..MaxPid : n \notin Tasks /\ 1..(n - 1) \subseteq Tasks

\* kmalloc comes to a block that is free, the same for everyone who looks
\* before it is marked; or to none, and the store to the result faults.
FindBlock ==
  /\ Creates("work")
  /\ \E n \in 1..MaxPid : n \notin Tasks
  /\ overlapped' = (overlapped \/ \E t \in Tasks : step[t] # "work")
  /\ \/ /\ Goes("found")
        /\ new_task' = [new_task EXCEPT ![running] = FreeBlock]
        /\ UNCHANGED stopped
     \/ /\ stopped' = "fault"
        /\ UNCHANGED <<step, new_task>>
  /\ UNCHANGED <<next, pid, next_pid, rsp, frames, current_process, running, reg, masked>>

\* kmalloc marks the block and returns it, without a second look.
TakeBlock ==
  /\ Creates("found")
  /\ IF new_task[running] \in Tasks
       THEN stopped' = "shared" /\ UNCHANGED <<next, pid, rsp, step, new_task, reg>>
       ELSE LET n == new_task[running] IN
            /\ next' = With(next, n, Unset)
            /\ pid' = With(pid, n, 0)
            /\ rsp' = With(rsp, n, Unset)
            /\ step' = [With(step, n, "work") EXCEPT ![running] = "taken"]
            /\ new_task' = With(new_task, n, 0)
            /\ reg' = With(reg, n, 0)
            /\ UNCHANGED stopped
  /\ UNCHANGED <<next_pid, frames, current_process, running, masked, overlapped>>

\* new_task->pid = next_pid++ reads next_pid and then stores both.
ReadPid ==
  /\ Creates("taken")
  /\ Goes("counted")
  /\ reg' = [reg EXCEPT ![running] = next_pid]
  /\ UNCHANGED <<next, pid, next_pid, rsp, frames, current_process, running, new_task,
                 masked, overlapped, stopped>>

StorePid ==
  /\ Creates("counted")
  /\ Goes("numbered")
  /\ next_pid' = reg[running] + 1
  /\ pid' = [pid EXCEPT ![new_task[running]] = reg[running]]
  /\ UNCHANGED <<next, rsp, frames, current_process, running, new_task, reg, masked,
                 overlapped, stopped>>

PointTask ==
  /\ Creates("numbered")
  /\ Goes("pointed")
  /\ next' = [next EXCEPT ![new_task[running]] = next[process_list]]
  /\ UNCHANGED <<pid, next_pid, rsp, frames, current_process, running, new_task, reg,
                 masked, overlapped, stopped>>

\* Mutated Linked: the ring closes after the new task.
LinkedOnly(n) == [next EXCEPT ![process_list] = n, ![n] = n]
Linked(n) == [next EXCEPT ![process_list] = n]

LinkTask ==
  /\ Creates("pointed")
  /\ Goes("linked")
  /\ next' = Linked(new_task[running])
  /\ UNCHANGED <<pid, next_pid, rsp, frames, current_process, running, new_task, reg,
                 masked, overlapped, stopped>>

\* pmm_alloc_block comes to a frame that is free and then marks it, like
\* kmalloc; the frames of stacks are given out in order and never returned.
\* That there is none is a case of the fault of FillStack.
FindFrame ==
  /\ Creates("linked")
  /\ Goes("framed")
  /\ reg' = [reg EXCEPT ![running] = frames + 1]
  /\ UNCHANGED <<next, pid, next_pid, rsp, frames, current_process, running, new_task,
                 masked, overlapped, stopped>>

TakeFrame ==
  /\ Creates("framed")
  /\ IF reg[running] <= frames
       THEN stopped' = "shared" /\ UNCHANGED <<frames, step>>
       ELSE frames' = reg[running] /\ Goes("stacked") /\ UNCHANGED stopped
  /\ UNCHANGED <<next, pid, next_pid, rsp, current_process, running, new_task, reg,
                 masked, overlapped>>

\* The stack is written at its physical address.  Since vmm_initialize the
\* lower half maps nothing but the pages of the program and the video, so
\* this faults unless the address is one of theirs.
FillStack ==
  /\ Creates("stacked")
  /\ \/ Goes("filled") /\ UNCHANGED stopped
     \/ stopped' = "fault" /\ UNCHANGED step
  /\ UNCHANGED <<next, pid, next_pid, rsp, frames, current_process, running, new_task,
                 reg, masked, overlapped>>

SetStack ==
  /\ Creates("filled")
  /\ Goes("work")
  /\ rsp' = [rsp EXCEPT ![new_task[running]] = new_task[running]]
  /\ UNCHANGED <<next, pid, next_pid, frames, current_process, running, new_task, reg,
                 masked, overlapped, stopped>>

GoOn ==
  \/ TakeBlock \/ ReadPid \/ StorePid \/ PointTask \/ LinkTask
  \/ FindFrame \/ TakeFrame \/ FillStack \/ SetStack

create_kernel_thread == FindBlock \/ GoOn

-----------------------------------------------------------------------------
\* Mutated Saved: the context is stored in the task that is resumed.
SavedLate == [rsp EXCEPT ![next[current_process]] = running]
Saved == [rsp EXCEPT ![current_process] = running]

Chosen == next[current_process]

\* irq0_handler and the return of isr32 to what schedule gives it.
schedule ==
  /\ stopped = "no"
  /\ masked => step[running] = "work"
  /\ rsp' = Saved
  /\ current_process' = Chosen
  /\ IF Saved[Chosen] = Unset
       THEN stopped' = "lost" /\ UNCHANGED running
       ELSE running' = Saved[Chosen] /\ UNCHANGED stopped
  /\ UNCHANGED <<next, pid, next_pid, frames, step, new_task, reg, masked, overlapped>>

Halted == stopped # "no" /\ UNCHANGED threads

SchedulerNext == create_kernel_thread \/ schedule \/ Halted

SchedulerSpec == SchedulerInit /\ [][SchedulerNext]_threads

\* The timer ticks, and a call that was begun goes on.
FairScheduler ==
  SchedulerSpec /\ WF_threads(schedule) /\ WF_threads(GoOn)

-----------------------------------------------------------------------------
SchedulerTypeOK ==
  /\ 0 \in Tasks /\ Tasks \subseteq 0..MaxPid
  /\ next \in [Tasks -> Tasks \cup {Unset}]
  /\ pid \in [Tasks -> Nat] /\ next_pid \in Nat
  /\ rsp \in [Tasks -> Tasks \cup {Unset}]
  /\ frames \in Nat
  /\ current_process \in Tasks /\ running \in Tasks
  /\ step \in [Tasks -> Steps]
  /\ new_task \in [Tasks -> 0..MaxPid]
  /\ reg \in [Tasks -> Nat]
  /\ masked \in BOOLEAN /\ overlapped \in BOOLEAN
  /\ stopped \in {"no", "fault", "lost", "shared"}

\* A task is in the ring once its creation has linked it.
Made == {t \in Tasks : \A u \in Tasks : step[u] \in Entering => new_task[u] # t}

\* The code that runs is always that of the current task: no task continues in
\* the context of another.  A block or a frame is given to two tasks, and a
\* process number used twice, only if two creations were under way at once; and
\* a task is resumed without a stack only between the store that links it and
\* the one that sets its stack pointer.  Disabling interrupts rules out both.
RunsItself ==
  /\ SchedulerTypeOK
  /\ stopped = "no" => running = current_process
  /\ ~ overlapped =>
       /\ stopped # "shared"
       /\ \A t, u \in Made : pid[t] = pid[u] => t = u
  /\ stopped = "lost" =>
       \E t \in Tasks : step[t] \in Stackless /\ new_task[t] = current_process
  /\ masked => ~ overlapped /\ stopped # "lost"

\* Every task gets its turn again and again, with interrupts disabled during
\* creation or not, unless two creations overlap, a creation faults or a task is
\* resumed without a stack: no task is left out of the ring.
EachRuns ==
  \A t \in 0..MaxPid :
    t \in Made ~> running = t \/ overlapped \/ stopped # "no"
=============================================================================

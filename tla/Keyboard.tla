------------------------------ MODULE Keyboard ------------------------------
(***************************************************************************)
(* The keyboard: isr33_handler (kernel/arch/x86_64/idt.c) puts characters  *)
(* into the ring of kernel/arch/x86_64/tty.c, keyboard_getchar takes them  *)
(* out, and gets (libc/stdio/gets.c) makes lines of them.                  *)
(*                                                                         *)
(* The handler runs behind an interrupt gate and is one step.  The reader  *)
(* runs with interrupts enabled and can be interrupted anywhere.  Nothing  *)
(* in the kernel calls gets today: a caller that asks for one line after   *)
(* the other is assumed.                                                   *)
(***************************************************************************)
EXTENDS Naturals, Sequences

CONSTANTS
  BufferSize,   \* KEYBOARD_BUFFER_SIZE
  Keys,
  Plain,        \* kbd_us: key |-> character
  Shifted,      \* kbd_us_shift
  NoChar,       \* the 0 of both tables
  Newline, Backspace,
  MaxLens,      \* what callers pass to gets
  MaxPresses    \* bound: key presses explored

Chars == {Plain[k] : k \in Keys} \cup {Shifted[k] : k \in Keys}

ASSUME KeyboardAssumption ==
  /\ BufferSize \in Nat \ {0}
  /\ MaxLens \subseteq Nat \ {0} /\ MaxPresses \in Nat
  /\ DOMAIN Plain = Keys /\ DOMAIN Shifted = Keys
  /\ Newline # Backspace

VARIABLES
  keyboard_buffer, write_ptr, read_ptr,
  shift_pressed,
  pc,         \* "caller", "gets", "test", "hlt", "asleep", "take", "advance"
  c,          \* the character keyboard_getchar has read
  max_len, i, \* of gets
  buffer,     \* what gets fills, of the length max_len it was told
  rereads,    \* whether the compiled loop reads the pointers again
  taken,      \* history: the character read last
  typed,      \* history: the characters this call of gets has read
  presses     \* history: how many keys were pressed

ring == <<keyboard_buffer, write_ptr, read_ptr>>
reader == <<pc, c, max_len, i, buffer, taken, typed>>
vars == <<ring, shift_pressed, reader, rereads, presses>>

Leftover == "leftover"
Unfilled(n) == [k \in 0..(n - 1) |-> Leftover]

\* The pointers are plain variables, and the assembler statement of the loop
\* says nothing about memory: a compiler may keep them in registers.
Init ==
  /\ keyboard_buffer = [k \in 0..(BufferSize - 1) |-> NoChar]
  /\ write_ptr = 0
  /\ read_ptr = 0
  /\ shift_pressed = FALSE
  /\ pc = "caller"
  /\ c = NoChar
  /\ max_len \in MaxLens
  /\ i = 0
  /\ buffer = Unfilled(max_len)
  /\ rereads \in BOOLEAN
  /\ taken = NoChar
  /\ typed = <<>>
  /\ presses = 0

-----------------------------------------------------------------------------
\* Any interrupt ends the hlt of the reader.
Woken == IF pc = "asleep" THEN (IF rereads THEN "test" ELSE "hlt") ELSE pc
Interrupt == pc' = Woken /\ UNCHANGED <<c, max_len, i, buffer, taken, typed, rereads>>

After(p) == (p + 1) % BufferSize

\* Mutated Full: the newest key is stored whether there is room or not.
FullNever == FALSE
Full == After(write_ptr) = read_ptr

keyboard_push(ch) ==
  IF Full
    THEN UNCHANGED ring
    ELSE /\ keyboard_buffer' = [keyboard_buffer EXCEPT ![write_ptr] = ch]
         /\ write_ptr' = After(write_ptr)
         /\ UNCHANGED read_ptr

\* Pressed or released: either of two keys sets the one flag.
ShiftKey ==
  /\ shift_pressed' \in BOOLEAN
  /\ Interrupt
  /\ UNCHANGED <<ring, presses>>

\* Releases and keys without a character change nothing.
KeyPress(k) ==
  LET ch == IF shift_pressed THEN Shifted[k] ELSE Plain[k] IN
  /\ presses < MaxPresses
  /\ presses' = presses + 1
  /\ IF ch # NoChar THEN keyboard_push(ch) ELSE UNCHANGED ring
  /\ Interrupt
  /\ UNCHANGED shift_pressed

isr33_handler == ShiftKey \/ \E k \in Keys : KeyPress(k)

Tick == Interrupt /\ UNCHANGED <<ring, shift_pressed, presses>>

-----------------------------------------------------------------------------
Reader(p, q) == pc = p /\ pc' = q /\ UNCHANGED <<shift_pressed, rereads, presses>>

gets ==
  /\ Reader("caller", "gets")
  /\ max_len' \in MaxLens
  /\ i' = 0
  /\ buffer' = Unfilled(max_len')
  /\ typed' = <<>>
  /\ UNCHANGED <<ring, c, taken>>

\* Mutated HasRoom: room is not kept for the final 0.
HasRoomToo == i < max_len
HasRoom == i < max_len - 1

CallGetchar ==
  /\ Reader("gets", "test")
  /\ HasRoom
  /\ UNCHANGED <<ring, c, max_len, i, buffer, taken, typed>>

EndLine == buffer' = [buffer EXCEPT ![i] = NoChar]

LineFull ==
  /\ Reader("gets", "caller")
  /\ ~ HasRoom
  /\ EndLine
  /\ UNCHANGED <<ring, c, max_len, i, taken, typed>>

\* Mutated Empty: the last character is left in the ring.
EmptyButOne == read_ptr = write_ptr \/ After(read_ptr) = write_ptr
Empty == read_ptr = write_ptr

TestEmpty ==
  /\ Reader("test", IF Empty THEN "hlt" ELSE "take")
  /\ UNCHANGED <<ring, c, max_len, i, buffer, taken, typed>>

\* An interrupt before the hlt does not end it.
Halt ==
  /\ Reader("hlt", "asleep")
  /\ UNCHANGED <<ring, c, max_len, i, buffer, taken, typed>>

Take ==
  /\ Reader("take", "advance")
  /\ c' = keyboard_buffer[read_ptr]
  /\ UNCHANGED <<ring, max_len, i, buffer, taken, typed>>

Back == IF i > 0 THEN i - 1 ELSE i

\* The pointer moves on, and gets does what the character says.
Advance ==
  /\ Reader("advance", IF c = Newline THEN "caller" ELSE "gets")
  /\ read_ptr' = After(read_ptr)
  /\ taken' = c
  /\ typed' = Append(typed, c)
  /\ CASE c = Newline -> EndLine /\ i' = i
       [] c = Backspace -> i' = Back /\ buffer' = buffer
       [] OTHER -> i' = i + 1 /\ buffer' = [buffer EXCEPT ![i] = c]
  /\ UNCHANGED <<keyboard_buffer, write_ptr, c, max_len>>

Getchar == TestEmpty \/ Halt \/ Take \/ Advance
Gets == gets \/ CallGetchar \/ LineFull \/ Getchar

Next == isr33_handler \/ Tick \/ Gets

Spec == Init /\ [][Next]_vars

\* The timer ticks; the reader runs on between two interrupts.
FairSpec == Spec /\ WF_vars(Tick) /\ WF_vars(Getchar)

-----------------------------------------------------------------------------
Places == {"caller", "gets", "test", "hlt", "asleep", "take", "advance"}

TypeOK ==
  /\ keyboard_buffer \in [0..(BufferSize - 1) -> Chars \cup {NoChar}]
  /\ write_ptr \in 0..(BufferSize - 1) /\ read_ptr \in 0..(BufferSize - 1)
  /\ shift_pressed \in BOOLEAN /\ rereads \in BOOLEAN
  /\ pc \in Places
  /\ c \in Chars \cup {NoChar} /\ taken \in Chars \cup {NoChar}
  /\ max_len \in MaxLens /\ i \in Nat
  /\ buffer \in [0..(max_len - 1) -> Chars \cup {NoChar, Leftover}]
  /\ typed \in Seq(Chars \cup {NoChar})
  /\ presses \in 0..MaxPresses

\* The ring is a queue of one character less than its size, for a reader that
\* is interrupted between reading a character and moving on.
Waiting == (write_ptr + BufferSize - read_ptr) % BufferSize
Contents == [k \in 1..Waiting |-> keyboard_buffer[(read_ptr + k - 1) % BufferSize]]
Queue == INSTANCE KeyQueue WITH
  Chars <- Chars \cup {NoChar},
  Capacity <- BufferSize - 1,
  queue <- Contents
ImplementsKeyQueue == Queue!Spec

\* What the characters read so far leave on the line.
Line ==
  LET text[n \in 0..Len(typed)] ==
        IF n = 0 THEN <<>>
        ELSE CASE typed[n] = Newline -> text[n - 1]
               [] typed[n] = Backspace -> SubSeq(text[n - 1], 1, Len(text[n - 1]) - 1)
               [] OTHER -> Append(text[n - 1], typed[n])
  IN  text[Len(typed)]

\* gets hands over what was typed, with the backspaces applied, ended by a 0
\* inside of the buffer.
LineIsTyped ==
  /\ TypeOK
  /\ i = Len(Line)
  /\ i < max_len
  /\ \A k \in 1..i : buffer[k - 1] = Line[k]
  /\ pc = "caller" /\ buffer # Unfilled(max_len) => buffer[i] = NoChar

\* A reader that waits for a key gets the one that is there, also if it came
\* between the test and the hlt; provided the loop reads the pointers again.
ReaderWakes ==
  rereads => (pc \in {"test", "hlt", "asleep"} /\ Waiting > 0 ~> pc = "take")
=============================================================================

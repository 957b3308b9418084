--------------------------- MODULE LibraryProofs ---------------------------
(***************************************************************************)
(* The C library.  gets over the keyboard, for every size of the ring and  *)
(* of the lines: the ring is the bounded queue of KeyQueue, with the       *)
(* reader interrupted anywhere, and a line holds what was typed.  The      *)
(* functions on memory and strings, for every memory: what they copy is    *)
(* was there, and they compare by the order of a dictionary.  printf, for  *)
(* every format, number and width: the port is sent what C says of it.     *)
(***************************************************************************)
EXTENDS Keyboard, Library, SequenceTheorems, WellFoundedInduction, TLAPS

-----------------------------------------------------------------------------
(* The arithmetic of the ring.                                             *)

\* Going round a ring once.
LEMMA Round ==
  ASSUME NEW b \in Nat \ {0}, NEW n \in 0..(2 * b - 1)
  PROVE  (n < b => n % b = n) /\ (n >= b => n % b = n - b)
  OBVIOUS

Pointers == write_ptr \in 0..(BufferSize - 1) /\ read_ptr \in 0..(BufferSize - 1)

\* The distance from r on to w.
LEMMA Gap ==
  ASSUME NEW w \in 0..(BufferSize - 1), NEW r \in 0..(BufferSize - 1)
  PROVE  /\ w >= r => (w + BufferSize - r) % BufferSize = w - r
         /\ w < r => (w + BufferSize - r) % BufferSize = w - r + BufferSize
  <1> DEFINE n == w + BufferSize - r
  <1>1. BufferSize \in Nat \ {0} /\ n \in 0..(2 * BufferSize - 1)
    BY KeyboardAssumption
  <1>2. /\ n < BufferSize => n % BufferSize = n
        /\ n >= BufferSize => n % BufferSize = n - BufferSize
    BY <1>1, Round
  <1> QED BY <1>1, <1>2

LEMMA Distance ==
  ASSUME Pointers
  PROVE  /\ write_ptr >= read_ptr => Waiting = write_ptr - read_ptr
         /\ write_ptr < read_ptr => Waiting = write_ptr - read_ptr + BufferSize
         /\ Waiting \in 0..(BufferSize - 1)
         /\ Waiting = 0 <=> read_ptr = write_ptr
  <1>1. /\ write_ptr >= read_ptr => Waiting = write_ptr - read_ptr
        /\ write_ptr < read_ptr => Waiting = write_ptr - read_ptr + BufferSize
    BY Gap DEF Pointers, Waiting
  <1> QED BY <1>1, KeyboardAssumption DEF Pointers

LEMMA NextPlace ==
  ASSUME NEW p \in 0..(BufferSize - 1)
  PROVE  /\ p + 1 < BufferSize => After(p) = p + 1
         /\ p + 1 = BufferSize => After(p) = 0
         /\ After(p) \in 0..(BufferSize - 1)
  <1>1. BufferSize \in Nat \ {0} /\ p + 1 \in 0..(2 * BufferSize - 1)
    BY KeyboardAssumption
  <1>2. /\ p + 1 < BufferSize => After(p) = p + 1
        /\ p + 1 >= BufferSize => After(p) = p + 1 - BufferSize
    BY <1>1, Round DEF After
  <1> QED BY <1>1, <1>2

\* Where the k-th waiting character is.
Place(k) == (read_ptr + k - 1) % BufferSize

LEMMA Beyond ==
  ASSUME NEW r \in 0..(BufferSize - 1), NEW k \in 1..BufferSize
  PROVE  /\ r + k <= BufferSize => (r + k - 1) % BufferSize = r + k - 1
         /\ r + k > BufferSize => (r + k - 1) % BufferSize = r + k - 1 - BufferSize
  <1> DEFINE n == r + k - 1
  <1>1. BufferSize \in Nat \ {0} /\ n \in 0..(2 * BufferSize - 1)
    BY KeyboardAssumption
  <1>2. /\ n < BufferSize => n % BufferSize = n
        /\ n >= BufferSize => n % BufferSize = n - BufferSize
    BY <1>1, Round
  <1> QED BY <1>1, <1>2

LEMMA Placed ==
  ASSUME Pointers, NEW k \in 1..BufferSize
  PROVE  /\ Place(k) \in 0..(BufferSize - 1)
         /\ k <= Waiting => Place(k) # write_ptr
         /\ k = Waiting + 1 => Place(k) = write_ptr
  <1>1. /\ BufferSize \in Nat \ {0} /\ write_ptr \in Nat /\ read_ptr \in Nat
        /\ write_ptr < BufferSize /\ read_ptr < BufferSize
    BY KeyboardAssumption DEF Pointers
  <1>2. /\ read_ptr + k <= BufferSize => Place(k) = read_ptr + k - 1
        /\ read_ptr + k > BufferSize => Place(k) = read_ptr + k - 1 - BufferSize
    BY Beyond DEF Pointers, Place
  <1> QED BY <1>1, <1>2, Distance

-----------------------------------------------------------------------------
(* The text of a line.                                                     *)

Text == Seq(Chars \cup {NoChar})

\* What one character makes of the text before it.
Edited(text, ch) ==
  CASE ch = Newline -> text
    [] ch = Backspace -> SubSeq(text, 1, Len(text) - 1)
    [] OTHER -> Append(text, ch)

\* The texts after each of the characters of s, as Line defines them.
IsText(f, s) ==
  f = [n \in 0..Len(s) |-> IF n = 0 THEN <<>> ELSE Edited(f[n - 1], s[n])]

\* There is one such sequence of texts.
OneText ==
  /\ \E f : IsText(f, typed)
  /\ \A f, g : IsText(f, typed) /\ IsText(g, typed) => f = g

LEMMA LineText ==
  ASSUME OneText
  PROVE  \E f : IsText(f, typed) /\ Line = f[Len(typed)]
  BY DEF OneText, IsText, Line, Edited

\* A character more adds a text and changes none of those before it.
LEMMA OneMore ==
  ASSUME OneText, typed \in Text, NEW ch \in Chars \cup {NoChar},
         typed' = Append(typed, ch)
  PROVE  OneText' /\ Line' = Edited(Line, ch)
  <1> DEFINE n == Len(typed)
  <1>1. /\ n \in Nat /\ Len(typed') = n + 1 /\ typed'[n + 1] = ch
        /\ \A k \in 1..n : typed'[k] = typed[k]
    BY DEF Text
  <1>2. PICK f : IsText(f, typed) /\ Line = f[n]
    BY LineText
  <1>3. f = [k \in 0..n |-> IF k = 0 THEN <<>> ELSE Edited(f[k - 1], typed[k])]
    BY <1>2 DEF IsText
  <1> DEFINE more == [k \in 0..(n + 1) |-> IF k = n + 1 THEN Edited(f[n], ch) ELSE f[k]]
  <1>4. ASSUME NEW g, IsText(g, typed')
        PROVE  g = more
    <2> DEFINE h == [k \in 0..n |-> g[k]]
    <2>1. g = [k \in 0..(n + 1) |-> IF k = 0 THEN <<>> ELSE Edited(g[k - 1], typed'[k])]
      BY <1>1, <1>4 DEF IsText
    <2>2. \A k \in 0..n : h[k] = IF k = 0 THEN <<>> ELSE Edited(h[k - 1], typed[k])
      <3> SUFFICES ASSUME NEW k \in 0..n
                   PROVE  h[k] = IF k = 0 THEN <<>> ELSE Edited(h[k - 1], typed[k])
        OBVIOUS
      <3>1. g[k] = IF k = 0 THEN <<>> ELSE Edited(g[k - 1], typed'[k])
        <4> HIDE DEF h, more
        <4>1. k \in 0..(n + 1)
          BY <1>1
        <4> HIDE DEF n
        <4> QED BY <2>1, <4>1
      <3>2. k # 0 => typed'[k] = typed[k] /\ h[k - 1] = g[k - 1]
        BY <1>1
      <3> QED BY <3>1, <3>2
    <2>3. h = [k \in 0..n |-> IF k = 0 THEN <<>> ELSE Edited(h[k - 1], typed[k])]
      BY <2>2
    <2>4. h = f
      BY <1>2, <2>3 DEF OneText, IsText
    <2>5. \A k \in 0..n : g[k] = f[k]
      BY <2>4
    <2>6. g[n + 1] = Edited(g[n], ch)
      <3>1. n + 1 \in 0..(n + 1) /\ n + 1 # 0 /\ n + 1 - 1 = n
        BY <1>1
      <3>2. \A k \in 0..(n + 1) :
              g[k] = IF k = 0 THEN <<>> ELSE Edited(g[k - 1], typed'[k])
        BY <2>1
      <3> HIDE DEF n
      <3> QED BY <1>1, <3>1, <3>2
    <2>7. g[n + 1] = Edited(f[n], ch)
      BY <1>1, <2>5, <2>6
    <2>8. \A k \in 0..(n + 1) : g[k] = more[k]
      <3> SUFFICES ASSUME NEW k \in 0..(n + 1) PROVE g[k] = more[k]
        OBVIOUS
      <3>1. k = n + 1 \/ k \in 0..n
        BY <1>1
      <3> QED BY <2>5, <2>7, <3>1
    <2>9. DOMAIN g = 0..(n + 1) /\ g = [k \in 0..(n + 1) |-> g[k]]
      BY <2>1
    <2> QED BY <2>8, <2>9
  <1>5. IsText(more, typed')
    <2>1. \A k \in 0..(n + 1) :
            more[k] = IF k = 0 THEN <<>> ELSE Edited(more[k - 1], typed'[k])
      <3> SUFFICES ASSUME NEW k \in 0..(n + 1)
                   PROVE  more[k] = IF k = 0 THEN <<>> ELSE Edited(more[k - 1], typed'[k])
        OBVIOUS
      <3>1. CASE k = n + 1
        <4>1. k # 0 /\ k - 1 = n /\ more[k - 1] = f[n] /\ more[k] = Edited(f[n], ch)
          BY <1>1, <3>1
        <4> QED BY <1>1, <3>1, <4>1
      <3>2. CASE k # n + 1
        <4>1. k \in 0..n /\ more[k] = f[k] /\ (k # 0 => more[k - 1] = f[k - 1])
          BY <1>1, <3>2
        <4>2. f[k] = IF k = 0 THEN <<>> ELSE Edited(f[k - 1], typed[k])
          BY <1>3, <4>1
        <4> QED BY <1>1, <4>1, <4>2
      <3> QED BY <3>1, <3>2
    <2> HIDE DEF n
    <2>2. more = [k \in 0..(n + 1) |-> IF k = 0 THEN <<>> ELSE Edited(more[k - 1], typed'[k])]
      BY <2>1
    <2> QED BY <1>1, <2>2 DEF IsText
  <1> HIDE DEF more
  <1>6. OneText'
    BY <1>4, <1>5 DEF OneText
  <1>7. PICK g : IsText(g, typed') /\ Line' = g[Len(typed')]
    BY <1>6 DEF OneText, IsText, Line, Edited
  <1>8. Line' = more[n + 1]
    BY <1>1, <1>4, <1>7
  <1> QED BY <1>1, <1>2, <1>6, <1>8 DEF more

-----------------------------------------------------------------------------
(* The inductive invariant.                                                *)

\* The character the reader takes is still in the ring until the pointer moves.
Held ==
  /\ pc \in {"take", "advance"} => read_ptr # write_ptr
  /\ pc = "advance" => c = keyboard_buffer[read_ptr]

\* Room is left for the final 0, and it is there between two calls.
Ended ==
  /\ i < max_len
  /\ pc \in {"test", "hlt", "asleep", "take", "advance"} => HasRoom
  /\ pc = "caller" => buffer = Unfilled(max_len) \/ buffer[i] = NoChar

\* The buffer holds the text of what was read.
OnLine ==
  /\ Line \in Text
  /\ i = Len(Line)
  /\ \A k \in 1..i : buffer[k - 1] = Line[k]

IInv == TypeOK /\ Held /\ Ended /\ OneText /\ OnLine

LEMMA Initially == Init => IInv
  <1> SUFFICES ASSUME Init PROVE IInv
    OBVIOUS
  <1>1. TypeOK /\ Held /\ Ended
    <2>1. max_len \in Nat \ {0}
      BY KeyboardAssumption DEF Init
    <2>2. BufferSize \in Nat \ {0} /\ MaxPresses \in Nat /\ 0 \in 0..(BufferSize - 1)
      BY KeyboardAssumption
    <2>3. buffer \in [0..(max_len - 1) -> Chars \cup {NoChar, Leftover}]
      BY DEF Init, Unfilled
    <2>4. typed \in Seq(Chars \cup {NoChar})
      BY DEF Init
    <2>5. /\ write_ptr \in 0..(BufferSize - 1) /\ read_ptr \in 0..(BufferSize - 1)
          /\ presses \in 0..MaxPresses /\ i \in Nat
      BY <2>2 DEF Init
    <2>6. /\ keyboard_buffer \in [0..(BufferSize - 1) -> Chars \cup {NoChar}]
          /\ pc \in Places
      BY DEF Init, Places
    <2>7. /\ shift_pressed \in BOOLEAN /\ rereads \in BOOLEAN
          /\ c \in Chars \cup {NoChar} /\ taken \in Chars \cup {NoChar}
          /\ max_len \in MaxLens
      BY DEF Init
    <2>8. TypeOK
      BY <2>3, <2>4, <2>5, <2>6, <2>7 DEF TypeOK
    <2> QED BY <2>1, <2>8 DEF Init, Held, Ended
  <1>2. OneText /\ Line = <<>>
    <2>1. Len(typed) = 0 /\ 0..0 = {0}
      BY DEF Init
    <2>2. \A f : IsText(f, typed) => f = [n \in {0} |-> <<>>]
      BY <2>1 DEF IsText
    <2>3. IsText([n \in {0} |-> <<>>], typed)
      BY <2>1 DEF IsText
    <2>4. OneText
      BY <2>2, <2>3 DEF OneText
    <2> QED BY <2>1, <2>2, <2>4, LineText
  <1>3. OnLine
    BY <1>2 DEF OnLine, Init, Text
  <1> QED BY <1>1, <1>2, <1>3 DEF IInv

\* What the reader has made of its line is not touched by others.
LEMMA LineKept ==
  ASSUME OneText, OnLine, UNCHANGED <<typed, i, max_len, buffer>>
  PROVE  OneText' /\ OnLine'
  <1>1. Line' = Line
    BY DEF Line
  <1>2. \A f : IsText(f, typed)' <=> IsText(f, typed)
    BY DEF IsText
  <1>3. OneText'
    BY <1>2 DEF OneText
  <1>4. OnLine'
    BY <1>1 DEF OnLine
  <1> QED BY <1>3, <1>4

\* A character is put where the reader does not look, or dropped.
LEMMA Pressing == IInv /\ (isr33_handler \/ Tick) => IInv'
  <1> SUFFICES ASSUME IInv, isr33_handler \/ Tick PROVE IInv'
    OBVIOUS
  <1>1. Interrupt
    BY DEF isr33_handler, ShiftKey, KeyPress, Tick
  <1>2. /\ UNCHANGED <<c, max_len, i, buffer, taken, typed, rereads>>
        /\ pc' = pc \/ (pc = "asleep" /\ pc' \in {"test", "hlt"})
    BY <1>1 DEF Interrupt, Woken
  <1>3. \/ UNCHANGED ring
        \/ \E ch \in Chars \cup {NoChar} :
             /\ ~ Full
             /\ keyboard_buffer' = [keyboard_buffer EXCEPT ![write_ptr] = ch]
             /\ write_ptr' = After(write_ptr)
             /\ read_ptr' = read_ptr
    <2>1. CASE ShiftKey \/ Tick
      BY <2>1 DEF ShiftKey, Tick
    <2>2. ASSUME NEW k \in Keys, KeyPress(k)
          PROVE  \/ UNCHANGED ring
                 \/ \E ch \in Chars \cup {NoChar} :
                      /\ ~ Full
                      /\ keyboard_buffer' = [keyboard_buffer EXCEPT ![write_ptr] = ch]
                      /\ write_ptr' = After(write_ptr)
                      /\ read_ptr' = read_ptr
      <3> DEFINE ch == IF shift_pressed THEN Shifted[k] ELSE Plain[k]
      <3>1. ch \in Chars \cup {NoChar}
        BY DEF Chars
      <3>2. UNCHANGED ring \/ keyboard_push(ch)
        BY <2>2 DEF KeyPress
      <3> HIDE DEF ch
      <3> QED BY <3>1, <3>2 DEF keyboard_push
    <2> QED BY <2>1, <2>2 DEF isr33_handler
  <1>4. shift_pressed' \in BOOLEAN /\ presses' \in 0..MaxPresses
    BY KeyboardAssumption
       DEF isr33_handler, ShiftKey, KeyPress, Tick, IInv, TypeOK
  <1>5. Pointers /\ After(write_ptr) \in 0..(BufferSize - 1)
    BY NextPlace DEF IInv, TypeOK, Pointers
  <1>6. TypeOK'
    BY <1>2, <1>3, <1>4, <1>5 DEF IInv, TypeOK, Places, ring, Pointers
  <1>7. Held'
    <2>1. CASE UNCHANGED ring
      BY <1>2, <2>1 DEF IInv, Held, ring
    <2>2. CASE ~ UNCHANGED ring
      <3>1. /\ write_ptr' = After(write_ptr) /\ read_ptr' = read_ptr
            /\ read_ptr # After(write_ptr)
            /\ read_ptr # write_ptr => keyboard_buffer'[read_ptr] = keyboard_buffer[read_ptr]
        BY <1>3, <2>2 DEF Full, IInv, TypeOK
      <3> QED BY <1>2, <3>1 DEF IInv, Held
    <2> QED BY <2>1, <2>2
  <1>8. Ended'
    BY <1>2 DEF IInv, Ended, HasRoom, Unfilled
  <1> QED BY <1>2, <1>6, <1>7, <1>8, LineKept DEF IInv

\* A new line is empty.
LEMMA Calling == IInv /\ gets => IInv'
  <1> SUFFICES ASSUME IInv, gets PROVE IInv'
    OBVIOUS
  <1>1. /\ pc' = "gets" /\ max_len' \in MaxLens /\ max_len' \in Nat \ {0} /\ i' = 0
        /\ buffer' = Unfilled(max_len') /\ typed' = <<>>
        /\ UNCHANGED <<ring, c, taken, shift_pressed, rereads, presses>>
    BY KeyboardAssumption DEF gets, Reader
  <1>2. TypeOK'
    BY <1>1 DEF IInv, TypeOK, Places, Unfilled, ring
  <1>3. Held' /\ Ended'
    BY <1>1 DEF Held, Ended
  <1>4. OneText' /\ Line' = <<>>
    <2>1. Len(typed') = 0 /\ 0..0 = {0}
      BY <1>1
    <2>2. \A f : IsText(f, typed') => f = [n \in {0} |-> <<>>]
      BY <2>1 DEF IsText
    <2>3. IsText([n \in {0} |-> <<>>], typed')
      BY <2>1 DEF IsText
    <2>4. OneText'
      BY <2>2, <2>3 DEF OneText
    <2>5. \E f : IsText(f, typed') /\ Line' = f[Len(typed')]
      BY <2>4 DEF OneText, IsText, Line, Edited
    <2> QED BY <2>1, <2>2, <2>4, <2>5
  <1>5. OnLine'
    BY <1>1, <1>4 DEF OnLine, Text
  <1> QED BY <1>2, <1>3, <1>4, <1>5 DEF IInv

\* Waiting for a character and reading it leaves the line alone.
LEMMA Fetching == IInv /\ (CallGetchar \/ TestEmpty \/ Halt \/ Take) => IInv'
  <1> SUFFICES ASSUME IInv, CallGetchar \/ TestEmpty \/ Halt \/ Take PROVE IInv'
    OBVIOUS
  <1>1. /\ UNCHANGED <<ring, max_len, i, buffer, taken, typed, shift_pressed, rereads, presses>>
        /\ \/ /\ c' = c
              /\ \/ pc = "gets" /\ HasRoom /\ pc' = "test"
                 \/ pc = "test" /\ pc' = "hlt"
                 \/ pc = "test" /\ ~ Empty /\ pc' = "take"
                 \/ pc = "hlt" /\ pc' = "asleep"
           \/ pc = "take" /\ pc' = "advance" /\ c' = keyboard_buffer[read_ptr]
    BY DEF CallGetchar, TestEmpty, Halt, Take, Reader
  <1>2. c' \in Chars \cup {NoChar}
    BY <1>1 DEF IInv, TypeOK
  <1>3. TypeOK'
    BY <1>1, <1>2 DEF IInv, TypeOK, Places, ring
  <1>4. Held'
    BY <1>1 DEF IInv, Held, Empty, ring
  <1>5. Ended'
    BY <1>1 DEF IInv, Ended, HasRoom
  <1> QED BY <1>1, <1>3, <1>4, <1>5, LineKept DEF IInv

\* The 0 is put behind the text.
LEMMA Filling == IInv /\ LineFull => IInv'
  <1> SUFFICES ASSUME IInv, LineFull PROVE IInv'
    OBVIOUS
  <1>1. /\ UNCHANGED <<ring, c, max_len, i, taken, typed, shift_pressed, rereads, presses>>
        /\ pc' = "caller" /\ buffer' = [buffer EXCEPT ![i] = NoChar]
    BY DEF LineFull, Reader, EndLine
  <1>2. /\ max_len \in Nat \ {0} /\ i \in 0..(max_len - 1)
        /\ buffer \in [0..(max_len - 1) -> Chars \cup {NoChar, Leftover}]
    BY KeyboardAssumption DEF IInv, TypeOK, Ended
  <1>3. buffer' \in [0..(max_len' - 1) -> Chars \cup {NoChar, Leftover}] /\ buffer'[i] = NoChar
    BY <1>1, <1>2
  <1>4. TypeOK'
    BY <1>1, <1>3 DEF IInv, TypeOK, Places, ring
  <1>5. Held' /\ Ended'
    BY <1>1, <1>3 DEF IInv, Held, Ended
  <1>6. Line' = Line /\ OneText'
    <2>1. Line' = Line
      BY <1>1 DEF Line
    <2> QED BY <1>1, <2>1 DEF IInv, OneText, IsText
  <1>7. OnLine'
    BY <1>1, <1>2, <1>6 DEF IInv, OnLine
  <1> QED BY <1>4, <1>5, <1>6, <1>7 DEF IInv

\* What gets does with a character is what the character does to the text.
LEMMA Advancing == IInv /\ Advance => IInv'
  <1> SUFFICES ASSUME IInv, Advance PROVE IInv'
    OBVIOUS
  <1>1. /\ UNCHANGED <<keyboard_buffer, write_ptr, c, max_len, shift_pressed, rereads, presses>>
        /\ pc = "advance" /\ read_ptr' = After(read_ptr)
        /\ taken' = c /\ typed' = Append(typed, c)
        /\ pc' = IF c = Newline THEN "caller" ELSE "gets"
    BY DEF Advance, Reader
  <1>2. /\ max_len \in Nat \ {0} /\ i \in 0..(max_len - 1) /\ i + 1 \in 0..(max_len - 1)
        /\ buffer \in [0..(max_len - 1) -> Chars \cup {NoChar, Leftover}]
        /\ c \in Chars \cup {NoChar} /\ typed \in Text
    BY <1>1, KeyboardAssumption DEF IInv, TypeOK, Ended, HasRoom, Text
  <1>3. OneText' /\ Line' = Edited(Line, c)
    BY <1>1, <1>2, OneMore DEF IInv
  <1>4. /\ Line \in Text /\ i = Len(Line) /\ \A k \in 1..i : buffer[k - 1] = Line[k]
    BY DEF IInv, OnLine
  <1>5. \/ /\ c = Newline /\ i' = i /\ buffer' = [buffer EXCEPT ![i] = NoChar]
           /\ Line' = Line
        \/ /\ c # Newline /\ c = Backspace /\ i' = Back /\ buffer' = buffer
           /\ Line' = SubSeq(Line, 1, Len(Line) - 1)
        \/ /\ c # Newline /\ i' = i + 1 /\ buffer' = [buffer EXCEPT ![i] = c]
           /\ Line' = Append(Line, c)
    <2>1. CASE c = Newline
      <3>1. c # Backspace
        BY <2>1, KeyboardAssumption
      <3>2. EndLine /\ i' = i
        BY <2>1, <3>1, Zenon DEF Advance
      <3>3. Edited(Line, c) = Line
        BY <2>1, <3>1, Zenon DEF Edited
      <3> QED BY <1>3, <2>1, <3>2, <3>3 DEF EndLine
    <2>2. CASE c # Newline /\ c = Backspace
      <3>1. i' = Back /\ buffer' = buffer
        BY <2>2, Zenon DEF Advance
      <3>2. Edited(Line, c) = SubSeq(Line, 1, Len(Line) - 1)
        BY <2>2, Zenon DEF Edited
      <3> QED BY <1>3, <2>2, <3>1, <3>2
    <2>3. CASE c # Newline /\ c # Backspace
      <3>1. i' = i + 1 /\ buffer' = [buffer EXCEPT ![i] = c]
        BY <2>3, Zenon DEF Advance
      <3>2. Edited(Line, c) = Append(Line, c)
        BY <2>3, Zenon DEF Edited
      <3> QED BY <1>3, <2>3, <3>1, <3>2
    <2> QED BY <2>1, <2>2, <2>3
  <1>6. /\ i' \in 0..(max_len - 1)
        /\ buffer' \in [0..(max_len - 1) -> Chars \cup {NoChar, Leftover}]
        /\ c = Newline => buffer'[i'] = NoChar
    <2>1. Back \in 0..i
      BY <1>2 DEF Back
    <2> QED BY <1>2, <1>5, <2>1
  <1>7. After(read_ptr) \in 0..(BufferSize - 1)
    BY NextPlace DEF IInv, TypeOK
  <1>8. typed' \in Seq(Chars \cup {NoChar})
    BY <1>1, <1>2 DEF Text
  <1>9. TypeOK'
    BY <1>1, <1>2, <1>6, <1>7, <1>8 DEF IInv, TypeOK, Places
  <1>10. Held' /\ Ended'
    BY <1>1, <1>2, <1>6 DEF IInv, Held, Ended
  <1>11. OnLine'
    <2> USE DEF Text
    <2>1. CASE Line' = Line /\ i' = i
      BY <1>2, <1>4, <1>5, <2>1 DEF OnLine
    <2>2. CASE Line' = SubSeq(Line, 1, Len(Line) - 1) /\ i' = Back /\ buffer' = buffer
      <3>1. CASE i = 0
        <4>1. Line' \in Text /\ Len(Line') = 0 /\ i' = 0
          BY <1>2, <1>4, <2>2, <3>1 DEF Back
        <4> QED BY <4>1 DEF OnLine
      <3>2. CASE i > 0
        <4>1. /\ Line' \in Text /\ Len(Line') = i - 1 /\ i' = i - 1
              /\ \A k \in 1..(i - 1) : Line'[k] = Line[k]
          BY <1>2, <1>4, <2>2, <3>2 DEF Back
        <4> QED BY <1>2, <1>4, <2>2, <4>1 DEF OnLine
      <3> QED BY <1>2, <3>1, <3>2
    <2>3. CASE Line' = Append(Line, c) /\ i' = i + 1 /\ buffer' = [buffer EXCEPT ![i] = c]
      <3>1. /\ Line' \in Text /\ Len(Line') = i + 1 /\ Line'[i + 1] = c
            /\ \A k \in 1..i : Line'[k] = Line[k]
        BY <1>2, <1>4, <2>3
      <3>2. buffer'[i] = c /\ \A k \in 1..i : buffer'[k - 1] = buffer[k - 1]
        BY <1>2, <2>3
      <3> QED BY <1>2, <1>4, <2>3, <3>1, <3>2 DEF OnLine
    <2> QED BY <1>5, <2>1, <2>2, <2>3
  <1> QED BY <1>3, <1>9, <1>10, <1>11 DEF IInv

LEMMA Stuttering == IInv /\ UNCHANGED vars => IInv'
  <1> SUFFICES ASSUME IInv, UNCHANGED vars PROVE IInv'
    OBVIOUS
  <1>1. TypeOK' /\ Held' /\ Ended'
    BY DEF IInv, TypeOK, Held, Ended, HasRoom, Unfilled, vars, ring, reader
  <1> QED BY <1>1, LineKept DEF IInv, vars, reader

\* In every reachable state gets holds the line its characters so far leave, at
\* an index inside of the buffer.
THEOREM Inductive == Spec => []IInv
  <1>1. IInv /\ [Next]_vars => IInv'
    BY Pressing, Calling, Fetching, Filling, Advancing, Stuttering DEF Next, Gets, Getchar
  <1> QED BY <1>1, Initially, PTL DEF Spec

\* gets hands over what was typed, with the backspaces applied, ended by a 0
\* inside of the buffer, for every length it is told.
THEOREM LinesAreTyped == Spec => []LineIsTyped
  <1>1. IInv => LineIsTyped
    BY DEF IInv, Ended, OnLine, LineIsTyped
  <1> QED BY <1>1, Inductive, PTL

-----------------------------------------------------------------------------
(* The ring as a queue.                                                    *)

\* Two sequences with the same characters are the same.
LEMMA SameText ==
  ASSUME NEW S, NEW s \in Seq(S), NEW n \in Nat, Len(s) = n,
         NEW f, DOMAIN f = 1..n, f = [k \in 1..n |-> f[k]], \A k \in 1..n : f[k] = s[k]
  PROVE  f = s
  <1>1. s = [k \in 1..n |-> s[k]]
    OBVIOUS
  <1> QED BY <1>1

LEMMA Typed ==
  ASSUME TypeOK
  PROVE  Contents \in Seq(Chars \cup {NoChar}) /\ Len(Contents) = Waiting
  <1>1. Pointers /\ Waiting \in Nat /\ Waiting <= BufferSize /\ BufferSize \in Nat
    BY Distance, KeyboardAssumption DEF TypeOK, Pointers
  <1>2. \A k \in 1..Waiting : keyboard_buffer[Place(k)] \in Chars \cup {NoChar}
    BY <1>1, Placed DEF TypeOK
  <1>3. Contents = [k \in 1..Waiting |-> keyboard_buffer[Place(k)]]
    BY DEF Contents, Place
  <1> QED BY <1>1, <1>2, <1>3

\* A character pushed into a ring that has room is the last of the queue.
LEMMA Pushed ==
  ASSUME TypeOK, NEW ch \in Chars \cup {NoChar}, ~ Full,
         keyboard_buffer' = [keyboard_buffer EXCEPT ![write_ptr] = ch],
         write_ptr' = After(write_ptr), read_ptr' = read_ptr
  PROVE  Len(Contents) < BufferSize - 1 /\ Contents' = Append(Contents, ch)
  <1>1. Pointers /\ BufferSize \in Nat \ {0}
    BY KeyboardAssumption DEF TypeOK, Pointers
  <1>2. Pointers'
    BY <1>1, NextPlace DEF Pointers
  <1>3. Waiting' = Waiting + 1 /\ Waiting + 1 \in 0..(BufferSize - 1)
    <2>1. /\ write_ptr + 1 < BufferSize => write_ptr' = write_ptr + 1
          /\ write_ptr + 1 = BufferSize => write_ptr' = 0
          /\ write_ptr' # read_ptr
      BY <1>1, NextPlace DEF Pointers, Full
    <2>2. /\ write_ptr' >= read_ptr => Waiting' = write_ptr' - read_ptr
          /\ write_ptr' < read_ptr => Waiting' = write_ptr' - read_ptr + BufferSize
      BY <1>1, <1>2, Gap DEF Pointers, Waiting
    <2> QED BY <1>1, <1>2, <2>1, <2>2, Distance DEF Pointers
  <1>4. \A k \in 1..(Waiting + 1) :
          keyboard_buffer'[Place(k)'] = IF k = Waiting + 1 THEN ch ELSE keyboard_buffer[Place(k)]
    <2> SUFFICES ASSUME NEW k \in 1..(Waiting + 1)
                 PROVE  keyboard_buffer'[Place(k)'] =
                          IF k = Waiting + 1 THEN ch ELSE keyboard_buffer[Place(k)]
      OBVIOUS
    <2>1. k \in 1..BufferSize /\ Waiting \in Nat
      BY <1>1, <1>3, Distance
    <2>2. /\ Place(k)' = Place(k) /\ Place(k) \in 0..(BufferSize - 1)
          /\ k <= Waiting => Place(k) # write_ptr
          /\ k = Waiting + 1 => Place(k) = write_ptr
      BY <1>1, <2>1, Placed DEF Place
    <2> QED BY <2>1, <2>2 DEF TypeOK
  <1>5. /\ Contents = [k \in 1..Waiting |-> keyboard_buffer[Place(k)]]
        /\ Contents' = [k \in 1..(Waiting + 1) |-> keyboard_buffer'[Place(k)']]
    BY <1>3 DEF Contents, Place
  <1>6. Contents \in Seq(Chars \cup {NoChar}) /\ Len(Contents) = Waiting
    BY <1>1, Typed
  <1> HIDE DEF Contents
  <1>7. \A k \in 1..(Waiting + 1) :
          Contents'[k] = IF k = Waiting + 1 THEN ch ELSE keyboard_buffer[Place(k)]
    BY <1>4, <1>5
  <1>8. \A k \in 1..Waiting : Contents[k] = keyboard_buffer[Place(k)]
    BY <1>5
  <1>9. Contents' = Append(Contents, ch)
    <2> DEFINE more == Append(Contents, ch)
    <2>1. /\ more \in Seq(Chars \cup {NoChar}) /\ Len(more) = Waiting + 1
          /\ more[Waiting + 1] = ch /\ \A k \in 1..Waiting : more[k] = Contents[k]
      BY <1>6, AppendProperties
    <2> HIDE DEF more
    <2>2. \A k \in 1..(Waiting + 1) : Contents'[k] = more[k]
      <3> SUFFICES ASSUME NEW k \in 1..(Waiting + 1) PROVE Contents'[k] = more[k]
        OBVIOUS
      <3>1. k = Waiting + 1 \/ (k \in 1..Waiting /\ k # Waiting + 1)
        BY <1>1, Distance
      <3> QED BY <1>7, <1>8, <2>1, <3>1
    <2>3. Contents' = more
      <3>1. DOMAIN Contents' = 1..(Waiting + 1)
            /\ Contents' = [k \in 1..(Waiting + 1) |-> Contents'[k]]
        BY <1>5
      <3>2. Waiting + 1 \in Nat
        BY <1>3
      <3> QED BY <2>1, <2>2, <3>1, <3>2, SameText
    <2> QED BY <2>3 DEF more
  <1> QED BY <1>1, <1>3, <1>6, <1>9

\* The character read is the first of the queue.
LEMMA Popped ==
  ASSUME TypeOK, read_ptr # write_ptr, UNCHANGED <<keyboard_buffer, write_ptr>>,
         read_ptr' = After(read_ptr)
  PROVE  /\ Contents # <<>> /\ Head(Contents) = keyboard_buffer[read_ptr]
         /\ Contents' = Tail(Contents)
  <1>1. Pointers /\ BufferSize \in Nat \ {0}
    BY KeyboardAssumption DEF TypeOK, Pointers
  <1>2. /\ read_ptr + 1 < BufferSize => read_ptr' = read_ptr + 1
        /\ read_ptr + 1 = BufferSize => read_ptr' = 0
        /\ read_ptr' \in 0..(BufferSize - 1)
    BY <1>1, NextPlace DEF Pointers
  <1>3. Waiting' = Waiting - 1 /\ Waiting \in 1..(BufferSize - 1)
    <2>1. /\ write_ptr >= read_ptr' => Waiting' = write_ptr - read_ptr'
          /\ write_ptr < read_ptr' => Waiting' = write_ptr - read_ptr' + BufferSize
      BY <1>1, <1>2, Gap DEF Pointers, Waiting
    <2> QED BY <1>1, <1>2, <2>1, Distance DEF Pointers
  <1>4. \A k \in 1..(Waiting - 1) : Place(k)' = Place(k + 1)
    <2> SUFFICES ASSUME NEW k \in 1..(Waiting - 1) PROVE Place(k)' = Place(k + 1)
      OBVIOUS
    <2>1. k \in 1..BufferSize /\ k + 1 \in 1..BufferSize
      BY <1>1, <1>3
    <2>2. /\ read_ptr' + k <= BufferSize => Place(k)' = read_ptr' + k - 1
          /\ read_ptr' + k > BufferSize => Place(k)' = read_ptr' + k - 1 - BufferSize
      BY <1>2, <2>1, Beyond DEF Place
    <2>3. /\ read_ptr + (k + 1) <= BufferSize => Place(k + 1) = read_ptr + (k + 1) - 1
          /\ read_ptr + (k + 1) > BufferSize =>
               Place(k + 1) = read_ptr + (k + 1) - 1 - BufferSize
      BY <1>1, <2>1, Beyond DEF Place, Pointers
    <2> QED BY <1>1, <1>2, <2>1, <2>2, <2>3 DEF Pointers
  <1>5. /\ Contents = [k \in 1..Waiting |-> keyboard_buffer[Place(k)]]
        /\ Contents' = [k \in 1..(Waiting - 1) |-> keyboard_buffer[Place(k)']]
    BY <1>3 DEF Contents, Place
  <1>6. Contents \in Seq(Chars \cup {NoChar}) /\ Len(Contents) = Waiting
    BY <1>1, Typed
  <1>7. Place(1) = read_ptr
    <2>1. 1 \in 1..BufferSize /\ read_ptr + 1 <= BufferSize
      BY <1>1 DEF Pointers
    <2> QED BY <1>1, <2>1, Beyond DEF Place, Pointers
  <1> HIDE DEF Contents
  <1>8. Contents # <<>> /\ Head(Contents) = keyboard_buffer[read_ptr]
    BY <1>3, <1>5, <1>6, <1>7
  <1>9. Contents' = Tail(Contents)
    <2> DEFINE rest == Tail(Contents)
    <2>1. /\ rest \in Seq(Chars \cup {NoChar}) /\ Len(rest) = Waiting - 1
          /\ \A k \in 1..(Waiting - 1) : rest[k] = Contents[k + 1]
      BY <1>6, <1>8, HeadTailProperties
    <2> HIDE DEF rest
    <2>2. \A k \in 1..(Waiting - 1) : Contents[k + 1] = keyboard_buffer[Place(k + 1)]
      BY <1>3, <1>5
    <2>3. \A k \in 1..(Waiting - 1) : Contents'[k] = rest[k]
      BY <1>4, <1>5, <2>1, <2>2
    <2>4. Contents' = rest
      BY <1>3, <1>5, <2>1, <2>3, SameText
    <2> QED BY <2>4 DEF rest
  <1> QED BY <1>8, <1>9

-----------------------------------------------------------------------------
(* The refinement.                                                         *)

\* Nothing of the queue changes but by a push and by the reader moving on.
LEMMA QueueStep ==
  ASSUME IInv, [Next]_vars
  PROVE  [Queue!Next]_(Queue!vars)
  <1> USE DEF Queue!Next, Queue!Push, Queue!Pop, Queue!vars
  <1>1. TypeOK /\ Held
    BY DEF IInv
  <1>2. CASE UNCHANGED <<ring, taken>>
    <2>1. Contents' = Contents
      BY <1>2 DEF ring, Contents, Waiting
    <2> QED BY <1>2, <2>1
  <1>3. ASSUME NEW k \in Keys, KeyPress(k)
        PROVE  [Queue!Next]_(Queue!vars)
    <2> DEFINE ch == IF shift_pressed THEN Shifted[k] ELSE Plain[k]
    <2>1. ch \in Chars \cup {NoChar} /\ taken' = taken
      BY <1>3 DEF Chars, KeyPress, Interrupt
    <2>2. UNCHANGED ring \/ keyboard_push(ch)
      BY <1>3 DEF KeyPress
    <2> HIDE DEF ch
    <2>3. CASE UNCHANGED ring
      BY <1>2, <2>1, <2>3
    <2>4. CASE ~ UNCHANGED ring
      <3>1. Len(Contents) < BufferSize - 1 /\ Contents' = Append(Contents, ch)
        BY <1>1, <2>1, <2>2, <2>4, Pushed DEF keyboard_push
      <3> QED BY <2>1, <3>1
    <2> QED BY <2>3, <2>4
  <1>4. CASE Advance
    <2>1. /\ UNCHANGED <<keyboard_buffer, write_ptr>> /\ read_ptr' = After(read_ptr)
          /\ taken' = c /\ read_ptr # write_ptr /\ c = keyboard_buffer[read_ptr]
      BY <1>1, <1>4 DEF Advance, Reader, Held
    <2>2. /\ Contents # <<>> /\ Head(Contents) = keyboard_buffer[read_ptr]
          /\ Contents' = Tail(Contents)
      BY <1>1, <2>1, Popped
    <2> QED BY <2>1, <2>2
  <1>5. CASE ShiftKey \/ Tick
    BY <1>2, <1>5 DEF ShiftKey, Tick, Interrupt
  <1>6. CASE gets \/ CallGetchar \/ LineFull \/ TestEmpty \/ Halt \/ Take
    BY <1>2, <1>6 DEF gets, CallGetchar, LineFull, TestEmpty, Halt, Take
  <1>7. CASE UNCHANGED vars
    BY <1>2, <1>7 DEF vars, reader
  <1> QED BY <1>3, <1>4, <1>5, <1>6, <1>7 DEF Next, isr33_handler, Gets, Getchar

\* The ring is a queue of one character less than its size: a character comes
\* out once and in its order, and one that finds the queue full is lost.
THEOREM RingIsQueue == Spec => ImplementsKeyQueue
  <1>1. Init => Queue!Init
    <2> SUFFICES ASSUME Init PROVE Queue!Init
      OBVIOUS
    <2>1. TypeOK
      BY Initially DEF IInv
    <2>2. Len(Contents) = 0 /\ Contents \in Seq(Chars \cup {NoChar})
      BY <2>1, Typed, Distance DEF Init, TypeOK, Pointers
    <2>3. Contents = <<>>
      BY <2>2
    <2> QED BY <2>3 DEF Queue!Init, Init
  <1>2. IInv /\ [Next]_vars => [Queue!Next]_(Queue!vars)
    BY QueueStep
  <1> QED BY <1>1, <1>2, Inductive, PTL DEF Spec, ImplementsKeyQueue, Queue!Spec

-----------------------------------------------------------------------------
(* The functions on memory and strings: the invariant.                     *)

\* The bytes the loop has done are copied, or filled, or known to be equal; the
\* loop is not beyond its end.
Looping ==
  /\ call.fn \in {"memcpy", "fast_memcpy"} =>
       Copied(call.d, call.s, turn) /\ turn <= call.n
  /\ call.fn = "memmove" /\ call.d < call.s =>
       Copied(call.d, call.s, turn) /\ turn <= call.n
  /\ call.fn = "memmove" /\ ~ (call.d < call.s) =>
       /\ Copied(call.d + call.n - turn, call.s + call.n - turn, turn)
       /\ turn <= call.n
  /\ call.fn = "memset" => Filled(call.d, turn, call.v) /\ turn <= call.n
  /\ call.fn = "memcmp" =>
       /\ mem = before /\ turn <= call.n
       /\ \A j \in 0..(turn - 1) : before[call.d + j] = before[call.s + j]
  /\ call.fn = "strlen" =>
       mem = before /\ \A j \in 0..(turn - 1) : before[call.s + j] # 0
  /\ call.fn = "strcmp" =>
       /\ mem = before
       /\ \A j \in 0..(turn - 1) :
            before[call.d + j] # 0 /\ before[call.d + j] = before[call.s + j]
  /\ call.fn = "strcpy" =>
       /\ Copied(call.d, call.s, turn)
       /\ \A j \in 0..(turn - 1) : before[call.s + j] # 0

\* movsq moves whole quads.
WholeQuads ==
  call.fn = "fast_memcpy" /\ turn < InQuads => \E q \in Nat : turn = Quad * q

StringsTyped ==
  /\ place \in {"caller", "loop", "returned"}
  /\ place = "caller" => call.fn = "none"
  /\ place # "caller" =>
       before \in Memories /\ call \in Calls(before) /\ turn \in Nat

StringsInv ==
  /\ StringsTyped
  /\ place = "loop" => Looping /\ WholeQuads
  /\ StringsRight

\* The memory b with the bytes from d on, n of them, as they are at s in b.
Copy(b, d, s, n) ==
  [x \in Addresses |-> IF x \in d..(d + n - 1) THEN b[x - d + s] ELSE b[x]]

\* One byte more, behind those copied or before them.
LEMMA CopyUp ==
  ASSUME NEW b, NEW d \in Nat, NEW s \in Nat, NEW k \in Nat, NEW m,
         m = Copy(b, d, s, k), d + k \in Addresses, s + k \in Addresses,
         d < s \/ s + k < d
  PROVE  [m EXCEPT ![d + k] = m[s + k]] = Copy(b, d, s, k + 1)
  <1>1. m[s + k] = b[s + k] /\ d + k - d + s = s + k
    BY DEF Copy, Addresses
  <1>2. DOMAIN m = Addresses
    BY DEF Copy
  <1> DEFINE u == [m EXCEPT ![d + k] = m[s + k]]
  <1>3. ASSUME NEW x \in Addresses
        PROVE  u[x] = IF x \in d..(d + (k + 1) - 1) THEN b[x - d + s] ELSE b[x]
    <2>1. CASE x = d + k
      BY <1>1, <1>2, <2>1
    <2>2. CASE x # d + k
      <3>1. u[x] = m[x]
        BY <1>2, <2>2
      <3>2. x \in d..(d + (k + 1) - 1) <=> x \in d..(d + k - 1)
        BY <2>2 DEF Addresses
      <3> QED BY <3>1, <3>2 DEF Copy
    <2> QED BY <2>1, <2>2
  <1>4. u = [x \in Addresses |-> u[x]]
    BY <1>2
  <1> HIDE DEF u
  <1>5. u = Copy(b, d, s, k + 1)
    BY <1>3, <1>4 DEF Copy
  <1> QED BY <1>5 DEF u

LEMMA CopyDown ==
  ASSUME NEW b, NEW d \in Nat, NEW s \in Nat, NEW k \in Nat, NEW m,
         m = Copy(b, d, s, k), d - 1 \in Addresses, s - 1 \in Addresses, s <= d
  PROVE  [m EXCEPT ![d - 1] = m[s - 1]] = Copy(b, d - 1, s - 1, k + 1)
  <1>1. m[s - 1] = b[s - 1]
    BY DEF Copy, Addresses
  <1>2. DOMAIN m = Addresses
    BY DEF Copy
  <1> DEFINE u == [m EXCEPT ![d - 1] = m[s - 1]]
  <1>3. ASSUME NEW x \in Addresses
        PROVE  u[x] = IF x \in (d - 1)..(d - 1 + (k + 1) - 1) THEN b[x - (d - 1) + (s - 1)]
                      ELSE b[x]
    <2>1. CASE x = d - 1
      <3>1. x \in (d - 1)..(d - 1 + (k + 1) - 1) /\ x - (d - 1) + (s - 1) = s - 1
        BY <2>1
      <3> QED BY <1>1, <1>2, <2>1, <3>1
    <2>2. CASE x # d - 1
      <3>1. u[x] = m[x]
        BY <1>2, <2>2
      <3>2. /\ x \in (d - 1)..(d - 1 + (k + 1) - 1) <=> x \in d..(d + k - 1)
            /\ x - (d - 1) + (s - 1) = x - d + s
        BY <2>2 DEF Addresses
      <3> QED BY <3>1, <3>2 DEF Copy
    <2> QED BY <2>1, <2>2
  <1>4. u = [x \in Addresses |-> u[x]]
    BY <1>2
  <1> HIDE DEF u
  <1>5. u = Copy(b, d - 1, s - 1, k + 1)
    BY <1>3, <1>4 DEF Copy
  <1> QED BY <1>5 DEF u

\* A quad more.
LEMMA CopyMore ==
  ASSUME NEW b, NEW d \in Nat, NEW s \in Nat, NEW k \in Nat, NEW w \in Nat, NEW m, NEW u,
         m = Copy(b, d, s, k), d + k + w <= MemSize, s + k + w <= MemSize,
         Disjoint(d, s, k + w),
         u = [x \in Addresses |-> IF x \in (d + k)..(d + k + w - 1) THEN m[x - d + s] ELSE m[x]]
  PROVE  u = Copy(b, d, s, k + w)
  <1>1. ASSUME NEW x \in Addresses
        PROVE  u[x] = IF x \in d..(d + (k + w) - 1) THEN b[x - d + s] ELSE b[x]
    <2>1. CASE x \in (d + k)..(d + k + w - 1)
      <3>1. x - d + s \in Addresses /\ x - d + s \notin d..(d + k - 1)
        BY <2>1, StringsAssumption DEF Disjoint, Addresses
      <3>2. u[x] = m[x - d + s] /\ x \in d..(d + (k + w) - 1)
        BY <2>1 DEF Addresses
      <3> QED BY <3>1, <3>2 DEF Copy
    <2>2. CASE x \notin (d + k)..(d + k + w - 1)
      <3>1. x \in d..(d + (k + w) - 1) <=> x \in d..(d + k - 1)
        BY <2>2 DEF Addresses
      <3> QED BY <2>2, <3>1 DEF Copy
    <2> QED BY <2>1, <2>2
  <1>2. u = [x \in Addresses |-> u[x]]
    OBVIOUS
  <1> QED BY <1>1, <1>2 DEF Copy

LEMMA CopyNone ==
  ASSUME NEW b \in [Addresses -> Byte], NEW d \in Int, NEW s \in Int
  PROVE  Copy(b, d, s, 0) = b
  <1>1. \A x \in Addresses : x \notin d..(d + 0 - 1)
    BY DEF Addresses
  <1>2. b = [x \in Addresses |-> b[x]]
    OBVIOUS
  <1> QED BY <1>1, <1>2 DEF Copy

-----------------------------------------------------------------------------
(* Strings and their order.                                                *)

LEMMA LengthOfString ==
  ASSUME NEW m, NEW s \in Addresses, Terminated(m, s)
  PROVE  /\ Length(m, s) \in 0..MemSize /\ Ends(m, s, Length(m, s))
         /\ s + Length(m, s) \in Addresses
         /\ \A n \in Nat : Ends(m, s, n) => n = Length(m, s)
         /\ \A n \in Nat : (\A j \in 0..(n - 1) : m[s + j] # 0) => n <= Length(m, s)
  <1>1. \E n \in 0..MemSize : Ends(m, s, n)
    BY DEF Terminated
  <1>2. PICK z : z = Length(m, s)
    OBVIOUS
  <1>3. z \in 0..MemSize /\ Ends(m, s, z)
    BY <1>1, <1>2 DEF Length
  <1>4. s \in Nat /\ z \in Nat /\ m[s + z] = 0 /\ s + z \in Addresses
    BY <1>3, StringsAssumption DEF Ends, Addresses
  <1>5. ASSUME NEW n \in Nat, \A j \in 0..(n - 1) : m[s + j] # 0
        PROVE  n <= z
    <2>1. ASSUME z < n PROVE FALSE
      <3>1. z \in 0..(n - 1)
        BY <1>4, <2>1
      <3> QED BY <1>4, <1>5, <3>1
    <2> QED BY <1>4, <2>1
  <1>6. ASSUME NEW n \in Nat, Ends(m, s, n)
        PROVE  n = z
    <2>1. n <= z
      BY <1>5, <1>6 DEF Ends
    <2>2. ASSUME n < z PROVE FALSE
      <3>1. n \in 0..(z - 1) /\ m[s + n] = 0
        BY <1>4, <1>6, <2>2 DEF Ends
      <3> QED BY <1>3, <3>1 DEF Ends
    <2> QED BY <1>4, <2>1, <2>2
  <1> QED BY <1>2, <1>3, <1>4, <1>5, <1>6

LEMMA PieceOf ==
  ASSUME NEW b \in [Addresses -> Byte], NEW s \in Nat, NEW n \in Nat, s + n <= MemSize
  PROVE  /\ Len(Piece(b, s, n)) = n
         /\ Piece(b, s, n) = [j \in 1..n |-> Piece(b, s, n)[j]]
         /\ \A j \in 1..n : Piece(b, s, n)[j] = b[s + j - 1] /\ Piece(b, s, n)[j] \in Int
  <1>1. \A j \in 1..n : b[s + j - 1] \in Int
    <2> TAKE j \in 1..n
    <2>1. s + j - 1 \in Addresses
      BY StringsAssumption DEF Addresses
    <2>2. b[s + j - 1] \in Byte
      BY <2>1
    <2> QED BY <2>2 DEF Byte
  <1>2. PICK p : p = Piece(b, s, n)
    OBVIOUS
  <1>3. p = [j \in 1..n |-> b[s + j - 1]]
    BY <1>2 DEF Piece
  <1>4. p \in Seq(Int) /\ DOMAIN p = 1..n
    BY <1>1, <1>3
  <1>5. Len(p) = n
    BY <1>4
  <1>6. \A j \in 1..n : p[j] = b[s + j - 1]
    BY <1>3
  <1>7. p = [j \in 1..n |-> p[j]]
    BY <1>3
  <1> QED BY <1>1, <1>2, <1>5, <1>6, <1>7

\* The first difference decides, and there is but one.
LEMMA FirstDifference ==
  ASSUME NEW u, NEW v, Len(u) \in Nat, Len(v) \in Nat,
         \A j \in 1..Len(u) : u[j] \in Int, \A j \in 1..Len(v) : v[j] \in Int,
         NEW t \in Nat, t <= Len(u), t < Len(v), \A j \in 1..t : u[j] = v[j],
         t < Len(u) => u[t + 1] < v[t + 1]
  PROVE  Precedes(u, v) /\ ~ Precedes(v, u)
  <1>1. Precedes(u, v)
    <2>1. t \in 0..Len(u)
      OBVIOUS
    <2> QED BY <2>1 DEF Precedes
  <1>2. ASSUME Precedes(v, u)
        PROVE  FALSE
    <2>1. PICK k \in 0..Len(v) :
            /\ k <= Len(u) /\ \A j \in 1..k : v[j] = u[j]
            /\ k < Len(u)
            /\ k < Len(v) => v[k + 1] < u[k + 1]
      BY <1>2 DEF Precedes
    <2>2. CASE k < t
      <3>1. k + 1 \in 1..t /\ k < Len(v)
        BY <2>2
      <3>2. u[k + 1] = v[k + 1] /\ v[k + 1] < u[k + 1] /\ u[k + 1] \in Int
        BY <2>1, <3>1
      <3> QED BY <3>2
    <2>3. CASE k = t
      <3>1. u[t + 1] < v[t + 1] /\ v[t + 1] < u[t + 1]
        BY <2>1, <2>3
      <3>2. u[t + 1] \in Int /\ v[t + 1] \in Int
        BY <2>1, <2>3
      <3> QED BY <3>1, <3>2
    <2>4. CASE k > t
      <3>1. t + 1 \in 1..k /\ t < Len(u)
        BY <2>1, <2>4
      <3>2. u[t + 1] = v[t + 1] /\ u[t + 1] < v[t + 1] /\ u[t + 1] \in Int
        BY <2>1, <3>1
      <3> QED BY <3>2
    <2> QED BY <2>2, <2>3, <2>4
  <1> QED BY <1>1, <1>2

LEMMA NoDifference ==
  ASSUME NEW u, Len(u) \in Nat, \A j \in 1..Len(u) : u[j] \in Int
  PROVE  ~ Precedes(u, u)
  <1> SUFFICES ASSUME NEW k \in 0..Len(u), k < Len(u), u[k + 1] < u[k + 1]
               PROVE  FALSE
    BY DEF Precedes
  <1>1. u[k + 1] \in Int
    OBVIOUS
  <1> QED BY <1>1

\* Two places of the memory, which hold the same up to t.
LEMMA Differing ==
  ASSUME NEW b \in [Addresses -> Byte], NEW d \in Nat, NEW s \in Nat,
         NEW n \in Nat, NEW l \in Nat, NEW t \in Nat,
         d + n <= MemSize, s + l <= MemSize, t <= n, t < l,
         \A j \in 0..(t - 1) : b[d + j] = b[s + j],
         t < n => b[d + t] < b[s + t]
  PROVE  /\ Precedes(Piece(b, d, n), Piece(b, s, l))
         /\ ~ Precedes(Piece(b, s, l), Piece(b, d, n))
  <1>1. PICK u, v : u = Piece(b, d, n) /\ v = Piece(b, s, l)
    OBVIOUS
  <1>2. Len(u) = n /\ \A j \in 1..n : u[j] = b[d + j - 1] /\ u[j] \in Int
    BY <1>1, PieceOf
  <1>3. Len(v) = l /\ \A j \in 1..l : v[j] = b[s + j - 1] /\ v[j] \in Int
    BY <1>1, PieceOf
  <1>4. \A j \in 1..t : u[j] = v[j]
    <2> TAKE j \in 1..t
    <2>1. /\ j \in 1..n /\ j \in 1..l /\ j - 1 \in 0..(t - 1)
          /\ d + (j - 1) = d + j - 1 /\ s + (j - 1) = s + j - 1
      OBVIOUS
    <2>2. b[d + (j - 1)] = b[s + (j - 1)]
      BY <2>1
    <2> QED BY <1>2, <1>3, <2>1, <2>2
  <1>5. ASSUME t < n PROVE u[t + 1] < v[t + 1]
    <2>1. t + 1 \in 1..n /\ t + 1 \in 1..l /\ d + (t + 1) - 1 = d + t /\ s + (t + 1) - 1 = s + t
      BY <1>5
    <2> QED BY <1>2, <1>3, <1>5, <2>1
  <1>6. Precedes(u, v) /\ ~ Precedes(v, u)
    BY <1>2, <1>3, <1>4, <1>5, FirstDifference
  <1> QED BY <1>1, <1>6

LEMMA Agreeing ==
  ASSUME NEW b \in [Addresses -> Byte], NEW d \in Nat, NEW s \in Nat, NEW n \in Nat,
         d + n <= MemSize, s + n <= MemSize, \A j \in 0..(n - 1) : b[d + j] = b[s + j]
  PROVE  /\ ~ Precedes(Piece(b, d, n), Piece(b, s, n))
         /\ ~ Precedes(Piece(b, s, n), Piece(b, d, n))
  <1>1. PICK u, v : u = Piece(b, d, n) /\ v = Piece(b, s, n)
    OBVIOUS
  <1>2. /\ Len(u) = n /\ u = [j \in 1..n |-> u[j]]
        /\ \A j \in 1..n : u[j] = b[d + j - 1] /\ u[j] \in Int
    BY <1>1, PieceOf
  <1>3. v = [j \in 1..n |-> v[j]] /\ \A j \in 1..n : v[j] = b[s + j - 1]
    BY <1>1, PieceOf
  <1>4. \A j \in 1..n : u[j] = v[j]
    <2> TAKE j \in 1..n
    <2>1. j - 1 \in 0..(n - 1) /\ d + (j - 1) = d + j - 1 /\ s + (j - 1) = s + j - 1
      OBVIOUS
    <2>2. b[d + (j - 1)] = b[s + (j - 1)]
      BY <2>1
    <2> QED BY <1>2, <1>3, <2>1, <2>2
  <1>5. u = v
    BY <1>2, <1>3, <1>4
  <1> QED BY <1>1, <1>2, <1>5, NoDifference

-----------------------------------------------------------------------------
(* The calls keep the invariant.                                           *)

LEMMA Arguments ==
  ASSUME StringsTyped, place # "caller"
  PROVE  /\ before \in [Addresses -> Byte] /\ turn \in Nat
         /\ call.fn \in {"memcpy", "fast_memcpy", "memmove", "memcmp"} =>
              /\ call.d \in Addresses /\ call.s \in Addresses /\ call.n \in 0..MemSize
              /\ call.d + call.n <= MemSize /\ call.s + call.n <= MemSize
         /\ call.fn \in {"memcpy", "fast_memcpy"} => Disjoint(call.d, call.s, call.n)
         /\ call.fn = "memset" =>
              /\ call.d \in Addresses /\ call.n \in 0..MemSize /\ call.v \in Int
              /\ call.d + call.n <= MemSize
         /\ call.fn \in {"strlen", "strcmp", "strcpy"} =>
              call.s \in Addresses /\ Terminated(before, call.s)
         /\ call.fn = "strcmp" => call.d \in Addresses /\ Terminated(before, call.d)
         /\ call.fn = "strcpy" =>
              /\ call.d \in Addresses /\ call.d + Length(before, call.s) <= MemSize
              /\ Disjoint(call.d, call.s, Length(before, call.s) + 1)
  BY StringsAssumption DEF StringsTyped, Calls, Fits

LEMMA GoesOn ==
  ASSUME StringsInv, place = "loop", NEW w \in Nat, Turn(w), Looping', WholeQuads'
  PROVE  StringsInv'
  <1>1. turn' \in Nat /\ UNCHANGED <<place, call, before>>
    BY DEF StringsInv, StringsTyped, Turn
  <1>2. StringsTyped'
    BY <1>1 DEF StringsInv, StringsTyped
  <1>3. StringsRight'
    BY <1>1 DEF StringsRight
  <1> QED BY <1>2, <1>3 DEF StringsInv

LEMMA ComesBack ==
  ASSUME StringsInv, place = "loop", NEW v, Return(v), StringsRight'
  PROVE  StringsInv'
  BY DEF StringsInv, StringsTyped, Return

LEMMA CopyingUp ==
  ASSUME StringsInv, place = "loop",
         \/ memcpy
         \/ fast_memcpy /\ turn >= InQuads
         \/ memmove /\ call.d < call.s
  PROVE  StringsInv'
  <1>1. place # "caller"
    OBVIOUS
  <1>2. /\ before \in [Addresses -> Byte] /\ turn \in Nat /\ MemSize \in Nat
        /\ call.d \in Nat /\ call.s \in Nat /\ call.n \in Nat
        /\ call.d + call.n <= MemSize /\ call.s + call.n <= MemSize
        /\ call.d < call.s \/ Disjoint(call.d, call.s, call.n)
        /\ turn <= call.n /\ mem = Copy(before, call.d, call.s, turn)
        /\ call.fn \in {"memcpy", "fast_memcpy", "memmove"}
        /\ InQuads \in Int
    <2>1. call.fn \in {"memcpy", "fast_memcpy", "memmove"}
      BY DEF memcpy, fast_memcpy, memmove, InLoop
    <2>2. /\ before \in [Addresses -> Byte] /\ turn \in Nat
          /\ call.d \in Addresses /\ call.s \in Addresses /\ call.n \in 0..MemSize
          /\ call.d + call.n <= MemSize /\ call.s + call.n <= MemSize
          /\ call.fn \in {"memcpy", "fast_memcpy"} => Disjoint(call.d, call.s, call.n)
      BY <1>1, <2>1, Arguments DEF StringsInv
    <2>3. call.d < call.s \/ Disjoint(call.d, call.s, call.n)
      BY <2>1, <2>2 DEF memcpy, fast_memcpy, memmove, InLoop
    <2>4. Looping
      BY DEF StringsInv
    <2>5. turn <= call.n /\ mem = Copy(before, call.d, call.s, turn)
      BY <2>1, <2>4 DEF Looping, Copied, Copy, memcpy, fast_memcpy, memmove, InLoop
    <2>6. InQuads \in Int
      BY <2>2, StringsAssumption DEF InQuads
    <2> QED BY <2>1, <2>2, <2>3, <2>5, <2>6, StringsAssumption DEF Addresses
  <1>3. CASE turn < call.n
    <2>1. CopyByte(turn) /\ Turn(1)
      BY <1>2, <1>3 DEF memcpy, fast_memcpy, memmove, NextByte
    <2>2. /\ call.d + turn \in Addresses /\ call.s + turn \in Addresses
          /\ call.d < call.s \/ call.s + turn < call.d \/ call.d + turn < call.s
      BY <1>2, <1>3 DEF Addresses, Disjoint
    <2>3. mem' = Copy(before, call.d, call.s, turn + 1)
      <3>1. call.d < call.s \/ call.s + turn < call.d
        BY <1>2, <2>2
      <3> QED BY <1>2, <2>1, <2>2, <3>1, CopyUp DEF CopyByte
    <2>4. Looping'
      BY <1>2, <1>3, <2>1, <2>3
         DEF Looping, Copied, Copy, Turn, memcpy, fast_memcpy, memmove, InLoop
    <2>5. WholeQuads'
      <3>1. call.fn = "fast_memcpy" => turn >= InQuads
        BY DEF memcpy, fast_memcpy, memmove, InLoop
      <3>2. turn' = turn + 1 /\ call' = call
        BY <2>1 DEF Turn
      <3> QED BY <1>2, <3>1, <3>2 DEF WholeQuads, InQuads
    <2> QED BY <2>1, <2>4, <2>5, GoesOn
  <1>4. CASE ~ (turn < call.n)
    <2>1. \E v : Return(v)
      BY <1>2, <1>4 DEF memcpy, fast_memcpy, memmove
    <2>2. turn = call.n /\ UNCHANGED <<call, before, mem>>
      BY <1>2, <1>4, <2>1 DEF Return
    <2>3. StringsRight'
      BY <1>2, <2>2 DEF StringsRight, Copied, Copy
    <2> QED BY <2>1, <2>3, ComesBack
  <1> QED BY <1>3, <1>4

LEMMA CopyingQuads ==
  ASSUME StringsInv, fast_memcpy, turn < InQuads
  PROVE  StringsInv'
  <1>1. place = "loop" /\ call.fn = "fast_memcpy" /\ place # "caller"
    BY DEF fast_memcpy, InLoop
  <1>2. /\ before \in [Addresses -> Byte] /\ turn \in Nat /\ MemSize \in Nat
        /\ Quad \in Nat \ {0}
        /\ call.d \in Nat /\ call.s \in Nat /\ call.n \in Nat
        /\ call.d + call.n <= MemSize /\ call.s + call.n <= MemSize
        /\ Disjoint(call.d, call.s, call.n)
    BY <1>1, Arguments, StringsAssumption DEF StringsInv, Addresses
  <1>3. Looping /\ WholeQuads
    BY <1>1 DEF StringsInv
  <1>4. mem = Copy(before, call.d, call.s, turn)
    BY <1>1, <1>3 DEF Looping, Copied, Copy
  <1>5. PICK q \in Nat : turn = Quad * q
    BY <1>1, <1>3 DEF WholeQuads
  <1>6. turn + Quad <= call.n /\ turn + Quad = Quad * (q + 1)
    <2>1. PICK p \in Nat : p = call.n \div Quad /\ Quad * p <= call.n
      BY <1>2
    <2>2. Quad * q < Quad * p
      BY <1>5, <2>1 DEF InQuads
    <2>3. q + 1 <= p
      BY <1>2, <1>5, <2>1, <2>2
    <2>4. Quad * (q + 1) <= Quad * p /\ Quad * (q + 1) = Quad * q + Quad
      BY <1>2, <1>5, <2>1, <2>3
    <2>5. Quad * (q + 1) \in Nat /\ Quad * p \in Nat
      BY <1>2, <1>5, <2>1
    <2> QED BY <1>2, <1>5, <2>1, <2>4, <2>5
  <1>7. CopyQuad /\ Turn(Quad)
    BY DEF fast_memcpy
  <1>8. mem' = Copy(before, call.d, call.s, turn + Quad)
    <2>1. Disjoint(call.d, call.s, turn + Quad)
      BY <1>2, <1>6 DEF Disjoint
    <2>2. call.d + turn + Quad <= MemSize /\ call.s + turn + Quad <= MemSize
      BY <1>2, <1>6
    <2> QED BY <1>2, <1>4, <1>7, <2>1, <2>2, CopyMore DEF CopyQuad
  <1>9. turn' = turn + Quad /\ UNCHANGED <<call, before>>
    BY <1>7 DEF Turn
  <1>10. Looping'
    BY <1>1, <1>6, <1>8, <1>9 DEF Looping, Copied, Copy
  <1>11. WholeQuads'
    BY <1>5, <1>6, <1>9 DEF WholeQuads
  <1> QED BY <1>1, <1>2, <1>7, <1>10, <1>11, GoesOn

LEMMA CopyingDown ==
  ASSUME StringsInv, memmove, ~ (call.d < call.s)
  PROVE  StringsInv'
  <1>1. place = "loop" /\ call.fn = "memmove" /\ place # "caller"
    BY DEF memmove, InLoop
  <1>2. /\ before \in [Addresses -> Byte] /\ turn \in Nat /\ MemSize \in Nat
        /\ call.d \in Nat /\ call.s \in Nat /\ call.n \in Nat
        /\ call.d + call.n <= MemSize /\ call.s + call.n <= MemSize
        /\ call.s <= call.d
    BY <1>1, Arguments, StringsAssumption DEF StringsInv, Addresses
  <1>3. Looping
    BY <1>1 DEF StringsInv
  <1>4. /\ turn <= call.n
        /\ mem = Copy(before, call.d + call.n - turn, call.s + call.n - turn, turn)
    BY <1>1, <1>3 DEF Looping, Copied, Copy
  <1>5. PICK d, s : d = call.d + call.n - turn /\ s = call.s + call.n - turn
    OBVIOUS
  <1>6. d \in Nat /\ s \in Nat /\ s <= d
    BY <1>2, <1>4, <1>5
  <1>7. CASE turn < call.n
    <2>1. CopyByte(call.n - 1 - turn) /\ Turn(1)
      BY <1>7 DEF memmove, NextByte
    <2>2. call.d + (call.n - 1 - turn) = d - 1 /\ call.s + (call.n - 1 - turn) = s - 1
      BY <1>2, <1>5
    <2>3. mem' = [mem EXCEPT ![d - 1] = mem[s - 1]]
      BY <2>1, <2>2 DEF CopyByte
    <2>4. d - 1 \in Addresses /\ s - 1 \in Addresses
      <3>1. d <= call.d + call.n /\ s <= call.s + call.n /\ d > 0 /\ s > 0
        BY <1>2, <1>5, <1>7
      <3>2. d - 1 \in 0..(MemSize - 1) /\ s - 1 \in 0..(MemSize - 1)
        BY <1>2, <1>6, <3>1
      <3> QED BY <3>2 DEF Addresses
    <2>5. mem' = Copy(before, d - 1, s - 1, turn + 1)
      BY <1>2, <1>4, <1>5, <1>6, <2>3, <2>4, CopyDown
    <2>6. turn' = turn + 1 /\ UNCHANGED <<call, before>>
      BY <2>1 DEF Turn
    <2>7. /\ d - 1 = call.d + call.n - (turn + 1) /\ s - 1 = call.s + call.n - (turn + 1)
          /\ turn + 1 <= call.n
      BY <1>2, <1>5, <1>7
    <2>8. mem' = Copy(before, call.d + call.n - (turn + 1), call.s + call.n - (turn + 1),
                      turn + 1)
      BY <2>5, <2>7
    <2>9. Looping'
      BY <1>1, <2>6, <2>7, <2>8 DEF Looping, Copied, Copy
    <2>10. WholeQuads'
      BY <1>1, <2>6 DEF WholeQuads
    <2> QED BY <1>1, <2>1, <2>9, <2>10, GoesOn
  <1>8. CASE ~ (turn < call.n)
    <2>1. Return(call.d)
      BY <1>8 DEF memmove
    <2>2. d = call.d /\ s = call.s /\ turn = call.n /\ UNCHANGED <<call, before, mem>>
      BY <1>2, <1>4, <1>5, <1>8, <2>1 DEF Return
    <2>3. mem = Copy(before, call.d, call.s, call.n)
      BY <1>4, <1>5, <2>2
    <2>4. StringsRight'
      BY <1>1, <2>2, <2>3 DEF StringsRight, Copied, Copy
    <2> QED BY <1>1, <2>1, <2>4, ComesBack
  <1> QED BY <1>7, <1>8

LEMMA MemoryFilled ==
  ASSUME StringsInv, memset
  PROVE  StringsInv'
  <1>1. place = "loop" /\ call.fn = "memset" /\ place # "caller"
    BY DEF memset, InLoop
  <1>2. /\ before \in [Addresses -> Byte] /\ turn \in Nat /\ MemSize \in Nat
        /\ call.d \in Nat /\ call.n \in Nat /\ call.d + call.n <= MemSize
    BY <1>1, Arguments, StringsAssumption DEF StringsInv, Addresses
  <1>3. Filled(call.d, turn, call.v) /\ turn <= call.n
    BY <1>1 DEF StringsInv, Looping
  <1>4. CASE turn < call.n
    <2>1. mem' = [mem EXCEPT ![call.d + turn] = call.v % 256] /\ Turn(1)
      BY <1>4 DEF memset
    <2>2. turn' = turn + 1 /\ UNCHANGED <<call, before>>
      BY <2>1 DEF Turn
    <2>3. call.d + turn \in Addresses
      BY <1>2, <1>4 DEF Addresses
    <2>4. DOMAIN mem = Addresses /\ mem' = [x \in Addresses |-> mem'[x]]
      BY <1>3, <2>1 DEF Filled
    <2>5. ASSUME NEW x \in Addresses
          PROVE  mem'[x] = IF x \in call.d..(call.d + (turn + 1) - 1) THEN call.v % 256
                           ELSE before[x]
      <3>1. CASE x = call.d + turn
        BY <1>2, <2>1, <2>3, <2>4, <3>1
      <3>2. CASE x # call.d + turn
        <4>1. mem'[x] = mem[x]
          BY <2>1, <2>4, <3>2
        <4>2. x \in call.d..(call.d + (turn + 1) - 1) <=> x \in call.d..(call.d + turn - 1)
          BY <1>2, <3>2 DEF Addresses
        <4> QED BY <1>3, <4>1, <4>2 DEF Filled
      <3> QED BY <3>1, <3>2
    <2>6. mem' = [x \in Addresses |-> IF x \in call.d..(call.d + (turn + 1) - 1)
                                       THEN call.v % 256 ELSE before[x]]
      BY <2>4, <2>5
    <2>7. Filled(call.d, turn, call.v)'
      BY <2>2, <2>6 DEF Filled
    <2>8. turn' <= call.n'
      BY <1>2, <1>4, <2>2
    <2>9. Looping' /\ WholeQuads'
      BY <1>1, <2>2, <2>7, <2>8 DEF Looping, WholeQuads
    <2> QED BY <1>1, <2>1, <2>9, GoesOn
  <1>5. CASE ~ (turn < call.n)
    <2>1. Return(call.d)
      BY <1>5 DEF memset
    <2>2. turn = call.n /\ UNCHANGED <<call, before, mem>>
      BY <1>2, <1>3, <1>5, <2>1 DEF Return
    <2>3. Filled(call.d, call.n, call.v)'
      BY <1>3, <2>2 DEF Filled
    <2>4. StringsRight'
      BY <1>1, <2>2, <2>3 DEF StringsRight
    <2> QED BY <1>1, <2>1, <2>4, ComesBack
  <1> QED BY <1>4, <1>5

\* What a comparison returns, and for what.
LEMMA Verdict ==
  ASSUME NEW u, NEW v, NEW r \in Int, Return(r), mem = before,
         r < 0 => Precedes(u, v) /\ ~ Precedes(v, u),
         r > 0 => Precedes(v, u) /\ ~ Precedes(u, v),
         r = 0 => ~ Precedes(u, v) /\ ~ Precedes(v, u)
  PROVE  Orders(u, v)'
  <1>1. ret' = r /\ mem' = before'
    BY DEF Return
  <1>2. r < 0 \/ r = 0 \/ r > 0
    OBVIOUS
  <1>3. /\ ret' < 0 <=> Precedes(u, v)
        /\ ret' > 0 <=> Precedes(v, u)
    BY <1>1, <1>2
  <1> QED BY <1>1, <1>3 DEF Orders

LEMMA Comparing ==
  ASSUME StringsInv, memcmp
  PROVE  StringsInv'
  <1>1. place = "loop" /\ call.fn = "memcmp" /\ place # "caller"
    BY DEF memcmp, InLoop
  <1>2. PICK d \in Nat, s \in Nat, n \in Nat : d = call.d /\ s = call.s /\ n = call.n
    BY <1>1, Arguments DEF StringsInv, Addresses
  <1>3. /\ before \in [Addresses -> Byte] /\ turn \in Nat
        /\ d + n <= MemSize /\ s + n <= MemSize
    BY <1>1, <1>2, Arguments DEF StringsInv
  <1>4. /\ mem = before /\ turn <= n
        /\ \A j \in 0..(turn - 1) : before[d + j] = before[s + j]
    BY <1>1, <1>2 DEF StringsInv, Looping
  <1>5. PICK u, v : u = Piece(before, d, n) /\ v = Piece(before, s, n)
    OBVIOUS
  <1>6. ASSUME NEW r \in Int, Return(r),
               r < 0 => Precedes(u, v) /\ ~ Precedes(v, u),
               r > 0 => Precedes(v, u) /\ ~ Precedes(u, v),
               r = 0 => ~ Precedes(u, v) /\ ~ Precedes(v, u)
        PROVE  StringsInv'
    <2>1. Orders(u, v)'
      BY <1>4, <1>6, Verdict
    <2>2. UNCHANGED <<call, before>>
      BY <1>6 DEF Return
    <2>3. u = Piece(before', call'.d, call'.n) /\ v = Piece(before', call'.s, call'.n)
      BY <1>2, <1>5, <2>2
    <2>4. Orders(Piece(before, call.d, call.n), Piece(before, call.s, call.n))'
      BY <2>1, <2>3
    <2>5. StringsRight'
      BY <1>1, <2>2, <2>4 DEF StringsRight
    <2> QED BY <1>1, <1>6, <2>5, ComesBack
  <1>7. CASE turn >= n
    <2>1. Return(0)
      BY <1>2, <1>7 DEF memcmp
    <2>2. turn = n
      BY <1>3, <1>4, <1>7
    <2>3. ~ Precedes(u, v) /\ ~ Precedes(v, u)
      BY <1>3, <1>4, <1>5, <2>2, Agreeing
    <2> QED BY <1>6, <2>1, <2>3
  <1>8. CASE ~ (turn >= n)
    <2>1. turn < n /\ turn <= n
      BY <1>3, <1>8
    <2>2. PICK x, y : x = Left /\ y = Right
      OBVIOUS
    <2>3. before[d + turn] = x /\ before[s + turn] = y
      BY <1>2, <1>4, <2>2 DEF Left, Right
    <2>4. x \in Int /\ y \in Int
      <3>1. d + turn \in Addresses /\ s + turn \in Addresses
        BY <1>3, <2>1, StringsAssumption DEF Addresses
      <3> QED BY <1>3, <2>3, <3>1 DEF Byte
    <2>5. CASE x < y
      <3>1. Return(-1)
        BY <1>2, <1>8, <2>2, <2>5 DEF memcmp
      <3>2. Precedes(u, v) /\ ~ Precedes(v, u)
        BY <1>3, <1>4, <1>5, <2>1, <2>3, <2>5, Differing
      <3> QED BY <1>6, <3>1, <3>2
    <2>6. CASE x > y
      <3>1. Return(1)
        BY <1>2, <1>8, <2>2, <2>4, <2>6 DEF memcmp
      <3>2. y < x /\ \A j \in 0..(turn - 1) : before[s + j] = before[d + j]
        BY <1>4, <2>4, <2>6
      <3>3. Precedes(v, u) /\ ~ Precedes(u, v)
        BY <1>3, <1>5, <2>1, <2>3, <3>2, Differing
      <3> QED BY <1>6, <3>1, <3>3
    <2>7. CASE x = y
      <3>1. Turn(1) /\ mem' = mem
        BY <1>2, <1>8, <2>2, <2>4, <2>7 DEF memcmp, Skip
      <3>2. turn' = turn + 1 /\ UNCHANGED <<call, before, mem>>
        BY <3>1 DEF Turn
      <3>3. \A j \in 0..(turn + 1 - 1) : before[d + j] = before[s + j]
        <4> TAKE j \in 0..(turn + 1 - 1)
        <4>1. j = turn \/ j \in 0..(turn - 1)
          BY <1>3
        <4> QED BY <1>4, <2>3, <2>7, <4>1
      <3>4. Looping' /\ WholeQuads'
        BY <1>1, <1>2, <1>3, <1>4, <2>1, <3>2, <3>3 DEF Looping, WholeQuads
      <3> QED BY <1>1, <3>1, <3>4, GoesOn
    <2> QED BY <2>4, <2>5, <2>6, <2>7
  <1> QED BY <1>7, <1>8

LEMMA Measuring ==
  ASSUME StringsInv, strlen
  PROVE  StringsInv'
  <1>1. place = "loop" /\ call.fn = "strlen" /\ place # "caller"
    BY DEF strlen, InLoop
  <1>2. PICK s \in Nat : s = call.s /\ s \in Addresses /\ Terminated(before, s)
    BY <1>1, Arguments DEF StringsInv, Addresses
  <1>3. before \in [Addresses -> Byte] /\ turn \in Nat
    BY <1>1, Arguments DEF StringsInv
  <1>4. mem = before /\ \A j \in 0..(turn - 1) : before[s + j] # 0
    BY <1>1, <1>2 DEF StringsInv, Looping
  <1>5. PICK n \in Nat : n = Length(before, s)
    BY <1>2, LengthOfString, StringsAssumption
  <1>6. /\ turn <= n /\ s + n < MemSize
        /\ before[s + turn] = 0 => turn = n
    <2>1. turn <= n
      BY <1>2, <1>3, <1>4, <1>5, LengthOfString
    <2>2. Ends(before, s, n)
      BY <1>2, <1>5, LengthOfString
    <2>3. s + n < MemSize /\ \A j \in 0..(n - 1) : before[s + j] # 0
      BY <2>2 DEF Ends
    <2>4. ASSUME before[s + turn] = 0, turn # n PROVE FALSE
      <3>1. turn \in 0..(n - 1)
        BY <1>3, <2>1, <2>4
      <3> QED BY <2>3, <2>4, <3>1
    <2> QED BY <2>1, <2>3, <2>4
  <1>7. CASE Right # 0
    <2>1. Turn(1) /\ mem' = mem
      BY <1>7 DEF strlen, Skip
    <2>2. turn' = turn + 1 /\ UNCHANGED <<call, before, mem>>
      BY <2>1 DEF Turn
    <2>3. before[s + turn] # 0
      BY <1>2, <1>4, <1>7 DEF Right
    <2>4. \A j \in 0..(turn + 1 - 1) : before[s + j] # 0
      <3> TAKE j \in 0..(turn + 1 - 1)
      <3>1. j = turn \/ j \in 0..(turn - 1)
        BY <1>3
      <3> QED BY <1>4, <2>3, <3>1
    <2>5. call'.fn = "strlen" /\ mem' = before'
          /\ \A j \in 0..(turn' - 1) : before'[call'.s + j] # 0
      <3>1. turn' - 1 = turn + 1 - 1 /\ call'.s = s /\ before' = before
        BY <1>2, <1>3, <2>2
      <3> QED BY <1>1, <1>4, <2>2, <2>4, <3>1
    <2>6. Looping' /\ WholeQuads'
      BY <2>5 DEF Looping, WholeQuads
    <2> QED BY <1>1, <2>1, <2>6, GoesOn
  <1>8. CASE Right = 0
    <2>1. Return(turn)
      BY <1>8 DEF strlen
    <2>2. ret' = turn /\ UNCHANGED <<call, before, mem>>
      BY <2>1 DEF Return
    <2>3. ret' = n
      BY <1>2, <1>4, <1>6, <1>8, <2>2 DEF Right
    <2>4. Len(Piece(before, s, n)) = n
      BY <1>3, <1>6, PieceOf, StringsAssumption
    <2>5. ret' = Len(StringAt(before', call'.s)) /\ mem' = before'
      BY <1>2, <1>4, <1>5, <2>2, <2>3, <2>4 DEF StringAt
    <2>6. StringsRight'
      BY <1>1, <2>2, <2>5 DEF StringsRight
    <2> QED BY <1>1, <2>1, <2>6, ComesBack
  <1> QED BY <1>7, <1>8

LEMMA ComparingStrings ==
  ASSUME StringsInv, strcmp
  PROVE  StringsInv'
  <1>1. place = "loop" /\ call.fn = "strcmp" /\ place # "caller"
    BY DEF strcmp, InLoop
  <1>2. PICK d \in Nat, s \in Nat :
          /\ d = call.d /\ d \in Addresses /\ Terminated(before, d)
          /\ s = call.s /\ s \in Addresses /\ Terminated(before, s)
    BY <1>1, Arguments DEF StringsInv, Addresses
  <1>3. before \in [Addresses -> Byte] /\ turn \in Nat
    BY <1>1, Arguments DEF StringsInv
  <1>4. /\ mem = before
        /\ \A j \in 0..(turn - 1) : before[d + j] # 0 /\ before[d + j] = before[s + j]
    BY <1>1, <1>2 DEF StringsInv, Looping
  <1>5. PICK n \in Nat, l \in Nat : n = Length(before, d) /\ l = Length(before, s)
    BY <1>2, LengthOfString, StringsAssumption
  <1>6. /\ turn <= n /\ d + n < MemSize /\ before[d + n] = 0
        /\ \A j \in 0..(n - 1) : before[d + j] # 0
    <2>1. turn <= n
      BY <1>2, <1>3, <1>4, <1>5, LengthOfString
    <2>2. Ends(before, d, n)
      BY <1>2, <1>5, LengthOfString
    <2> QED BY <2>1, <2>2 DEF Ends
  <1>7. /\ turn <= l /\ s + l < MemSize /\ before[s + l] = 0
        /\ \A j \in 0..(l - 1) : before[s + j] # 0
    <2>1. \A j \in 0..(turn - 1) : before[s + j] # 0
      BY <1>4
    <2>2. turn <= l
      BY <1>2, <1>3, <1>5, <2>1, LengthOfString
    <2>3. Ends(before, s, l)
      BY <1>2, <1>5, LengthOfString
    <2> QED BY <2>2, <2>3 DEF Ends
  <1>8. PICK u, v : u = Piece(before, d, n) /\ v = Piece(before, s, l)
    OBVIOUS
  <1>9. PICK x, y : x = before[d + turn] /\ y = before[s + turn] /\ x = Left /\ y = Right
    BY <1>2, <1>4 DEF Left, Right
  <1>10. x \in Nat /\ y \in Nat
    <2>1. d + turn \in Addresses /\ s + turn \in Addresses
      BY <1>3, <1>6, <1>7, StringsAssumption DEF Addresses
    <2>2. x \in Byte /\ y \in Byte
      BY <1>3, <1>9, <2>1
    <2> QED BY <2>2 DEF Byte
  <1>11. d + n <= MemSize /\ s + l <= MemSize
    BY <1>6, <1>7, StringsAssumption
  <1>12. CASE x # 0 /\ x = y
    <2>1. Turn(1) /\ mem' = mem
      BY <1>9, <1>12 DEF strcmp, Skip
    <2>2. turn' = turn + 1 /\ UNCHANGED <<call, before, mem>>
      BY <2>1 DEF Turn
    <2>3. \A j \in 0..(turn + 1 - 1) : before[d + j] # 0 /\ before[d + j] = before[s + j]
      <3> TAKE j \in 0..(turn + 1 - 1)
      <3>1. j = turn \/ j \in 0..(turn - 1)
        BY <1>3
      <3> QED BY <1>4, <1>9, <1>12, <3>1
    <2>4. call'.fn = "strcmp" /\ mem' = before'
          /\ \A j \in 0..(turn' - 1) :
               before'[call'.d + j] # 0 /\ before'[call'.d + j] = before'[call'.s + j]
      <3>1. turn' - 1 = turn + 1 - 1 /\ call'.d = d /\ call'.s = s /\ before' = before
        BY <1>2, <1>3, <2>2
      <3> QED BY <1>1, <1>4, <2>2, <2>3, <3>1
    <2>5. Looping' /\ WholeQuads'
      BY <2>4 DEF Looping, WholeQuads
    <2> QED BY <1>1, <2>1, <2>5, GoesOn
  <1>13. CASE ~ (x # 0 /\ x = y)
    <2>1. Return(x - y)
      BY <1>9, <1>13 DEF strcmp
    <2>2. ASSUME x < y
          PROVE  Precedes(u, v) /\ ~ Precedes(v, u)
      <3>1. turn <= l /\ turn # l
        <4>1. turn = l => y = 0
          BY <1>7, <1>9
        <4>2. y # 0
          BY <1>10, <2>2
        <4> QED BY <1>7, <4>1, <4>2
      <3>2. turn < l /\ turn <= n /\ \A j \in 0..(turn - 1) : before[d + j] = before[s + j]
        BY <1>3, <1>4, <1>6, <3>1
      <3>3. before[d + turn] < before[s + turn]
        BY <1>9, <2>2
      <3> QED BY <1>3, <1>8, <1>11, <3>2, <3>3, Differing
    <2>3. ASSUME y < x
          PROVE  Precedes(v, u) /\ ~ Precedes(u, v)
      <3>1. turn <= n /\ turn # n
        <4>1. turn = n => x = 0
          BY <1>6, <1>9
        <4>2. x # 0
          BY <1>10, <2>3
        <4> QED BY <1>6, <4>1, <4>2
      <3>2. turn < n /\ turn <= l /\ \A j \in 0..(turn - 1) : before[s + j] = before[d + j]
        BY <1>3, <1>4, <1>7, <3>1
      <3>3. before[s + turn] < before[d + turn]
        BY <1>9, <2>3
      <3> QED BY <1>3, <1>8, <1>11, <3>2, <3>3, Differing
    <2>4. ASSUME x = y
          PROVE  ~ Precedes(u, v) /\ ~ Precedes(v, u)
      <3>1. before[d + turn] = 0 /\ before[s + turn] = 0
        BY <1>9, <1>13, <2>4
      <3>2. turn = n
        <4>1. ~ (turn \in 0..(n - 1))
          BY <1>6, <3>1
        <4> QED BY <1>3, <1>6, <4>1
      <3>3. turn = l
        <4>1. ~ (turn \in 0..(l - 1))
          BY <1>7, <3>1
        <4> QED BY <1>3, <1>7, <4>1
      <3> QED BY <1>3, <1>4, <1>8, <1>11, <3>2, <3>3, Agreeing
    <2>5. /\ x - y \in Int
          /\ x - y < 0 => x < y
          /\ x - y > 0 => y < x
          /\ x - y = 0 => x = y
      BY <1>10
    <2>6. Orders(u, v)'
      BY <1>4, <2>1, <2>2, <2>3, <2>4, <2>5, Verdict
    <2>7. UNCHANGED <<call, before>>
      BY <2>1 DEF Return
    <2>8. u = StringAt(before', call'.d) /\ v = StringAt(before', call'.s)
      BY <1>2, <1>5, <1>8, <2>7 DEF StringAt
    <2>9. Orders(StringAt(before, call.d), StringAt(before, call.s))'
      BY <2>6, <2>8
    <2>10. StringsRight'
      BY <1>1, <2>7, <2>9 DEF StringsRight
    <2> QED BY <1>1, <2>1, <2>10, ComesBack
  <1> QED BY <1>12, <1>13

LEMMA CopyingString ==
  ASSUME StringsInv, strcpy
  PROVE  StringsInv'
  <1>1. place = "loop" /\ call.fn = "strcpy" /\ place # "caller"
    BY DEF strcpy, InLoop
  <1>2. PICK d \in Nat, s \in Nat :
          /\ d = call.d /\ d \in Addresses /\ d + Length(before, s) <= MemSize
          /\ s = call.s /\ s \in Addresses /\ Terminated(before, s)
          /\ Disjoint(d, s, Length(before, s) + 1)
    BY <1>1, Arguments DEF StringsInv, Addresses
  <1>3. before \in [Addresses -> Byte] /\ turn \in Nat /\ MemSize \in Nat
    BY <1>1, Arguments, StringsAssumption DEF StringsInv
  <1>4. mem = Copy(before, d, s, turn) /\ \A j \in 0..(turn - 1) : before[s + j] # 0
    BY <1>1, <1>2 DEF StringsInv, Looping, Copied, Copy
  <1>5. PICK n \in Nat : n = Length(before, s)
    BY <1>2, LengthOfString, StringsAssumption
  <1>6. /\ turn <= n /\ s + n < MemSize /\ before[s + n] = 0
        /\ \A j \in 0..(n - 1) : before[s + j] # 0
    <2>1. turn <= n
      BY <1>2, <1>3, <1>4, <1>5, LengthOfString
    <2>2. Ends(before, s, n)
      BY <1>2, <1>5, LengthOfString
    <2> QED BY <2>1, <2>2 DEF Ends
  <1>7. mem[s + turn] = before[s + turn]
    <2>1. Disjoint(d, s, n + 1)
      BY <1>2, <1>5
    <2>2. s + turn \in Addresses /\ s + turn \notin d..(d + turn - 1)
      BY <1>3, <1>6, <2>1 DEF Addresses, Disjoint
    <2> QED BY <1>4, <2>2 DEF Copy
  <1>8. Right = mem[s + turn]
    BY <1>2 DEF Right
  <1>9. CASE Right # 0
    <2>1. CopyByte(turn) /\ Turn(1)
      BY <1>9 DEF strcpy
    <2>2. turn' = turn + 1 /\ UNCHANGED <<call, before>>
      BY <2>1 DEF Turn
    <2>3. before[s + turn] # 0 /\ turn # n /\ turn < n
      BY <1>3, <1>6, <1>7, <1>8, <1>9
    <2>4. d + turn \in Addresses /\ s + turn \in Addresses /\ (d < s \/ s + turn < d)
      <3>1. Disjoint(d, s, n + 1) /\ d + n <= MemSize
        BY <1>2, <1>5
      <3> QED BY <1>3, <1>6, <2>3, <3>1 DEF Addresses, Disjoint
    <2>5. mem' = [mem EXCEPT ![d + turn] = mem[s + turn]]
      BY <1>2, <2>1 DEF CopyByte
    <2>6. mem' = Copy(before, d, s, turn + 1)
      BY <1>2, <1>3, <1>4, <2>4, <2>5, CopyUp
    <2>7. \A j \in 0..(turn + 1 - 1) : before[s + j] # 0
      <3> TAKE j \in 0..(turn + 1 - 1)
      <3>1. j = turn \/ j \in 0..(turn - 1)
        BY <1>3
      <3> QED BY <1>4, <2>3, <3>1
    <2>8. /\ call'.fn = "strcpy" /\ mem' = Copy(before', call'.d, call'.s, turn')
          /\ \A j \in 0..(turn' - 1) : before'[call'.s + j] # 0
      <3>1. /\ turn' - 1 = turn + 1 - 1 /\ call'.d = d /\ call'.s = s /\ before' = before
            /\ turn' = turn + 1 /\ call' = call
        BY <1>2, <1>3, <2>2
      <3> QED BY <1>1, <2>6, <2>7, <3>1
    <2>9. Looping' /\ WholeQuads'
      BY <2>8 DEF Looping, WholeQuads, Copied, Copy
    <2> QED BY <1>1, <2>1, <2>9, GoesOn
  <1>10. CASE Right = 0
    <2>1. Return(call.d)
      BY <1>10 DEF strcpy
    <2>2. UNCHANGED <<call, before, mem>>
      BY <2>1 DEF Return
    <2>3. turn = n
      <3>1. ~ (turn \in 0..(n - 1))
        BY <1>6, <1>7, <1>8, <1>10
      <3> QED BY <1>3, <1>6, <3>1
    <2>4. mem' = Copy(before', call'.d, call'.s, Length(before', call'.s))
      BY <1>2, <1>4, <1>5, <2>2, <2>3
    <2>5. StringsRight'
      BY <1>1, <2>2, <2>4 DEF StringsRight, Copied, Copy
    <2> QED BY <1>1, <2>1, <2>5, ComesBack
  <1> QED BY <1>9, <1>10

LEMMA StringCalled ==
  ASSUME StringsInv, StringCall
  PROVE  StringsInv'
  <1>1. PICK m \in Memories : before' = m /\ mem' = m /\ call' \in Calls(m)
    BY DEF StringCall
  <1>2. place' = "loop" /\ turn' = 0 /\ m \in [Addresses -> Byte]
    BY <1>1, StringsAssumption DEF StringCall
  <1>3. StringsTyped'
    BY <1>1, <1>2 DEF StringsTyped
  <1>4. PICK a : a = call' /\ a \in Calls(m)
    BY <1>1
  <1>5. /\ a.fn \in {"memcpy", "fast_memcpy", "memmove"} =>
             a.d \in Nat /\ a.s \in Nat /\ a.n \in Nat
        /\ a.fn = "strcpy" => a.d \in Nat /\ a.s \in Nat
        /\ a.fn \in {"memset", "memcmp"} => a.d \in Nat /\ a.n \in Nat
        /\ a.fn = "memset" => a.v \in Int
    <2>1. /\ a.fn \in {"memcpy", "fast_memcpy", "memmove"} =>
               a.d \in Nat /\ a.s \in Nat /\ a.n \in Nat
          /\ a.fn = "strcpy" => a.d \in Nat /\ a.s \in Nat
          /\ a.fn \in {"memset", "memcmp"} => a.d \in Nat /\ a.n \in Nat
      BY <1>4, StringsAssumption DEF Calls, Addresses
    <2>2. a.fn = "memset" => a.v \in Values
      BY <1>4 DEF Calls
    <2> QED BY <2>1, <2>2, StringsAssumption
  <1>6. \A d, s \in Int : m = Copy(m, d, s, 0)
    BY <1>2, CopyNone
  <1>7. \A d \in Nat, v \in Int : m = [x \in Addresses |-> IF x \in d..(d + 0 - 1) THEN v % 256
                                                    ELSE m[x]]
    <2> TAKE d \in Nat, v \in Int
    <2>1. \A x \in Addresses : x \notin d..(d + 0 - 1)
      BY DEF Addresses
    <2>2. m = [x \in Addresses |-> m[x]]
      BY <1>2
    <2> QED BY <2>1, <2>2
  <1>8. 0..(0 - 1) = {}
    OBVIOUS
  <1>9. Looping'
    BY <1>1, <1>2, <1>4, <1>5, <1>6, <1>7, <1>8 DEF Looping, Copied, Copy, Filled
  <1>10. WholeQuads'
    <2>1. 0 = Quad * 0
      BY StringsAssumption
    <2> QED BY <1>2, <2>1 DEF WholeQuads
  <1>11. StringsRight'
    BY <1>2 DEF StringsRight
  <1> QED BY <1>3, <1>9, <1>10, <1>11 DEF StringsInv

LEMMA StringsInvariant == StringsSpec => []StringsInv
  <1>1. StringsInit => StringsInv
    BY DEF StringsInit, StringsInv, StringsTyped, StringsRight
  <1>2. StringsInv /\ [StringsNext]_strings => StringsInv'
    <2> SUFFICES ASSUME StringsInv, [StringsNext]_strings PROVE StringsInv'
      OBVIOUS
    <2>1. CASE StringCall
      BY <2>1, StringCalled
    <2>2. CASE memcpy
      BY <2>2, CopyingUp DEF memcpy, InLoop
    <2>3. CASE memmove
      <3>1. place = "loop"
        BY <2>3 DEF memmove, InLoop
      <3> QED BY <2>3, <3>1, CopyingUp, CopyingDown
    <2>4. CASE fast_memcpy
      <3>1. place = "loop"
        BY <2>4 DEF fast_memcpy, InLoop
      <3>2. turn < InQuads \/ turn >= InQuads
        <4>1. turn \in Nat /\ call.n \in Nat /\ Quad \in Nat \ {0}
          BY <2>4, <3>1, Arguments, StringsAssumption DEF StringsInv, fast_memcpy, InLoop
        <4>2. InQuads \in Int
          BY <4>1 DEF InQuads
        <4> QED BY <4>1, <4>2
      <3> QED BY <2>4, <3>1, <3>2, CopyingUp, CopyingQuads
    <2>5. CASE memset \/ memcmp \/ strlen \/ strcmp \/ strcpy
      BY <2>5, MemoryFilled, Comparing, Measuring, ComparingStrings, CopyingString
    <2>6. CASE Returned \/ UNCHANGED strings
      <3>1. UNCHANGED <<place, call, before, mem, turn, ret>>
        BY <2>6 DEF Returned, strings
      <3>2. StringsTyped' /\ (Looping' <=> Looping) /\ (WholeQuads' <=> WholeQuads)
        BY <3>1 DEF StringsInv, StringsTyped, Looping, WholeQuads, Copied, Filled, InQuads
      <3>3. StringsRight'
        BY <3>1 DEF StringsInv, StringsRight, Copied, Filled, Orders
      <3> QED BY <3>1, <3>2, <3>3 DEF StringsInv
    <2> QED BY <2>1, <2>2, <2>3, <2>4, <2>5, <2>6 DEF StringsNext, Loops
  <1> QED BY <1>1, <1>2, PTL DEF StringsSpec

\* Whatever the memory holds and the size of a quad is: what is copied is what
\* was there, where the places overlap too, and comparing goes by the order of a
\* dictionary.
THEOREM StringsDo == StringsSpec => []StringsRight
  <1>1. StringsInv => StringsRight
    BY DEF StringsInv
  <1> QED BY <1>1, StringsInvariant, PTL

-----------------------------------------------------------------------------
(* printf.  Induction over a number or a format is written with sets: a    *)
(* set of numbers that is not empty has a least member.                    *)

LEMMA Below == IsWellFoundedOn({p \in Nat \X Nat : p[1] < p[2]}, Nat)
  BY NatLessThanWellFounded DEF OpToRel

LEMMA Least ==
  ASSUME NEW S, S \subseteq Nat, S # {}
  PROVE  \E l \in S : \A m \in S : l <= m
  <1>1. PICK R : R = {p \in Nat \X Nat : p[1] < p[2]}
    OBVIOUS
  <1>2. IsWellFoundedOn(R, Nat)
    BY <1>1, Below
  <1>3. PICK m \in S : \A k \in S : ~ (<<k, m>> \in R)
    BY <1>2, WFMin
  <1>4. \A k \in S : ~ (k < m)
    BY <1>1, <1>3
  <1> QED BY <1>4

LEMMA Induction ==
  ASSUME NEW m \in Nat, NEW S, 0 \in S, \A j \in 0..(m - 1) : j \in S => j + 1 \in S
  PROVE  \A j \in 0..m : j \in S
  <1> DEFINE T == {j \in 0..m : j \notin S}
  <1>1. SUFFICES ASSUME T # {} PROVE FALSE
    OBVIOUS
  <1>2. PICK l \in T : \A k \in T : l <= k
    <2>1. T \subseteq Nat
      OBVIOUS
    <2> HIDE DEF T
    <2> QED BY <1>1, <2>1, Least
  <1>3. l - 1 \in 0..(m - 1) /\ l - 1 \notin T
    BY <1>2
  <1> QED BY <1>2, <1>3

\* A function on 0..k with a value more.
\* A function is defined from its values at smaller numbers.
Falls(n, B, e) == \A k \in 0..n : k \notin B => e[k] \in 0..(k - 1)
Keeps(n, B, P, F, V) ==
  \A k \in 0..n : (k \in B => P[k] \in V) /\ (k \notin B => \A v \in V : F[k][v] \in V)
Unfolds(f, m, B, P, e, F) ==
  \A k \in 0..m : f[k] = IF k \in B THEN P[k] ELSE F[k][f[e[k]]]

LEMMA Descent ==
  ASSUME NEW n \in Nat, NEW V, NEW B, NEW P, NEW e, NEW F,
         Falls(n, B, e), Keeps(n, B, P, F, V)
  PROVE  \E f \in [0..n -> V] : Unfolds(f, n, B, P, e, F)
  <1> DEFINE S == {m \in 0..n : \E f \in [0..m -> V] : Unfolds(f, m, B, P, e, F)}
  <1>1. 0 \in S
    <2>1. 0 \in B
      BY DEF Falls
    <2>2. P[0] \in V
      BY <2>1 DEF Keeps
    <2>3. PICK f : f = [j \in 0..0 |-> P[0]]
      OBVIOUS
    <2>4. f \in [0..0 -> V] /\ f[0] = P[0] /\ \A k \in 0..0 : k = 0
      BY <2>2, <2>3
    <2>5. Unfolds(f, 0, B, P, e, F)
      BY <2>1, <2>4 DEF Unfolds
    <2> QED BY <2>4, <2>5
  <1>2. ASSUME NEW m \in 0..(n - 1), m \in S
        PROVE  m + 1 \in S
    <2>1. PICK f \in [0..m -> V] : Unfolds(f, m, B, P, e, F)
      BY <1>2
    <2>2. m + 1 \in 0..n
      OBVIOUS
    <2>3. PICK v \in V : v = IF m + 1 \in B THEN P[m + 1] ELSE F[m + 1][f[e[m + 1]]]
      <3>1. CASE m + 1 \in B
        BY <2>2, <3>1 DEF Keeps
      <3>2. CASE m + 1 \notin B
        <4>1. e[m + 1] \in 0..m
          BY <2>2, <3>2 DEF Falls
        <4>2. f[e[m + 1]] \in V
          BY <2>1, <4>1
        <4> QED BY <2>2, <3>2, <4>2 DEF Keeps
      <3> QED BY <3>1, <3>2
    <2>4. PICK g : g = [j \in 0..(m + 1) |-> IF j = m + 1 THEN v ELSE f[j]]
      OBVIOUS
    <2>5. g[m + 1] = v /\ \A j \in 0..m : g[j] = f[j]
      <3>1. m + 1 \in 0..(m + 1) /\ \A j \in 0..m : j \in 0..(m + 1) /\ j # m + 1
        OBVIOUS
      <3> QED BY <2>4, <3>1
    <2>6. g \in [0..(m + 1) -> V]
      BY <2>1, <2>4
    <2>7. ASSUME NEW k \in 0..(m + 1)
          PROVE  g[k] = IF k \in B THEN P[k] ELSE F[k][g[e[k]]]
      <3>1. k \in 0..n
        OBVIOUS
      <3>2. k \notin B => e[k] \in 0..m /\ g[e[k]] = f[e[k]]
        <4>1. k \notin B => e[k] \in 0..(k - 1)
          BY <3>1 DEF Falls
        <4> QED BY <2>5, <4>1
      <3>3. CASE k = m + 1
        BY <2>3, <2>5, <3>2, <3>3
      <3>4. CASE k # m + 1
        <4>1. k \in 0..m
          BY <3>4
        <4>2. f[k] = IF k \in B THEN P[k] ELSE F[k][f[e[k]]]
          BY <2>1, <4>1 DEF Unfolds
        <4>3. g[k] = f[k]
          BY <2>5, <4>1
        <4> QED BY <3>2, <4>2, <4>3
      <3> QED BY <3>3, <3>4
    <2>8. Unfolds(g, m + 1, B, P, e, F)
      BY <2>7 DEF Unfolds
    <2> QED BY <2>2, <2>6, <2>8
  <1>3. n \in S
    <2> HIDE DEF S
    <2> QED BY <1>1, <1>2, Induction
  <1> QED BY <1>3

-----------------------------------------------------------------------------
(* The digits of a number.                                                 *)

LEMMA Shorter ==
  ASSUME NEW k \in Nat, NEW base \in {10, 16}
  PROVE  /\ k \div base \in Nat /\ k % base \in 0..15
         /\ k >= 1 => k \div base < k
         /\ k < base => k \div base = 0 /\ k % base = k
         /\ k >= base => k \div base >= 1
  <1>1. CASE base = 10
    BY <1>1
  <1>2. CASE base = 16
    BY <1>2
  <1> QED BY <1>1, <1>2

LEMMA DigitByte ==
  ASSUME NEW k \in 0..15
  PROVE  Digit(k) \in Bytes
  BY DEF Digit, Bytes

IsFilling(f, n, base) ==
  f = [k \in 0..n |->
         IF k = 0 THEN <<>> ELSE <<Digit(k % base)>> \o f[k \div base]]
IsNumeral(f, n, base) ==
  f = [k \in 0..n |->
         IF k < base THEN <<Digit(k)>> ELSE Append(f[k \div base], Digit(k % base))]

LEMMA Buffered ==
  ASSUME NEW n \in Nat, NEW base \in {10, 16}
  PROVE  \E f \in [0..n -> Seq(Bytes)] :
           IsFilling(f, n, base) /\ (n # 0 => Buffer(n, base) = f[n])
  <1>1. PICK e : e = [k \in 0..n |-> k \div base]
    OBVIOUS
  <1>2. PICK F : F = [k \in 0..n |-> [s \in Seq(Bytes) |-> <<Digit(k % base)>> \o s]]
    OBVIOUS
  <1>3. PICK P : P = [k \in 0..n |-> <<>>]
    OBVIOUS
  <1>4. Falls(n, {0}, e)
    <2>1. ASSUME NEW k \in 0..n, k # 0 PROVE e[k] \in 0..(k - 1)
      <3>1. k \div base \in Nat /\ k \div base < k
        BY <2>1, Shorter
      <3> QED BY <1>1, <3>1
    <2> QED BY <2>1 DEF Falls
  <1>5. \A k \in 0..n, s \in Seq(Bytes) :
          F[k][s] = <<Digit(k % base)>> \o s /\ F[k][s] \in Seq(Bytes)
    <2> TAKE k \in 0..n, s \in Seq(Bytes)
    <2>1. PICK d \in Bytes : d = Digit(k % base)
      BY Shorter, DigitByte
    <2>2. <<d>> \in Seq(Bytes)
      OBVIOUS
    <2>3. <<d>> \o s \in Seq(Bytes)
      BY <2>2, ConcatProperties
    <2>4. F[k][s] = <<d>> \o s
      BY <1>2, <2>1
    <2> QED BY <2>1, <2>3, <2>4
  <1>6. Keeps(n, {0}, P, F, Seq(Bytes))
    <2>1. \A k \in 0..n : P[k] \in Seq(Bytes)
      BY <1>3
    <2>2. \A k \in 0..n, s \in Seq(Bytes) : F[k][s] \in Seq(Bytes)
      BY <1>5
    <2> QED BY <2>1, <2>2, Zenon DEF Keeps
  <1>7. PICK f \in [0..n -> Seq(Bytes)] : Unfolds(f, n, {0}, P, e, F)
    BY <1>4, <1>6, Descent
  <1>8. \A k \in 0..n : f[k] = IF k = 0 THEN <<>> ELSE <<Digit(k % base)>> \o f[k \div base]
    <2> TAKE k \in 0..n
    <2>1. CASE k = 0
      <3>1. f[k] = P[k]
        BY <1>7, <2>1 DEF Unfolds
      <3> QED BY <1>3, <2>1, <3>1
    <2>2. CASE k # 0
      <3>1. e[k] \in 0..(k - 1)
        BY <1>4, <2>2 DEF Falls
      <3>2. PICK s \in Seq(Bytes) : s = f[e[k]]
        BY <1>7, <3>1
      <3>3. f[k] = F[k][s]
        BY <1>7, <2>2, <3>2 DEF Unfolds
      <3>4. e[k] = k \div base
        BY <1>1
      <3>5. F[k][s] = <<Digit(k % base)>> \o s
        BY <1>5
      <3> QED BY <2>2, <3>2, <3>3, <3>4, <3>5, Zenon
    <2> QED BY <2>1, <2>2
  <1>9. IsFilling(f, n, base)
    <2>1. f = [k \in 0..n |-> f[k]]
      BY <1>7
    <2> QED BY <1>8, <2>1 DEF IsFilling
  <1> DEFINE g == CHOOSE h : IsFilling(h, n, base)
  <1>10. IsFilling(g, n, base)
    BY <1>9
  <1>11. n # 0 => Buffer(n, base) = g[n]
    BY DEF Buffer, IsFilling
  <1> HIDE DEF g
  <1>12. ASSUME NEW h, IsFilling(h, n, base)
         PROVE  \A k \in 0..n : h[k] = f[k]
    <2> DEFINE T == {k \in 0..n : h[k] # f[k]}
    <2>1. SUFFICES ASSUME T # {} PROVE FALSE
      OBVIOUS
    <2>2. PICK k \in T : \A j \in T : k <= j
      <3>1. T \subseteq Nat
        OBVIOUS
      <3> HIDE DEF T
      <3> QED BY <2>1, <3>1, Least
    <2>3. h[k] = IF k = 0 THEN <<>> ELSE <<Digit(k % base)>> \o h[k \div base]
      <3>1. k \in 0..n
        BY <2>2
      <3> HIDE DEF T
      <3> QED BY <1>12, <3>1 DEF IsFilling
    <2>4. k # 0 => h[k \div base] = f[k \div base]
      <3>1. PICK q : q = k \div base
        OBVIOUS
      <3>2. k \in 0..n /\ (k # 0 => q \in Nat /\ q < k)
        BY <2>2, <3>1, Shorter
      <3>3. k # 0 => q \in 0..n /\ q \notin T
        BY <2>2, <3>2
      <3> QED BY <3>1, <3>3
    <2> QED BY <1>8, <2>2, <2>3, <2>4
  <1>13. g[n] = f[n]
    BY <1>10, <1>12
  <1> QED BY <1>9, <1>11, <1>13
LEMMA Counting ==
  ASSUME NEW n \in Nat, NEW base \in {10, 16}
  PROVE  \E f \in [0..n -> Seq(Bytes)] :
           IsNumeral(f, n, base) /\ Numeral(n, base) = f[n]
  <1>1. PICK e : e = [k \in 0..n |-> k \div base]
    OBVIOUS
  <1>2. PICK F : F = [k \in 0..n |-> [s \in Seq(Bytes) |-> Append(s, Digit(k % base))]]
    OBVIOUS
  <1>3. PICK P : P = [k \in 0..n |-> <<Digit(k)>>]
    OBVIOUS
  <1>0. PICK B : B = {k \in 0..n : k < base}
    OBVIOUS
  <1>4. Falls(n, B, e)
    <2>1. ASSUME NEW k \in 0..n, k \notin B PROVE e[k] \in 0..(k - 1)
      <3>1. k \div base \in Nat /\ k \div base < k
        <4>1. k >= 1
          BY <1>0, <2>1
        <4> QED BY <4>1, Shorter
      <3> QED BY <1>1, <3>1
    <2> QED BY <2>1 DEF Falls
  <1>5. \A k \in 0..n, s \in Seq(Bytes) :
          F[k][s] = Append(s, Digit(k % base)) /\ F[k][s] \in Seq(Bytes)
    <2> TAKE k \in 0..n, s \in Seq(Bytes)
    <2>1. PICK d \in Bytes : d = Digit(k % base)
      BY Shorter, DigitByte
    <2>2. Append(s, d) \in Seq(Bytes)
      BY <2>1, AppendProperties
    <2>3. F[k][s] = Append(s, d)
      BY <1>2, <2>1
    <2> QED BY <2>1, <2>2, <2>3
  <1>6. Keeps(n, B, P, F, Seq(Bytes))
    <2>1. \A k \in 0..n : k \in B => P[k] \in Seq(Bytes)
      <3> SUFFICES ASSUME NEW k \in 0..n, k \in B PROVE P[k] \in Seq(Bytes)
        OBVIOUS
      <3>1. k \in 0..15
        BY <1>0
      <3>2. PICK d \in Bytes : d = Digit(k)
        BY <3>1, DigitByte
      <3> QED BY <1>3, <3>2
    <2>2. \A k \in 0..n, s \in Seq(Bytes) : F[k][s] \in Seq(Bytes)
      BY <1>5
    <2> QED BY <2>1, <2>2, Zenon DEF Keeps
  <1>7. PICK f \in [0..n -> Seq(Bytes)] : Unfolds(f, n, B, P, e, F)
    BY <1>4, <1>6, Descent
  <1>8. \A k \in 0..n : 
          f[k] = IF k < base THEN <<Digit(k)>>
                 ELSE Append(f[k \div base], Digit(k % base))
    <2> TAKE k \in 0..n
    <2>1. CASE k < base
      <3>1. f[k] = P[k]
        BY <1>0, <1>7, <2>1 DEF Unfolds
      <3> QED BY <1>3, <2>1, <3>1
    <2>2. CASE ~ (k < base)
      <3>0. k \notin B
        BY <1>0, <2>2
      <3>1. e[k] \in 0..(k - 1)
        BY <1>4, <3>0 DEF Falls
      <3>2. PICK s \in Seq(Bytes) : s = f[e[k]]
        BY <1>7, <3>1
      <3>3. f[k] = F[k][s]
        BY <1>7, <3>0, <3>2 DEF Unfolds
      <3>4. e[k] = k \div base
        BY <1>1
      <3>5. F[k][s] = Append(s, Digit(k % base))
        BY <1>5
      <3> QED BY <2>2, <3>2, <3>3, <3>4, <3>5, Zenon
    <2> QED BY <2>1, <2>2
  <1>9. IsNumeral(f, n, base)
    <2>1. f = [k \in 0..n |-> f[k]]
      BY <1>7
    <2> QED BY <1>8, <2>1 DEF IsNumeral
  <1> DEFINE g == CHOOSE h : IsNumeral(h, n, base)
  <1>10. IsNumeral(g, n, base)
    BY <1>9
  <1>11. Numeral(n, base) = g[n]
    BY DEF Numeral, IsNumeral
  <1> HIDE DEF g
  <1>12. ASSUME NEW h, IsNumeral(h, n, base)
         PROVE  \A k \in 0..n : h[k] = f[k]
    <2> DEFINE T == {k \in 0..n : h[k] # f[k]}
    <2>1. SUFFICES ASSUME T # {} PROVE FALSE
      OBVIOUS
    <2>2. PICK k \in T : \A j \in T : k <= j
      <3>1. T \subseteq Nat
        OBVIOUS
      <3> HIDE DEF T
      <3> QED BY <2>1, <3>1, Least
    <2>3. h[k] = IF k < base THEN <<Digit(k)>>
                ELSE Append(h[k \div base], Digit(k % base))
      <3>1. k \in 0..n
        BY <2>2
      <3> HIDE DEF T
      <3> QED BY <1>12, <3>1 DEF IsNumeral
    <2>4. ~ (k < base) => h[k \div base] = f[k \div base]
      <3>1. PICK q : q = k \div base
        OBVIOUS
      <3>2. k \in 0..n /\ (~ (k < base) => q \in Nat /\ q < k)
        <4>1. k \in 0..n /\ (~ (k < base) => k >= 1)
          BY <2>2
        <4> QED BY <3>1, <4>1, Shorter
      <3>3. ~ (k < base) => q \in 0..n /\ q \notin T
        BY <2>2, <3>2
      <3> QED BY <3>1, <3>3
    <2> QED BY <1>8, <2>2, <2>3, <2>4
  <1>13. g[n] = f[n]
    BY <1>10, <1>12
  <1> QED BY <1>9, <1>11, <1>13

\* The digits come out of the buffer in the order in which they are read.
LEMMA ReverseCons ==
  ASSUME NEW S, NEW d \in S, NEW s \in Seq(S)
  PROVE  /\ Reverse(<<d>> \o s) = Append(Reverse(s), d)
         /\ Reverse(s) \in Seq(S) /\ Len(Reverse(s)) = Len(s)
  <1> DEFINE n == Len(s)
             t == <<d>> \o s
             u == Reverse(s)
  <1>1. n \in Nat /\ \A j \in 1..n : s[j] \in S
    BY ElementOfSeq, LenProperties
  <1>2. <<d>> \in Seq(S) /\ Len(<<d>>) = 1 /\ <<d>>[1] = d
    OBVIOUS
  <1>3. /\ t \in Seq(S) /\ Len(t) = n + 1
        /\ \A j \in 1..(n + 1) : t[j] = IF j <= 1 THEN <<d>>[j] ELSE s[j - 1]
    BY <1>1, <1>2, ConcatProperties
  <1>4. u = [j \in 1..n |-> s[n - j + 1]]
    BY DEF Reverse
  <1>5. \A j \in 1..n : n - j + 1 \in 1..n
    BY <1>1
  <1>6. u \in Seq(S) /\ Len(u) = n /\ \A j \in 1..n : u[j] = s[n - j + 1]
    BY <1>1, <1>4, <1>5
  <1>7. Reverse(t) = [j \in 1..(n + 1) |-> t[(n + 1) - j + 1]]
    BY <1>3 DEF Reverse
  <1>8. \A j \in 1..(n + 1) : (n + 1) - j + 1 \in 1..(n + 1) /\ t[(n + 1) - j + 1] \in S
    <2> TAKE j \in 1..(n + 1)
    <2>1. (n + 1) - j + 1 \in 1..(n + 1)
      BY <1>1
    <2> HIDE DEF n, t
    <2> QED BY <1>3, <2>1, ElementOfSeq
  <1>9. /\ Reverse(t) \in Seq(S) /\ Len(Reverse(t)) = n + 1
        /\ \A j \in 1..(n + 1) : Reverse(t)[j] = t[(n + 1) - j + 1]
    <2> HIDE DEF n, t
    <2> QED BY <1>1, <1>7, <1>8
  <1>10. /\ Append(u, d) \in Seq(S) /\ Len(Append(u, d)) = n + 1
         /\ \A j \in 1..n : Append(u, d)[j] = u[j]
         /\ Append(u, d)[n + 1] = d
    <2> HIDE DEF n, u
    <2> QED BY <1>6, AppendProperties
  <1>11. \A j \in 1..(n + 1) : Reverse(t)[j] = Append(u, d)[j]
    <2> TAKE j \in 1..(n + 1)
    <2> HIDE DEF n, t, u
    <2>1. CASE j = n + 1
      <3>1. (n + 1) - j + 1 = 1 /\ 1 \in 1..(n + 1)
        BY <1>1, <2>1
      <3>2. t[1] = d
        BY <1>2, <1>3, <3>1
      <3> QED BY <1>9, <1>10, <2>1, <3>1, <3>2
    <2>2. CASE j # n + 1
      <3>1. /\ j \in 1..n /\ (n + 1) - j + 1 \in 1..(n + 1)
            /\ ~ ((n + 1) - j + 1 <= 1) /\ (n + 1) - j + 1 - 1 = n - j + 1
        BY <1>1, <2>2
      <3>2. t[(n + 1) - j + 1] = s[n - j + 1]
        BY <1>3, <3>1
      <3> QED BY <1>6, <1>9, <1>10, <3>1, <3>2
    <2> QED BY <2>1, <2>2
  <1>12. Reverse(t) = Append(u, d)
    <2> HIDE DEF n, t, u
    <2> QED BY <1>9, <1>10, <1>11, SeqEqual
  <1> QED BY <1>6, <1>12

LEMMA ReverseOne ==
  ASSUME NEW S, NEW d \in S
  PROVE  Reverse(<<d>>) = <<d>>
  <1>1. <<>> \in Seq(S) /\ <<d>> \in Seq(S) /\ Len(<<>>) = 0
    OBVIOUS
  <1>2. Reverse(<<>>) \in Seq(S) /\ Len(Reverse(<<>>)) = 0
    BY <1>1, ReverseCons
  <1>3. Reverse(<<>>) = <<>>
    BY <1>2
  <1>4. <<d>> \o <<>> = <<d>> /\ Append(<<>>, d) = <<d>>
    BY <1>1, ConcatEmptySeq
  <1> QED BY <1>1, <1>3, <1>4, ReverseCons

LEMMA Digits ==
  ASSUME NEW n \in Nat, NEW base \in {10, 16}
  PROVE  Reverse(Buffer(n, base)) = Numeral(n, base) /\ Numeral(n, base) \in Seq(Bytes)
  <1>1. PICK num \in [0..n -> Seq(Bytes)] : IsNumeral(num, n, base) /\ Numeral(n, base) = num[n]
    BY Counting
  <1>2. PICK from \in [0..n -> Seq(Bytes)] :
          IsFilling(from, n, base) /\ (n # 0 => Buffer(n, base) = from[n])
    BY Buffered
  <1>3. \A k \in 0..n : num[k] = IF k < base THEN <<Digit(k)>>
                                 ELSE Append(num[k \div base], Digit(k % base))
    BY <1>1 DEF IsNumeral
  <1>4. \A k \in 0..n :
          from[k] = IF k = 0 THEN <<>> ELSE <<Digit(k % base)>> \o from[k \div base]
    BY <1>2 DEF IsFilling
  <1> DEFINE T == {k \in 1..n : Reverse(from[k]) # num[k]}
  <1>5. ASSUME T # {} PROVE FALSE
    <2>1. PICK k \in T : \A j \in T : k <= j
      <3>1. T \subseteq Nat
        OBVIOUS
      <3> HIDE DEF T
      <3> QED BY <1>5, <3>1, Least
    <2>2. PICK q : q = k \div base
      OBVIOUS
    <2>3. k \in 1..n /\ k \in Nat
      BY <2>1
    <2>4. /\ q \in Nat /\ q < k /\ k % base \in 0..15
          /\ k < base => q = 0 /\ k % base = k
          /\ k >= base => q >= 1
      BY <2>2, <2>3, Shorter
    <2>5. PICK d \in Bytes : d = Digit(k % base)
      BY <2>4, DigitByte
    <2>6. PICK s \in Seq(Bytes) : s = from[q]
      <3>1. q \in 0..n
        BY <2>3, <2>4
      <3> QED BY <1>2, <3>1
    <2>7. from[k] = <<d>> \o s
      <3>1. k \in 0..n /\ k # 0
        BY <2>3
      <3>2. from[k] = <<Digit(k % base)>> \o from[k \div base]
        BY <1>4, <3>1
      <3> QED BY <2>2, <2>5, <2>6, <3>2
    <2>8. CASE k < base
      <3>1. num[k] = <<d>>
        <4>1. k \in 0..n /\ k % base = k
          BY <2>3, <2>4, <2>8
        <4>2. num[k] = <<Digit(k)>>
          BY <1>3, <2>8, <4>1
        <4> QED BY <2>5, <4>1, <4>2
      <3>2. s = <<>>
        <4>1. q = 0 /\ 0 \in 0..n
          BY <2>3, <2>4, <2>8
        <4> QED BY <1>4, <2>6, <4>1
      <3>3. from[k] = <<d>>
        <4>1. <<d>> \in Seq(Bytes)
          BY <2>5
        <4> QED BY <2>7, <3>2, <4>1, ConcatEmptySeq
      <3>4. Reverse(from[k]) = num[k]
        BY <2>5, <3>1, <3>3, ReverseOne
      <3> QED BY <2>1, <3>4
    <2>9. CASE ~ (k < base)
      <3>1. k \in 0..n /\ k >= base
        BY <2>3, <2>9
      <3>2. q \in 1..n /\ q \notin T
        BY <2>1, <2>3, <2>4, <3>1
      <3>3. Reverse(s) = num[q]
        BY <2>6, <3>2
      <3>4. num[k] = Append(num[q], d)
        <4>1. num[k] = Append(num[k \div base], Digit(k % base))
          BY <1>3, <2>9, <3>1
        <4> QED BY <2>2, <2>5, <4>1
      <3>5. Reverse(from[k]) = num[k]
        <4>1. Reverse(<<d>> \o s) = Append(Reverse(s), d)
          BY <2>5, ReverseCons
        <4> QED BY <2>7, <3>3, <3>4, <4>1
      <3> QED BY <2>1, <3>5
    <2> QED BY <2>8, <2>9
  <1>6. n # 0 => Reverse(Buffer(n, base)) = Numeral(n, base)
    <2>1. n # 0 => n \in 1..n
      OBVIOUS
    <2> QED BY <1>1, <1>2, <1>5, <2>1
  <1>7. n = 0 => Reverse(Buffer(n, base)) = Numeral(n, base)
    <2>1. SUFFICES ASSUME n = 0 PROVE Reverse(Buffer(n, base)) = Numeral(n, base)
      OBVIOUS
    <2>2. Buffer(n, base) = <<48>> /\ 48 \in Nat
      BY <2>1 DEF Buffer
    <2>3. num[n] = <<Digit(0)>>
      <3>1. 0 \in 0..n /\ 0 < base
        BY <2>1
      <3> QED BY <1>3, <2>1, <3>1
    <2>4. Digit(0) = 48
      BY DEF Digit
    <2> QED BY <1>1, <2>2, <2>3, <2>4, ReverseOne
  <1>8. num[n] \in Seq(Bytes)
    BY <1>1
  <1> QED BY <1>1, <1>6, <1>7, <1>8

-----------------------------------------------------------------------------
(* A number of printf.                                                     *)

LEMMA Small ==
  ASSUME NEW w \in Nat \ {0}, NEW x \in 0..(w - 1)
  PROVE  x % w = x
  <1> DEFINE q == x \div w
             r == x % w
  <1>1. q \in Int /\ r \in 0..(w - 1) /\ x = w * q + r
    OBVIOUS
  <1>2. ASSUME q >= 1 PROVE FALSE
    <2>1. w * q >= w
      BY <1>1, <1>2
    <2> QED BY <1>1, <2>1
  <1>3. ASSUME q <= -1 PROVE FALSE
    <2>1. w * q <= -w
      BY <1>1, <1>3
    <2> QED BY <1>1, <2>1
  <1>4. q = 0
    BY <1>1, <1>2, <1>3
  <1>5. w * 0 = 0
    OBVIOUS
  <1> QED BY <1>1, <1>4, <1>5

LEMMA Wrapped ==
  ASSUME NEW w \in Nat \ {0}, NEW x \in Int
  PROVE  x % w \in Nat
  OBVIOUS

\* What is put out for a number is its numeral, the sign included.
LEMMA Decimal ==
  ASSUME NEW x \in Ints
  PROVE  /\ (IF x < 0 /\ 10 = 10 THEN <<45>> ELSE <<>>)
               \o Reverse(Buffer(Magnitude(x, 10), 10)) = IntText(x, 10)
         /\ IntText(x, 10) \in Seq(Bytes)
  <1>1. x \in Int /\ Word \in Nat \ {0} /\ x >= -(Word \div 2) /\ x < Word \div 2
    BY LibcAssumption
  <1>2. CASE x < 0
    <2>1. PICK y \in Nat : y = -x
      BY <1>1, <1>2
    <2>2. y \in 0..(Word - 1)
      <3>1. PICK h \in Int : h = Word \div 2
        BY <1>1
      <3>2. 2 * h <= Word
        BY <1>1, <3>1
      <3> QED BY <1>1, <1>2, <2>1, <3>1, <3>2
    <2>3. Magnitude(x, 10) = y
      BY <1>1, <1>2, <2>1, <2>2, Small DEF Magnitude
    <2>4. IntText(x, 10) = <<45>> \o Numeral(y, 10)
      BY <1>2, <2>1 DEF IntText
    <2>5. Reverse(Buffer(y, 10)) = Numeral(y, 10) /\ Numeral(y, 10) \in Seq(Bytes)
      BY Digits
    <2>6. <<45>> \in Seq(Bytes)
      BY DEF Bytes
    <2>7. <<45>> \o Numeral(y, 10) \in Seq(Bytes)
      BY <2>5, <2>6, ConcatProperties
    <2> QED BY <1>2, <2>3, <2>4, <2>5, <2>7
  <1>3. CASE ~ (x < 0)
    <2>1. x \in Nat /\ x \in 0..(Word - 1)
      <3>1. PICK h \in Int : h = Word \div 2
        BY <1>1
      <3>2. 2 * h <= Word
        BY <1>1, <3>1
      <3> QED BY <1>1, <1>3, <3>1, <3>2
    <2>2. Magnitude(x, 10) = x
      BY <1>1, <1>3, <2>1, Small DEF Magnitude
    <2>3. IntText(x, 10) = Numeral(x, 10)
      BY <1>3 DEF IntText
    <2>4. Reverse(Buffer(x, 10)) = Numeral(x, 10) /\ Numeral(x, 10) \in Seq(Bytes)
      BY <2>1, Digits
    <2>5. <<>> \o Numeral(x, 10) = Numeral(x, 10)
      BY <2>4, ConcatEmptySeq
    <2> QED BY <1>3, <2>2, <2>3, <2>4, <2>5
  <1> QED BY <1>2, <1>3

LEMMA Hexadecimal ==
  ASSUME NEW x \in Ints
  PROVE  /\ (IF x < 0 /\ 16 = 10 THEN <<45>> ELSE <<>>)
               \o Reverse(Buffer(Magnitude(x, 16), 16)) = IntText(x, 16)
         /\ IntText(x, 16) \in Seq(Bytes)
  <1>1. x \in Int /\ Word \in Nat \ {0} /\ x >= -(Word \div 2) /\ x < Word \div 2
    BY LibcAssumption
  <1>2. PICK y \in Nat : y = x % Word
    BY <1>1, Wrapped
  <1>3. Magnitude(x, 16) = y /\ IntText(x, 16) = Numeral(y, 16)
    BY <1>2 DEF Magnitude, IntText
  <1>4. Reverse(Buffer(y, 16)) = Numeral(y, 16) /\ Numeral(y, 16) \in Seq(Bytes)
    BY Digits
  <1>5. <<>> \o Numeral(y, 16) = Numeral(y, 16)
    BY <1>4, ConcatEmptySeq
  <1> QED BY <1>3, <1>4, <1>5

-----------------------------------------------------------------------------
(* Reading a format.                                                       *)

Args == Int \cup Seq(Bytes)
Readings == [text : Seq(Bytes), used : Nat, mode : {"text", "percent", "rest"}]

\* g is how the first m characters of f read with the arguments vals.
Reads(g, f, vals, m) ==
  /\ g[0] = Unread
  /\ \A k \in 1..m : g[k] = Read(g[k - 1], f[k], vals)
  /\ \A k \in 0..m : g[k] \in Readings /\ g[k].used <= Len(vals)

LEMMA Unfold ==
  ASSUME NEW g, Len(fmt) \in Nat, Reads(g, fmt, args, Len(fmt))
  PROVE  Expected = Said(g[Len(fmt)])
  <1> DEFINE n == Len(fmt)
             IsReading(h) ==
               h = [k \in 0..n |-> IF k = 0 THEN Unread ELSE Read(h[k - 1], fmt[k], args)]
             all == [k \in 0..n |-> g[k]]
  <1>1. IsReading(all)
    <2> HIDE DEF all
    <2>1. ASSUME NEW k \in 0..n
          PROVE  all[k] = IF k = 0 THEN Unread ELSE Read(all[k - 1], fmt[k], args)
      <3>1. all[k] = g[k] /\ (k # 0 => k \in 1..n /\ all[k - 1] = g[k - 1])
        BY DEF all
      <3> QED BY <3>1 DEF Reads
    <2>2. all = [k \in 0..n |-> all[k]]
      BY DEF all
    <2> QED BY <2>1, <2>2
  <1> DEFINE r == CHOOSE h : IsReading(h)
  <1>2. IsReading(r)
    <2> HIDE DEF IsReading, all
    <2> QED BY <1>1
  <1>3. Expected = Said(r[n])
    BY DEF Expected
  <1> HIDE DEF r
  <1>4. /\ r[0] = Unread
        /\ \A k \in 1..n : r[k] = Read(r[k - 1], fmt[k], args)
    <2>1. 0 \in 0..n /\ \A k \in 1..n : k \in 0..n /\ k # 0
      OBVIOUS
    <2> HIDE DEF n
    <2> QED BY <1>2, <2>1
  <1> DEFINE S == {k \in 0..n : r[k] = g[k]}
  <1>5. 0 \in S
    BY <1>4 DEF Reads
  <1>6. ASSUME NEW k \in 0..(n - 1), k \in S PROVE k + 1 \in S
    <2>1. k + 1 \in 1..n /\ k + 1 - 1 = k
      OBVIOUS
    <2>2. r[k + 1] = Read(r[k], fmt[k + 1], args) /\ g[k + 1] = Read(g[k], fmt[k + 1], args)
      BY <1>4, <2>1 DEF Reads
    <2> QED BY <1>6, <2>1, <2>2
  <1>7. \A k \in 0..n : k \in S
    <2> HIDE DEF S
    <2> QED BY <1>5, <1>6, Induction
  <1>8. r[n] = g[n]
    BY <1>7
  <1> QED BY <1>3, <1>8

\* An argument more changes nothing of what is read.
LEMMA OneArgument ==
  ASSUME NEW g, NEW f, NEW vals \in Seq(Args), NEW a \in Args, NEW m \in Nat,
         Reads(g, f, vals, m)
  PROVE  Reads(g, f, Append(vals, a), m)
  <1>1. PICK more : more = Append(vals, a)
    OBVIOUS
  <1>2. PICK l \in Nat :
          l = Len(vals) /\ Len(more) = l + 1 /\ \A j \in 1..l : more[j] = vals[j]
    <2>1. /\ Len(Append(vals, a)) = Len(vals) + 1
          /\ \A j \in 1..Len(vals) : Append(vals, a)[j] = vals[j]
      BY AppendProperties
    <2>2. Len(vals) \in Nat
      BY LenProperties
    <2> QED BY <1>1, <2>1, <2>2, Zenon
  <1>3. ASSUME NEW k \in 1..m
        PROVE  g[k] = Read(g[k - 1], f[k], more)
    <2>1. PICK u, v : u = g[k - 1] /\ v = g[k]
      OBVIOUS
    <2>2. u \in Readings /\ v \in Readings /\ v.used <= Len(vals) /\ v = Read(u, f[k], vals)
      <3>1. k \in 0..m /\ k - 1 \in 0..m
        OBVIOUS
      <3> QED BY <2>1, <3>1, Zenon DEF Reads
    <2>3. CASE u.mode = "percent" /\ f[k] \in {99, 100, 115, 120}
      <3>1. v = Reading(u.text \o Shown(f[k], vals[u.used + 1]), u.used + 1, "text")
        BY <2>2, <2>3 DEF Read
      <3>2. v.used = u.used + 1
        BY <3>1 DEF Reading
      <3>3. u.used + 1 \in 1..l
        <4>1. PICK x \in Nat : x = u.used
          BY <2>2 DEF Readings
        <4>2. x + 1 <= l
          BY <1>2, <2>2, <3>2, <4>1
        <4> QED BY <4>1, <4>2
      <3>4. more[u.used + 1] = vals[u.used + 1]
        BY <1>2, <3>3
      <3>5. Read(u, f[k], more) = Reading(u.text \o Shown(f[k], more[u.used + 1]), u.used + 1, "text")
        BY <2>3 DEF Read
      <3> QED BY <2>1, <3>1, <3>4, <3>5
    <2>4. CASE ~ (u.mode = "percent" /\ f[k] \in {99, 100, 115, 120})
      <3>1. Read(u, f[k], more) = Read(u, f[k], vals)
        BY <2>4, Zenon DEF Read
      <3> QED BY <2>1, <2>2, <3>1
    <2> QED BY <2>3, <2>4
  <1>4. \A k \in 0..m : g[k] \in Readings /\ g[k].used <= Len(more)
    <2> TAKE k \in 0..m
    <2>1. g[k] \in Readings /\ g[k].used <= Len(vals)
      BY DEF Reads
    <2>2. PICK x \in Nat : x = g[k].used
      BY <2>1 DEF Readings
    <2>3. x <= l
      BY <1>2, <2>1, <2>2, Zenon
    <2>4. x <= l + 1
      BY <2>3
    <2> QED BY <1>2, <2>1, <2>2, <2>4, Zenon
  <1>5. g[0] = Unread
    BY DEF Reads
  <1> QED BY <1>1, <1>3, <1>4, <1>5 DEF Reads

\* Reading on up to character m, as h has it.
ReadsTo(f, vals, m, u) == \E g : Reads(g, f, vals, m) /\ g[m] = u
ReadsOn(h, g, f, vals, k, m, u) ==
  /\ h[k] = g[k] /\ h[m] = u
  /\ \A j \in (k + 1)..m :
       h[j] = Read(h[j - 1], f[j], vals) /\ h[j] \in Readings /\ h[j].used <= Len(vals)

LEMMA ReadOn ==
  ASSUME NEW g, NEW f, NEW vals, NEW h, NEW k \in Nat, NEW m \in Nat, NEW u,
         k <= m, Reads(g, f, vals, k), ReadsOn(h, g, f, vals, k, m, u)
  PROVE  ReadsTo(f, vals, m, u)
  <1> USE DEF ReadsOn
  <1>1. PICK on : on = [j \in 0..m |-> IF j <= k THEN g[j] ELSE h[j]]
    OBVIOUS
  <1>2. /\ \A j \in 0..k : on[j] = g[j]
        /\ \A j \in k..m : on[j] = h[j]
    <2>1. ASSUME NEW j \in 0..k PROVE on[j] = g[j]
      <3>1. j \in 0..m /\ j <= k
        OBVIOUS
      <3> QED BY <1>1, <3>1
    <2>2. ASSUME NEW j \in k..m PROVE on[j] = h[j]
      <3>1. j \in 0..m /\ (j = k \/ ~ (j <= k))
        OBVIOUS
      <3> QED BY <1>1, <3>1
    <2> QED BY <2>1, <2>2
  <1>3. ASSUME NEW j \in 1..m
        PROVE  on[j] = Read(on[j - 1], f[j], vals) /\ on[j] \in Readings /\ on[j].used <= Len(vals)
    <2>1. CASE j <= k
      <3>1. j \in 1..k /\ j \in 0..k /\ j - 1 \in 0..k
        BY <2>1
      <3>2. on[j] = g[j] /\ on[j - 1] = g[j - 1]
        BY <1>2, <3>1
      <3> QED BY <3>1, <3>2 DEF Reads
    <2>2. CASE ~ (j <= k)
      <3>1. j \in (k + 1)..m /\ j \in k..m /\ j - 1 \in k..m
        BY <2>2
      <3>2. on[j] = h[j] /\ on[j - 1] = h[j - 1]
        BY <1>2, <3>1
      <3> QED BY <3>1, <3>2
    <2> QED BY <2>1, <2>2
  <1>4. on[0] = Unread /\ Unread \in Readings /\ on[0] \in Readings /\ on[0].used <= Len(vals)
    <2>1. 0 \in 0..k /\ on[0] = g[0]
      BY <1>2
    <2> QED BY <2>1 DEF Reads
  <1>5. Reads(on, f, vals, m)
    <2>1. \A j \in 0..m : j = 0 \/ j \in 1..m
      OBVIOUS
    <2> QED BY <1>3, <1>4, <2>1 DEF Reads
  <1>6. m \in k..m
    OBVIOUS
  <1>7. on[m] = u
    BY <1>2, <1>6
  <1> QED BY <1>5, <1>7, Zenon DEF ReadsTo

LEMMA ReadingFields ==
  ASSUME NEW t, NEW used, NEW mo
  PROVE  /\ Reading(t, used, mo).text = t
         /\ Reading(t, used, mo).used = used
         /\ Reading(t, used, mo).mode = mo
  BY DEF Reading

LEMMA ReadingType ==
  ASSUME NEW t \in Seq(Bytes), NEW used \in Nat, NEW mo \in {"text", "percent", "rest"}
  PROVE  Reading(t, used, mo) \in Readings
  BY DEF Reading, Readings

\* Reading text, or what comes behind a directive that is not known.
LEMMA ReadPlain ==
  \A t, used, ch, vals : \A mo \in {"text", "rest"} :
    mo = "rest" \/ ch # Percent =>
      Read(Reading(t, used, mo), ch, vals) = Reading(Append(t, ch), used, mo)
  <1> TAKE t, used, ch, vals
  <1> TAKE mo \in {"text", "rest"}
  <1> HAVE mo = "rest" \/ ch # Percent
  <1>1. PICK u : u = Reading(t, used, mo)
    OBVIOUS
  <1>2. u.text = t /\ u.used = used /\ u.mode = mo /\ mo # "percent"
    BY <1>1, ReadingFields
  <1>3. Read(u, ch, vals) =
          Reading(Append(u.text, ch), u.used, IF u.mode = "rest" THEN "rest" ELSE "text")
    <2>1. ~ (u.mode = "text" /\ ch = Percent) /\ u.mode # "percent"
      BY <1>2
    <2> QED BY <2>1, Zenon DEF Read
  <1>4. (IF u.mode = "rest" THEN "rest" ELSE "text") = mo
    BY <1>2
  <1> QED BY <1>1, <1>2, <1>3, <1>4, Zenon

\* The text up to character j is the text before it with f[j] behind it.
LastChar(pre, f, k, j) ==
  \E r \in Seq(Bytes), e \in Bytes :
    /\ r = SubSeq(f, k + 1, j - 1) /\ e = f[j]
    /\ Append(pre \o r, e) = pre \o SubSeq(f, k + 1, j)

LEMMA Longer ==
  ASSUME NEW pre \in Seq(Bytes), NEW f \in Seq(Bytes), NEW k \in Nat, NEW j \in Nat,
         k < j, j <= Len(f)
  PROVE  /\ pre \o SubSeq(f, k + 1, j) \in Seq(Bytes)
         /\ Len(pre \o SubSeq(f, k + 1, j)) = Len(pre) + (j - k)
         /\ LastChar(pre, f, k, j)
         /\ k + 1 = j => pre \o SubSeq(f, k + 1, j) = Append(pre, f[j])
  <1>0. PICK l \in Nat : l = Len(f)
    BY LenProperties
  <1>1. j \in 1..l /\ k + 1 \in 1..l /\ j \in (k + 1)..l
    BY <1>0
  <1>2. PICK e \in Bytes : e = f[j]
    BY <1>0, <1>1, ElementOfSeq
  <1>3. ASSUME NEW o \in Nat, k <= o, o <= l
        PROVE  SubSeq(f, k + 1, o) \in Seq(Bytes) /\ Len(SubSeq(f, k + 1, o)) = o - k
    <2>1. \A x \in (k + 1)..o : f[x] \in Bytes
      <3> TAKE x \in (k + 1)..o
      <3>1. x \in 1..l
        BY <1>3
      <3> QED BY <1>0, <3>1, ElementOfSeq
    <2>2. SubSeq(f, k + 1, o) \in Seq(Bytes)
      BY <2>1, SubSeqProperties
    <2>3. Len(SubSeq(f, k + 1, o)) = IF k + 1 <= o THEN o - (k + 1) + 1 ELSE 0
      BY <2>1, SubSeqProperties
    <2>4. (IF k + 1 <= o THEN o - (k + 1) + 1 ELSE 0) = o - k
      BY <1>3
    <2> QED BY <2>2, <2>3, <2>4
  <1>4. PICK s \in Seq(Bytes) : s = SubSeq(f, k + 1, j) /\ Len(s) = j - k
    <2>1. j <= l /\ k <= j
      BY <1>1
    <2> QED BY <1>3, <2>1
  <1>5. PICK r \in Seq(Bytes) : r = SubSeq(f, k + 1, j - 1)
    <2>1. j - 1 \in Nat /\ k <= j - 1 /\ j - 1 <= l
      BY <1>1
    <2> QED BY <1>3, <2>1
  <1>6. s = r \o <<e>>
    BY <1>0, <1>1, <1>2, <1>4, <1>5, SubSeqRecursiveSecond
  <1>7. <<e>> \in Seq(Bytes)
    BY <1>2
  <1>8. (pre \o r) \o <<e>> = pre \o s
    BY <1>6, <1>7, ConcatAssociative
  <1>9. Append(pre \o r, e) = (pre \o r) \o <<e>>
    <2>1. pre \o r \in Seq(Bytes)
      BY ConcatProperties
    <2> QED BY <2>1, AppendIsConcat
  <1>10. k + 1 = j => pre \o s = Append(pre, e)
    <2>1. SUFFICES ASSUME k + 1 = j PROVE pre \o s = Append(pre, e)
      OBVIOUS
    <2>2. r = <<>>
      <3>1. j - 1 < k + 1 /\ k + 1 \in Int /\ j - 1 \in Int
        BY <2>1
      <3> QED BY <1>5, <3>1, SubSeqEmpty
    <2>3. pre \o r = pre
      BY <2>2, ConcatEmptySeq
    <2> QED BY <1>8, <1>9, <2>3
  <1>11. pre \o s \in Seq(Bytes) /\ Len(pre \o s) = Len(pre) + Len(s)
    BY ConcatProperties
  <1>12. LastChar(pre, f, k, j)
    BY <1>2, <1>4, <1>5, <1>8, <1>9, Zenon DEF LastChar
  <1> QED BY <1>2, <1>4, <1>10, <1>11, <1>12

\* A stretch of text: its first character makes of u the text pre with that
\* character behind it, and the others are not read as the start of a directive.
Starts(u, f, vals, k, pre, mo) ==
  Read(u, f[k + 1], vals) = Reading(Append(pre, f[k + 1]), u.used, mo)
Ordinary(f, k, m, mo) == \A j \in (k + 2)..m : mo = "rest" \/ f[j] # Percent
With(u, t, mo) == Reading(t, u.used, mo)

LEMMA ReadText ==
  ASSUME NEW f \in Seq(Bytes), NEW vals, NEW k \in Nat, NEW m \in Nat, k < m, NEW u,
         ReadsTo(f, vals, k, u), m <= Len(f), Len(vals) \in Nat,
         NEW pre \in Seq(Bytes), NEW mo \in {"text", "rest"},
         Starts(u, f, vals, k, pre, mo), Ordinary(f, k, m, mo)
  PROVE  /\ With(u, pre \o SubSeq(f, k + 1, m), mo) \in Readings
         /\ ReadsTo(f, vals, m, With(u, pre \o SubSeq(f, k + 1, m), mo))
  <1> PICK g : Reads(g, f, vals, k) /\ g[k] = u
    BY Zenon DEF ReadsTo
  <1> Read(g[k], f[k + 1], vals) = Reading(Append(pre, f[k + 1]), g[k].used, mo)
    BY Zenon DEF Starts
  <1> \A j \in (k + 2)..m : mo = "rest" \/ f[j] # Percent
    BY Zenon DEF Ordinary
  <1>1. PICK x \in Nat : x = g[k].used /\ x <= Len(vals)
    <2>1. k \in 0..k
      OBVIOUS
    <2>2. g[k] \in Readings /\ g[k].used <= Len(vals)
      BY <2>1 DEF Reads
    <2>3. g[k].used \in Nat
      BY <2>2 DEF Readings
    <2> QED BY <2>2, <2>3
  <1>2. PICK h : h = [j \in k..m |->
                        IF j = k THEN g[k]
                        ELSE Reading(pre \o SubSeq(f, k + 1, j), x, mo)]
    OBVIOUS
  <1>3. /\ h[k] = g[k]
        /\ \A j \in (k + 1)..m :
             h[j] = Reading(pre \o SubSeq(f, k + 1, j), x, mo)
    <2>1. k \in k..m /\ \A j \in (k + 1)..m : j \in k..m /\ j # k
      OBVIOUS
    <2> QED BY <1>2, <2>1
  <1>4. PICK l \in Nat : l = Len(f) /\ m <= l
    BY LenProperties
  <1>5. ASSUME NEW j \in (k + 1)..m
        PROVE  h[j] = Read(h[j - 1], f[j], vals) /\ h[j] \in Readings /\ h[j].used <= Len(vals)
    <2>1. j \in Nat /\ k < j /\ j <= Len(f)
      BY <1>4
    <2>2. PICK t \in Seq(Bytes) : t = pre \o SubSeq(f, k + 1, j)
      BY <2>1, Longer
    <2>3. h[j] = Reading(t, x, mo)
      BY <1>3, <2>2
    <2>4. h[j] \in Readings /\ h[j].used <= Len(vals)
      <3>1. mo \in {"text", "percent", "rest"}
        OBVIOUS
      <3>2. Reading(t, x, mo) \in Readings /\ Reading(t, x, mo).used = x
        BY <3>1, ReadingFields, ReadingType
      <3> QED BY <1>1, <2>3, <3>2, Zenon
    <2>5. CASE j = k + 1
      <3>1. j - 1 = k
        BY <2>5
      <3>2. t = Append(pre, f[j])
        BY <2>1, <2>2, <2>5, Longer
      <3>3. Read(h[j - 1], f[j], vals) = Reading(Append(pre, f[j]), x, mo)
        <4>1. h[j - 1] = g[k] /\ f[j] = f[k + 1]
          BY <1>3, <2>5, <3>1
        <4> QED BY <1>1, <4>1, Zenon
      <3> QED BY <2>3, <2>4, <3>2, <3>3
    <2>6. CASE j # k + 1
      <3>1. /\ j - 1 \in (k + 1)..m /\ j \in (k + 2)..m
            /\ k + 1 < j /\ j - 1 \in Nat /\ k < j - 1 /\ j - 1 <= Len(f)
        BY <1>4, <2>6
      <3>2. PICK r \in Seq(Bytes), e \in Bytes :
              /\ r = SubSeq(f, k + 1, j - 1) /\ e = f[j]
              /\ Append(pre \o r, e) = pre \o SubSeq(f, k + 1, j)
        <4>1. LastChar(pre, f, k, j)
          BY <2>1, Longer
        <4> QED BY <4>1, Zenon DEF LastChar
      <3>3. PICK s : s = pre \o r
        OBVIOUS
      <3>4. h[j - 1] = Reading(s, x, mo)
        BY <1>3, <3>1, <3>2, <3>3
      <3>5. mo = "rest" \/ e # Percent
        BY <3>1, <3>2
      <3>6. Read(Reading(s, x, mo), e, vals) = Reading(Append(s, e), x, mo)
        BY <3>5, ReadPlain
      <3>7. Append(s, e) = t
        BY <2>2, <3>2, <3>3, Zenon
      <3> QED BY <2>3, <2>4, <3>2, <3>4, <3>6, <3>7, Zenon
    <2> QED BY <2>5, <2>6
  <1>6. m \in (k + 1)..m /\ k <= m
    OBVIOUS
  <1>7. h[m] = With(u, pre \o SubSeq(f, k + 1, m), mo) /\ h[m] \in Readings
    BY <1>1, <1>3, <1>5, <1>6, Zenon DEF With
  <1>8. ReadsTo(f, vals, m, h[m])
    <2>1. PICK v : v = h[m]
      OBVIOUS
    <2>2. ReadsOn(h, g, f, vals, k, m, v)
      BY <1>3, <1>5, <2>1, Zenon DEF ReadsOn
    <2>3. ReadsTo(f, vals, m, v)
      BY <1>6, <2>2, ReadOn
    <2> QED BY <2>1, <2>3, Zenon
  <1> QED BY <1>7, <1>8, Zenon

\* Reading a directive and the argument it takes.
Letters == {99, 100, 115, 120}
Takes(f, k, ch) == f[k + 1] = Percent /\ f[k + 2] = ch
Awaits(u, vals) == u.mode = "text" /\ u.used = Len(vals)
Behind(u, s) == Reading(u.text \o s, u.used + 1, "text")

LEMMA ReadDirective ==
  ASSUME NEW f, NEW vals \in Seq(Args), NEW k \in Nat, NEW a \in Args,
         NEW ch \in Letters, NEW u \in Readings, ReadsTo(f, vals, k, u),
         Takes(f, k, ch), Awaits(u, vals), Shown(ch, a) \in Seq(Bytes)
  PROVE  /\ Behind(u, Shown(ch, a)) \in Readings
         /\ ReadsTo(f, Append(vals, a), k + 2, Behind(u, Shown(ch, a)))
  <1> PICK g : Reads(g, f, vals, k) /\ g[k] = u
    BY Zenon DEF ReadsTo
  <1>0. f[k + 1] = Percent /\ f[k + 2] = ch
    BY Zenon DEF Takes
  <1> u.mode = "text" /\ u.used = Len(vals)
    BY Zenon DEF Awaits
  <1>1. PICK more : more = Append(vals, a)
    OBVIOUS
  <1>2. PICK l \in Nat : l = Len(vals) /\ Len(more) = l + 1 /\ more[l + 1] = a
    <2>1. Len(Append(vals, a)) = Len(vals) + 1 /\ Append(vals, a)[Len(vals) + 1] = a
      BY AppendProperties
    <2>2. Len(vals) \in Nat
      BY LenProperties
    <2> QED BY <1>1, <2>1, <2>2, Zenon
  <1>3. PICK t \in Seq(Bytes) : t = u.text
    BY DEF Readings
  <1>4. PICK s \in Seq(Bytes) : s = Shown(ch, a)
    OBVIOUS
  <1>5. PICK at : at = Reading(t, l, "percent")
    OBVIOUS
  <1>6. PICK v : v = Reading(t \o s, l + 1, "text")
    OBVIOUS
  <1>7. at \in Readings /\ at.text = t /\ at.used = l /\ at.mode = "percent"
    BY <1>5, ReadingFields, ReadingType
  <1>8. v \in Readings /\ v.used = l + 1
    <2>1. t \o s \in Seq(Bytes)
      BY ConcatProperties
    <2>2. PICK ts \in Seq(Bytes), x \in Nat : ts = t \o s /\ x = l + 1
      <3>1. l + 1 \in Nat
        OBVIOUS
      <3> QED BY <2>1, <3>1, Zenon
    <2>3. Reading(ts, x, "text") \in Readings /\ Reading(ts, x, "text").used = x
      BY ReadingFields, ReadingType
    <2> QED BY <1>6, <2>2, <2>3, Zenon
  <1>9. Read(u, Percent, more) = at
    BY <1>2, <1>3, <1>5, Zenon DEF Read
  <1>10. Read(at, ch, more) = v
    <2>1. Read(at, ch, more) =
            Reading(at.text \o Shown(ch, more[at.used + 1]), at.used + 1, "text")
      <3>1. ~ (at.mode = "text" /\ ch = Percent) /\ at.mode = "percent" /\ ch \in {99, 100, 115, 120}
        BY <1>7 DEF Letters
      <3> QED BY <3>1, Zenon DEF Read
    <2> QED BY <1>2, <1>4, <1>6, <1>7, <2>1, Zenon
  <1>11. PICK h : h = [j \in k..(k + 2) |-> IF j = k THEN u ELSE IF j = k + 1 THEN at ELSE v]
    OBVIOUS
  <1>12. h[k] = u /\ h[k + 1] = at /\ h[k + 2] = v
    BY <1>11
  <1>13. Reads(g, f, more, k)
    BY <1>1, OneArgument
  <1>14. ReadsOn(h, g, f, more, k, k + 2, v)
    <2>1. h[k] = g[k]
      BY <1>12
    <2>2. ASSUME NEW j \in (k + 1)..(k + 2)
          PROVE  h[j] = Read(h[j - 1], f[j], more) /\ h[j] \in Readings /\ h[j].used <= Len(more)
      <3>1. CASE j = k + 1
        <4>0. j - 1 = k
          BY <3>1
        <4>1. h[j] = at /\ h[j - 1] = u /\ f[j] = Percent
          BY <1>0, <1>12, <3>1, <4>0, Zenon
        <4>2. at.used <= Len(more)
          BY <1>2, <1>7
        <4> QED BY <1>7, <1>9, <4>1, <4>2, Zenon
      <3>2. CASE j = k + 2
        <4>0. j - 1 = k + 1
          BY <3>2
        <4>1. h[j] = v /\ h[j - 1] = at /\ f[j] = ch
          BY <1>0, <1>12, <3>2, <4>0, Zenon
        <4>2. v.used <= Len(more)
          BY <1>2, <1>8
        <4> QED BY <1>8, <1>10, <4>1, <4>2, Zenon
      <3>3. j = k + 1 \/ j = k + 2
        OBVIOUS
      <3> QED BY <3>1, <3>2, <3>3, Zenon
    <2> QED BY <1>12, <2>1, <2>2, Zenon DEF ReadsOn
  <1>15. ReadsTo(f, more, k + 2, v)
    BY <1>13, <1>14, ReadOn
  <1>16. v = Behind(u, Shown(ch, a))
    BY <1>2, <1>3, <1>4, <1>6, Zenon DEF Behind
  <1> QED BY <1>1, <1>8, <1>15, <1>16, Zenon

-----------------------------------------------------------------------------
(* The port.                                                               *)

Uarts == [low : Nat, high : Nat, ier : Nat, lcr : Nat, mcr : Nat, thr : Nat, rbr : Nat]

LEMMA WrittenTo ==
  ASSUME chip = "works", NEW u \in Uarts, NEW v \in Nat
  PROVE  /\ Written(u, 0, v) = IF Latch(u) THEN [u EXCEPT !.low = v]
                               ELSE IF Loop(u) THEN [u EXCEPT !.rbr = v]
                               ELSE [u EXCEPT !.thr = v]
         /\ Written(u, 1, v) = IF Latch(u) THEN [u EXCEPT !.high = v] ELSE [u EXCEPT !.ier = v]
         /\ Written(u, 2, v) = [u EXCEPT !.rbr = None, !.thr = None]
         /\ Written(u, 3, v) = [u EXCEPT !.lcr = v]
         /\ Written(u, 4, v) = [u EXCEPT !.mcr = v]
  BY DEF Written


\* What serial_initialize has done to the chip by each of its writes; until the
\* last of them nothing is sent.
Port ==
  /\ chip \in {"works", "absent"} /\ uart \in Uarts /\ setup \in 0..10 /\ line \in Seq(Nat)
  /\ stage = "boot" <=> setup < 10
  /\ stage \in {"boot", "idle"} \/ chip = "absent" => uart.thr = None /\ line = <<>>
  /\ chip = "works" =>
       /\ setup \in 2..4 => uart.lcr = 128
       /\ setup \in 3..10 => uart.low = 3
       /\ setup \in 4..10 => uart.high = 0
       /\ setup \in 5..10 => uart.lcr = 3
       /\ setup \in 8..9 => uart.mcr = 30
       /\ setup = 10 => uart.mcr = 15

LEMMA PortAtFirst ==
  ASSUME LibcInit
  PROVE  Port
  <1>1. PICK l \in {0, 131}, m \in {0, 16} :
          uart = [low |-> 12, high |-> 1, ier |-> 0, lcr |-> l, mcr |-> m, thr |-> None, rbr |-> None]
    BY DEF LibcInit, SerialInit
  <1>2. uart \in Uarts /\ uart.thr = None
    <2>1. l \in Nat /\ m \in Nat /\ None \in Nat
      BY DEF None
    <2> QED BY <1>1, <2>1 DEF Uarts
  <1>3. chip \in {"works", "absent"} /\ setup = 0 /\ line = <<>> /\ stage = "boot"
    BY SerialAssumption DEF LibcInit, SerialInit
  <1> QED BY <1>2, <1>3 DEF Port

LEMMA SetupTo ==
  ASSUME NEW n \in 0..9, setup = n, serial_initialize
  PROVE  /\ setup' = n + 1 /\ chip' = chip /\ line' = line
         /\ n = 0 => uart' = Written(uart, 1, 0)
         /\ n = 1 => uart' = Written(uart, 3, 128)
         /\ n = 2 => uart' = Written(uart, 0, 3)
         /\ n = 3 => uart' = Written(uart, 1, 0)
         /\ n = 4 => uart' = Written(uart, 3, 3)
         /\ n = 5 => uart' = Written(uart, 2, 199)
         /\ n = 6 => uart' = Written(uart, 4, 11)
         /\ n = 7 => uart' = Written(uart, 4, 30)
         /\ n = 8 => uart' = Written(uart, 0, 174)
         /\ n = 9 => uart' = [Written(uart, 4, 15) EXCEPT !.rbr = None]
  <1>1. setup' = n + 1 /\ chip' = chip /\ line' = line
    BY DEF serial_initialize
  <1>2. Len(SetupWrites) = 9
    BY DEF SetupWrites
  <1>3. n < 9 => uart' = Written(uart, SetupWrites[n + 1][1], SetupWrites[n + 1][2])
    BY <1>2 DEF serial_initialize
  <1>4. n = 9 => uart' = [Written(uart, 4, 15) EXCEPT !.rbr = None]
    BY <1>2 DEF serial_initialize
  <1>5. /\ SetupWrites[1] = <<1, 0>> /\ SetupWrites[2] = <<3, 128>> /\ SetupWrites[3] = <<0, 3>>
        /\ SetupWrites[4] = <<1, 0>> /\ SetupWrites[5] = <<3, 3>> /\ SetupWrites[6] = <<2, 199>>
        /\ SetupWrites[7] = <<4, 11>> /\ SetupWrites[8] = <<4, 30>> /\ SetupWrites[9] = <<0, 174>>
    BY DEF SetupWrites, TestByte
  <1>6. ASSUME NEW a, NEW b, NEW j \in 0..8, n = j, SetupWrites[j + 1] = <<a, b>>
        PROVE  uart' = Written(uart, a, b)
    <2>1. PICK w : w = SetupWrites[j + 1]
      OBVIOUS
    <2>2. w = <<a, b>>
      BY <1>6, <2>1
    <2>3. w[1] = a /\ w[2] = b
      BY <2>2
    <2>4. uart' = Written(uart, w[1], w[2])
      BY <1>3, <1>6, <2>1
    <2> QED BY <2>3, <2>4, Zenon
  <1> QED BY <1>1, <1>4, <1>5, <1>6

LEMMA PortSetUp ==
  ASSUME Port, Boot
  PROVE  Port'
  <1>1. PICK n \in 0..9 : setup = n
    BY DEF Port, Boot
  <1>2. serial_initialize /\ stage' = IF setup' > 9 THEN "idle" ELSE "boot"
    <2>1. Len(SetupWrites) = 9
      BY DEF SetupWrites
    <2> QED BY <2>1 DEF Boot
  <1>3. setup' = n + 1 /\ chip' = chip /\ line' = line
    BY <1>1, <1>2, SetupTo
  <1>4. stage' = "boot" <=> setup' < 10
    BY <1>2, <1>3
  <1>5. uart \in Uarts /\ None \in Nat /\ chip \in {"works", "absent"} /\ line = <<>> /\ uart.thr = None
    BY <1>1 DEF Port, None
  <1>6. CASE chip = "absent"
    <2>1. \A r, v : Written(uart, r, v) = uart
      BY <1>6 DEF Written
    <2>2. uart' = uart \/ uart' = [uart EXCEPT !.rbr = None]
      BY <1>1, <1>2, <2>1, SetupTo
    <2>3. uart' \in Uarts /\ uart'.thr = None
      BY <1>5, <2>2 DEF Uarts
    <2> QED BY <1>3, <1>4, <1>5, <1>6, <2>3 DEF Port
  <1>7. CASE chip = "works"
    <2>0. /\ \A v \in Nat : Written(uart, 3, v) = [uart EXCEPT !.lcr = v]
          /\ \A v \in Nat : Written(uart, 4, v) = [uart EXCEPT !.mcr = v]
          /\ \A v \in Nat : Written(uart, 2, v) = [uart EXCEPT !.rbr = None, !.thr = None]
          /\ \A v \in Nat : Written(uart, 1, v) = IF Latch(uart) THEN [uart EXCEPT !.high = v]
                                                ELSE [uart EXCEPT !.ier = v]
          /\ \A v \in Nat : Written(uart, 0, v) = IF Latch(uart) THEN [uart EXCEPT !.low = v]
                                                ELSE IF Loop(uart) THEN [uart EXCEPT !.rbr = v]
                                                ELSE [uart EXCEPT !.thr = v]
      BY <1>5, <1>7, WrittenTo
    <2>1. CASE n = 0
      <3>1. uart' = [uart EXCEPT !.high = 0] \/ uart' = [uart EXCEPT !.ier = 0]
        BY <1>1, <1>2, <2>0, <2>1, SetupTo
      <3>2. /\ uart' \in Uarts /\ uart'.thr = None
            /\ uart'.low = uart.low
        BY <1>5, <3>1 DEF Uarts
      <3> QED BY <1>1, <1>3, <1>4, <1>5, <1>7, <2>1, <3>2 DEF Port
    <2>2. CASE n = 1
      <3>1. uart' = [uart EXCEPT !.lcr = 128]
        BY <1>1, <1>2, <2>0, <2>2, SetupTo
      <3>2. /\ uart' \in Uarts /\ uart'.thr = None
            /\ uart'.lcr = 128
        BY <1>5, <3>1 DEF Uarts
      <3> QED BY <1>1, <1>3, <1>4, <1>5, <1>7, <2>2, <3>2 DEF Port
    <2>3. CASE n = 2
      <3>0. Latch(uart)
        BY <1>1, <1>7, <2>3 DEF Port, Latch, Loop
      <3>1. uart' = [uart EXCEPT !.low = 3]
        BY <1>1, <1>2, <2>0, <2>3, <3>0, SetupTo
      <3>2. /\ uart' \in Uarts /\ uart'.thr = None
            /\ uart'.low = 3 /\ uart'.lcr = uart.lcr
        BY <1>5, <3>1 DEF Uarts
      <3> QED BY <1>1, <1>3, <1>4, <1>5, <1>7, <2>3, <3>2 DEF Port
    <2>4. CASE n = 3
      <3>0. Latch(uart)
        BY <1>1, <1>7, <2>4 DEF Port, Latch, Loop
      <3>1. uart' = [uart EXCEPT !.high = 0]
        BY <1>1, <1>2, <2>0, <2>4, <3>0, SetupTo
      <3>2. /\ uart' \in Uarts /\ uart'.thr = None
            /\ uart'.high = 0 /\ uart'.low = uart.low /\ uart'.lcr = uart.lcr
        BY <1>5, <3>1 DEF Uarts
      <3> QED BY <1>1, <1>3, <1>4, <1>5, <1>7, <2>4, <3>2 DEF Port
    <2>5. CASE n = 4
      <3>1. uart' = [uart EXCEPT !.lcr = 3]
        BY <1>1, <1>2, <2>0, <2>5, SetupTo
      <3>2. /\ uart' \in Uarts /\ uart'.thr = None
            /\ uart'.lcr = 3 /\ uart'.low = uart.low /\ uart'.high = uart.high
        BY <1>5, <3>1 DEF Uarts
      <3> QED BY <1>1, <1>3, <1>4, <1>5, <1>7, <2>5, <3>2 DEF Port
    <2>6. CASE n = 5
      <3>1. uart' = [uart EXCEPT !.rbr = None, !.thr = None]
        BY <1>1, <1>2, <2>0, <2>6, SetupTo
      <3>2. /\ uart' \in Uarts /\ uart'.thr = None
            /\ uart'.low = uart.low /\ uart'.high = uart.high /\ uart'.lcr = uart.lcr
        BY <1>5, <3>1 DEF Uarts
      <3> QED BY <1>1, <1>3, <1>4, <1>5, <1>7, <2>6, <3>2 DEF Port
    <2>7. CASE n = 6
      <3>1. uart' = [uart EXCEPT !.mcr = 11]
        BY <1>1, <1>2, <2>0, <2>7, SetupTo
      <3>2. /\ uart' \in Uarts /\ uart'.thr = None
            /\ uart'.low = uart.low /\ uart'.high = uart.high /\ uart'.lcr = uart.lcr
        BY <1>5, <3>1 DEF Uarts
      <3> QED BY <1>1, <1>3, <1>4, <1>5, <1>7, <2>7, <3>2 DEF Port
    <2>8. CASE n = 7
      <3>1. uart' = [uart EXCEPT !.mcr = 30]
        BY <1>1, <1>2, <2>0, <2>8, SetupTo
      <3>2. /\ uart' \in Uarts /\ uart'.thr = None
            /\ uart'.mcr = 30 /\ uart'.low = uart.low /\ uart'.high = uart.high /\ uart'.lcr = uart.lcr
        BY <1>5, <3>1 DEF Uarts
      <3> QED BY <1>1, <1>3, <1>4, <1>5, <1>7, <2>8, <3>2 DEF Port
    <2>9. CASE n = 8
      <3>0. ~ Latch(uart) /\ Loop(uart)
        BY <1>1, <1>7, <2>9 DEF Port, Latch, Loop
      <3>1. uart' = [uart EXCEPT !.rbr = 174]
        BY <1>1, <1>2, <2>0, <2>9, <3>0, SetupTo
      <3>2. /\ uart' \in Uarts /\ uart'.thr = None
            /\ uart'.low = uart.low /\ uart'.high = uart.high /\ uart'.lcr = uart.lcr /\ uart'.mcr = uart.mcr
        BY <1>5, <3>1 DEF Uarts
      <3> QED BY <1>1, <1>3, <1>4, <1>5, <1>7, <2>9, <3>2 DEF Port
    <2>10. CASE n = 9
      <3>0. PICK w : w = Written(uart, 4, 15)
        OBVIOUS
      <3>1. w = [uart EXCEPT !.mcr = 15] /\ uart' = [w EXCEPT !.rbr = None]
        <4>1. w = [uart EXCEPT !.mcr = 15]
          BY <2>0, <3>0
        <4>2. uart' = [Written(uart, 4, 15) EXCEPT !.rbr = None]
          BY <1>1, <1>2, <2>10, SetupTo
        <4> QED BY <3>0, <4>1, <4>2, Zenon
      <3>2. /\ uart' \in Uarts /\ uart'.thr = None
            /\ uart'.mcr = 15 /\ uart'.low = uart.low /\ uart'.high = uart.high /\ uart'.lcr = uart.lcr
        BY <1>5, <3>1 DEF Uarts
      <3> QED BY <1>1, <1>3, <1>4, <1>5, <1>7, <2>10, <3>2 DEF Port
    <2> QED BY <1>1, <2>1, <2>2, <2>3, <2>4, <2>5, <2>6, <2>7, <2>8, <2>9, <2>10
  <1> QED BY <1>5, <1>6, <1>7

\* Pending comes down to the byte the chip holds.
LEMMA PortPutchar ==
  ASSUME Port, stage = "print", stage' = stage, NEW chr \in Bytes, serial_putchar(chr)
  PROVE  /\ Port' /\ line' = line /\ chip' = chip
         /\ chip = "works" => Pending = <<>> /\ Pending' = <<chr>>
  <1>1. uart' = Written(uart, 0, chr) /\ chip' = chip /\ setup' = setup /\ line' = line
    BY DEF serial_putchar
  <1>2. chr \in Nat /\ chr # None
    BY DEF Bytes, None
  <1>3. CASE chip = "absent"
    <2>1. uart' = uart
      BY <1>1, <1>3 DEF Written
    <2> QED BY <1>1, <1>3, <2>1 DEF Port
  <1>4. CASE chip = "works"
    <2>1. setup = 10 /\ uart \in Uarts
      BY DEF Port
    <2>2. uart.thr = None
      BY <1>4 DEF serial_putchar, is_transmit_empty
    <2>3. ~ Latch(uart) /\ ~ Loop(uart)
      BY <1>4, <2>1 DEF Port, Latch, Loop
    <2>4. uart' = [uart EXCEPT !.thr = chr]
      BY <1>1, <1>2, <1>4, <2>1, <2>3, WrittenTo
    <2>5. /\ uart' \in Uarts /\ uart'.thr = chr
          /\ uart'.low = uart.low /\ uart'.high = uart.high
          /\ uart'.lcr = uart.lcr /\ uart'.mcr = uart.mcr
      BY <1>2, <2>1, <2>4 DEF Uarts
    <2>6. Pending = <<>> /\ Pending' = <<chr>>
      BY <1>2, <2>2, <2>5 DEF Pending
    <2>7. Port'
      BY <1>1, <1>4, <2>1, <2>5 DEF Port
    <2> QED BY <1>1, <2>6, <2>7
  <1> QED BY <1>3, <1>4 DEF Port

LEMMA PortSend ==
  ASSUME Port, Send, stage' = stage
  PROVE  Port' /\ chip' = chip /\ line' \o Pending' = line \o Pending
  <1>1. PICK b : b = uart.thr
    OBVIOUS
  <1>2. uart \in Uarts /\ b \in Nat /\ b # None /\ line \in Seq(Nat)
    BY <1>1 DEF Port, Uarts, Send
  <1>3. chip = "works" /\ setup = 10 /\ stage \notin {"boot", "idle"}
    BY <1>1, <1>2 DEF Port
  <1>4. line' = Append(line, b)
    BY <1>1, <1>3 DEF Send, Port
  <1>5. uart' = [uart EXCEPT !.thr = None] /\ chip' = chip /\ setup' = setup
    BY DEF Send
  <1>6. /\ uart' \in Uarts /\ uart'.thr = None
        /\ uart'.low = uart.low /\ uart'.high = uart.high
        /\ uart'.lcr = uart.lcr /\ uart'.mcr = uart.mcr
    <2>1. None \in Nat
      BY DEF None
    <2> QED BY <1>2, <1>5, <2>1 DEF Uarts
  <1>7. line' \in Seq(Nat)
    BY <1>2, <1>4
  <1>8. Port'
    BY <1>3, <1>5, <1>6, <1>7 DEF Port
  <1>9. Pending = <<b>> /\ Pending' = <<>>
    BY <1>1, <1>2, <1>6 DEF Pending
  <1>10. line' \o <<>> = line'
    BY <1>7, ConcatEmptySeq
  <1>11. line' = line \o <<b>>
    BY <1>2, <1>4, AppendIsConcat
  <1> QED BY <1>5, <1>8, <1>9, <1>10, <1>11

-----------------------------------------------------------------------------
(* What printf has put out.                                                *)

PrintfTyped ==
  /\ fmt \in Seq(Bytes \ {0}) /\ format \in Nat /\ format <= Len(fmt)
  /\ args \in Seq(Args) /\ data \in Seq(Bytes) /\ written \in Nat
  /\ stage \in {"boot", "idle", "format", "print", "done"}

\* u is how the format has been read up to here: what has been sent, what the
\* chip holds and what is still to be put out say the same.
Told(g, u) ==
  /\ Reads(g, fmt, args, format) /\ u = g[format] /\ u \in Readings
  /\ u.mode = "text" \/ format = Len(fmt)
  /\ u.used = Len(args)
  /\ written + Len(data) = Len(Said(u))
  /\ chip = "works" => (line \o Pending) \o data = Said(u)

Telling == stage \in {"format", "print", "done"} => \E g, u : Told(g, u)

PrintfInv ==
  /\ PrintfTyped
  /\ Port
  /\ stage \in {"boot", "idle"} => format = 0 /\ args = <<>> /\ written = 0
  /\ stage # "print" => data = <<>>
  /\ stage = "done" => format = Len(fmt)
  /\ Telling

LEMMA AtChar ==
  ASSUME PrintfTyped, NEW k \in Nat
  PROVE  /\ At(k) = 0 <=> format + k >= Len(fmt)
         /\ format + k < Len(fmt) => At(k) = fmt[format + k + 1] /\ At(k) \in Bytes \ {0}
  <1>1. PICK l \in Nat : l = Len(fmt)
    BY LenProperties DEF PrintfTyped
  <1>2. ASSUME format + k < l
        PROVE  fmt[format + k + 1] \in Bytes \ {0}
    <2>1. format + k + 1 \in 1..l
      BY <1>1, <1>2 DEF PrintfTyped
    <2> QED BY <1>1, <2>1, ElementOfSeq DEF PrintfTyped
  <1> QED BY <1>1, <1>2 DEF PrintfTyped, At, Bytes

\* What an action of printf puts out has been read.
AtText(g, u) == Told(g, u) /\ u.mode = "text"
Leads(on, v, u, s, n) ==
  /\ Reads(on, fmt, args', format + n) /\ on[format + n] = v /\ v \in Readings
  /\ v.used = Len(args') /\ Said(v) = u.text \o s
  /\ v.mode = "text" \/ format + n = Len(fmt)

LEMMA Putting ==
  ASSUME PrintfTyped, Port, NEW g, NEW u, AtText(g, u), data = <<>>, stage = "format",
         NEW s \in Seq(Bytes), NEW n \in Nat, Put(s, n), args' \in Seq(Args),
         format + n <= Len(fmt), NEW on, NEW v, Leads(on, v, u, s, n)
  PROVE  PrintfInv'
  <1> Told(g, u) /\ u.mode = "text"
    BY Zenon DEF AtText
  <1> /\ Reads(on, fmt, args', format + n) /\ on[format + n] = v /\ v \in Readings
      /\ v.used = Len(args') /\ Said(v) = u.text \o s
      /\ v.mode = "text" \/ format + n = Len(fmt)
    BY Zenon DEF Leads
  <1>1. /\ data' = s /\ format' = format + n /\ stage' = "print"
        /\ chip' = chip /\ uart' = uart /\ setup' = setup /\ line' = line
        /\ fmt' = fmt /\ written' = written
    BY DEF Put, serial
  <1>2. PrintfTyped'
    BY <1>1 DEF PrintfTyped
  <1>3. Port'
    BY <1>1 DEF Port
  <1>4. Pending' = Pending
    BY <1>1 DEF Pending
  <1>5. Said(u) = u.text /\ u.text \in Seq(Bytes)
    BY DEF Said, Told, Readings
  <1>6. written' + Len(data') = Len(Said(v))
    <2>1. Len(u.text \o s) = Len(u.text) + Len(s)
      BY <1>5, ConcatProperties
    <2>2. written + Len(data) = Len(u.text) /\ Len(data) = 0
      BY <1>5 DEF Told
    <2>3. PICK a \in Nat : a = Len(u.text)
      BY <1>5, LenProperties
    <2> QED BY <1>1, <2>1, <2>2, <2>3 DEF PrintfTyped
  <1>7. chip = "works" => (line \o Pending) \o s = Said(v)
    <2>1. SUFFICES ASSUME chip = "works" PROVE (line \o Pending) \o s = Said(v)
      OBVIOUS
    <2>2. (line \o Pending) \o data = u.text
      BY <1>5, <2>1 DEF Told
    <2>3. PICK p \in Seq(Nat) : p = line \o Pending
      <3>1. Pending \in Seq(Nat)
        BY DEF Pending, Port, Uarts
      <3> QED BY <3>1, ConcatProperties DEF Port
    <2>4. p \o <<>> = p
      BY ConcatEmptySeq
    <2>5. p = u.text
      BY <2>2, <2>3, <2>4, Zenon
    <2> QED BY <2>3, <2>5, Zenon
  <1>8. Told(on, v)'
    BY <1>1, <1>4, <1>6, <1>7, Zenon DEF Told
  <1>9. Telling'
    BY <1>8, Zenon DEF Telling
  <1> QED BY <1>1, <1>2, <1>3, <1>9, Zenon DEF PrintfInv

\* What a directive takes.
LEMMA ArgumentTypes ==
  /\ \A chr \in CharArgs : chr \in Args /\ <<chr>> \in Seq(Bytes) /\ Shown(99, chr) = <<chr>>
  /\ \A s \in Texts : s \in Args /\ s \in Seq(Bytes) /\ Shown(115, s) = s
  /\ \A x \in Ints : x \in Args /\ Shown(100, x) = IntText(x, 10) /\ Shown(120, x) = IntText(x, 16)
  <1>1. ASSUME NEW chr \in CharArgs
        PROVE  chr \in Args /\ <<chr>> \in Seq(Bytes) /\ Shown(99, chr) = <<chr>>
    <2>1. chr \in Bytes /\ chr \in Int
      BY LibcAssumption DEF Bytes
    <2> QED BY <2>1 DEF Args, Shown
  <1>2. ASSUME NEW s \in Texts
        PROVE  s \in Args /\ s \in Seq(Bytes) /\ Shown(115, s) = s
    <2>1. s \in Seq(Bytes \ {0})
      BY LibcAssumption
    <2>2. s \in Seq(Bytes)
      BY <2>1
    <2>3. Shown(115, s) = s
      BY DEF Shown
    <2> QED BY <2>2, <2>3 DEF Args
  <1>3. ASSUME NEW x \in Ints
        PROVE  x \in Args /\ Shown(100, x) = IntText(x, 10) /\ Shown(120, x) = IntText(x, 16)
    <2>1. x \in Int
      BY LibcAssumption
    <2> QED BY <2>1 DEF Args, Shown
  <1> QED BY <1>1, <1>2, <1>3

\* Where printf looks at the next character, the text up to there has been sent.
LEMMA AtDirective ==
  ASSUME PrintfInv, stage = "format", At(0) # 0
  PROVE  /\ format < Len(fmt) /\ data = <<>> /\ fmt[format + 1] = At(0)
         /\ \E g, u : AtText(g, u)
  <1>1. PrintfTyped /\ data = <<>>
    BY DEF PrintfInv
  <1>2. PICK l \in Nat : l = Len(fmt)
    BY <1>1, LenProperties DEF PrintfTyped
  <1>3. format < l
    BY <1>1, <1>2, AtChar DEF PrintfTyped
  <1>4. PICK g, u : Told(g, u)
    BY DEF PrintfInv, Telling
  <1>5. u.mode = "text"
    BY <1>1, <1>2, <1>3, <1>4 DEF Told, PrintfTyped
  <1>6. fmt[format + 1] = At(0)
    BY <1>2, <1>3, <1>1 DEF At, PrintfTyped
  <1>7. AtText(g, u)
    BY <1>4, <1>5, Zenon DEF AtText
  <1> QED BY <1>1, <1>2, <1>3, <1>6, <1>7

LEMMA DirectivePut ==
  ASSUME PrintfInv, NEW ch \in Letters, Directive(ch), NEW a \in Args,
         args' = Append(args, a), Shown(ch, a) \in Seq(Bytes), Put(Shown(ch, a), 2)
  PROVE  PrintfInv'
  <1>1. PrintfTyped /\ Port /\ stage = "format" /\ At(0) = 37 /\ At(1) = ch
    BY DEF PrintfInv, Directive, Percent
  <1>2. PICK l \in Nat : l = Len(fmt)
    BY <1>1, LenProperties DEF PrintfTyped
  <1>3. format + 1 < l /\ fmt[format + 2] = ch
    <2>1. ch # 0
      BY DEF Letters
    <2>2. format \in Nat /\ (At(1) = 0 <=> format + 1 >= Len(fmt))
      BY <1>1, AtChar DEF PrintfTyped
    <2>3. format + 1 < l
      BY <1>1, <1>2, <2>1, <2>2
    <2>4. At(1) = fmt[format + 1 + 1]
      BY <1>1, <1>2, <2>3, AtChar
    <2> QED BY <1>1, <2>2, <2>3, <2>4
  <1>4. data = <<>> /\ fmt[format + 1] = 37
    BY <1>1, AtDirective
  <1>5. PICK g, u : AtText(g, u)
    BY <1>1, AtDirective
  <1>6. PICK s \in Seq(Bytes) : s = Shown(ch, a)
    OBVIOUS
  <1>7. u \in Readings /\ u = g[format] /\ Reads(g, fmt, args, format) /\ u.used = Len(args)
    BY <1>5, Zenon DEF AtText, Told
  <1>8. args \in Seq(Args) /\ format \in Nat
    BY <1>1 DEF PrintfTyped
  <1>9. PICK v : v = Behind(u, s)
    OBVIOUS
  <1>10. v \in Readings /\ ReadsTo(fmt, args', format + 2, v)
    <2>1. ReadsTo(fmt, args, format, u)
      BY <1>7, Zenon DEF ReadsTo
    <2>2. Takes(fmt, format, ch)
      BY <1>3, <1>4, Zenon DEF Takes, Percent
    <2>3. /\ Behind(u, Shown(ch, a)) \in Readings
          /\ ReadsTo(fmt, Append(args, a), format + 2, Behind(u, Shown(ch, a)))
      <3>1. Awaits(u, args) /\ u \in Readings
        BY <1>5, <1>7, Zenon DEF Awaits, AtText
      <3>2. PICK k \in Nat : k = format
        BY <1>8
      <3>3. ReadsTo(fmt, args, k, u) /\ Takes(fmt, k, ch)
        BY <2>1, <2>2, <3>2, Zenon
      <3>4. /\ Behind(u, Shown(ch, a)) \in Readings
            /\ ReadsTo(fmt, Append(args, a), k + 2, Behind(u, Shown(ch, a)))
        BY <1>8, <3>1, <3>3, ReadDirective
      <3> QED BY <3>2, <3>4, Zenon
    <2> QED BY <1>6, <1>9, <2>3, Zenon
  <1>11. PICK on : Reads(on, fmt, args', format + 2) /\ on[format + 2] = v
    BY <1>10, Zenon DEF ReadsTo
  <1>12. v.text = u.text \o s /\ v.used = u.used + 1 /\ v.mode = "text"
    <2>1. PICK t, x : t = u.text \o s /\ x = u.used + 1
      OBVIOUS
    <2>2. v = Reading(t, x, "text")
      BY <1>9, <2>1, Zenon DEF Behind
    <2>3. v.text = t /\ v.used = x /\ v.mode = "text"
      BY <2>2, ReadingFields
    <2> QED BY <2>1, <2>3, Zenon
  <1>13. Said(v) = u.text \o s
    BY <1>12 DEF Said
  <1>14. args' \in Seq(Args) /\ v.used = Len(args')
    BY <1>7, <1>8, <1>12, AppendProperties
  <1>15. format + 2 <= Len(fmt)
    BY <1>2, <1>3, <1>8
  <1>16. Put(s, 2)
    BY <1>6, Zenon
  <1>17. Leads(on, v, u, s, 2)
    BY <1>10, <1>11, <1>12, <1>13, <1>14, Zenon DEF Leads
  <1> QED BY <1>1, <1>4, <1>5, <1>14, <1>15, <1>16, <1>17, Putting

LEMMA DirectiveSteps ==
  ASSUME PrintfInv, PercentC \/ PercentS \/ PercentNumber(100, 10) \/ PercentNumber(120, 16)
  PROVE  PrintfInv'
  <1>1. CASE PercentC
    <2>1. PICK chr \in CharArgs : Directive(99) /\ args' = Append(args, chr) /\ Put(<<chr>>, 2)
      BY <1>1 DEF PercentC
    <2>2. chr \in Args /\ <<chr>> \in Seq(Bytes) /\ Shown(99, chr) = <<chr>>
      BY ArgumentTypes
    <2>3. Put(Shown(99, chr), 2) /\ Shown(99, chr) \in Seq(Bytes)
      BY <2>1, <2>2, Zenon
    <2> QED BY <2>1, <2>2, <2>3, DirectivePut DEF Letters
  <1>2. CASE PercentS
    <2>1. PICK s \in Texts : Directive(115) /\ args' = Append(args, s) /\ Put(s, 2)
      BY <1>2 DEF PercentS
    <2>2. s \in Args /\ s \in Seq(Bytes) /\ Shown(115, s) = s
      BY ArgumentTypes
    <2>3. Put(Shown(115, s), 2) /\ Shown(115, s) \in Seq(Bytes)
      BY <2>1, <2>2, Zenon
    <2> QED BY <2>1, <2>2, <2>3, DirectivePut DEF Letters
  <1>3. CASE PercentNumber(100, 10)
    <2>1. PICK x \in Ints :
            /\ Directive(100) /\ args' = Append(args, x)
            /\ Put((IF x < 0 /\ 10 = 10 THEN <<45>> ELSE <<>>)
                      \o Reverse(Buffer(Magnitude(x, 10), 10)), 2)
      BY <1>3, Zenon DEF PercentNumber
    <2>2. x \in Args /\ Shown(100, x) = IntText(x, 10) /\ IntText(x, 10) \in Seq(Bytes)
      BY ArgumentTypes, Decimal
    <2>3. Put(Shown(100, x), 2) /\ Shown(100, x) \in Seq(Bytes)
      BY <2>1, <2>2, Decimal, Zenon
    <2> QED BY <2>1, <2>2, <2>3, DirectivePut DEF Letters
  <1>4. CASE PercentNumber(120, 16)
    <2>1. PICK x \in Ints :
            /\ Directive(120) /\ args' = Append(args, x)
            /\ Put((IF x < 0 /\ 16 = 10 THEN <<45>> ELSE <<>>)
                      \o Reverse(Buffer(Magnitude(x, 16), 16)), 2)
      BY <1>4, Zenon DEF PercentNumber
    <2>2. x \in Args /\ Shown(120, x) = IntText(x, 16) /\ IntText(x, 16) \in Seq(Bytes)
      BY ArgumentTypes, Hexadecimal
    <2>3. Put(Shown(120, x), 2) /\ Shown(120, x) \in Seq(Bytes)
      BY <2>1, <2>2, Hexadecimal, Zenon
    <2> QED BY <2>1, <2>2, <2>3, DirectivePut DEF Letters
  <1> QED BY <1>1, <1>2, <1>3, <1>4

LEMMA FormatBytes ==
  ASSUME PrintfTyped
  PROVE  fmt \in Seq(Bytes) /\ Len(fmt) \in Nat /\ Len(args) \in Nat
  <1>1. fmt \in Seq(Bytes \ {0}) /\ args \in Seq(Args)
    BY DEF PrintfTyped
  <1> QED BY <1>1, LenProperties

\* Reading the % before a character.
LEMMA ReadPercent ==
  ASSUME NEW f, NEW vals \in Seq(Args), NEW k \in Nat, NEW u \in Readings, Awaits(u, vals),
         ReadsTo(f, vals, k, u), f[k + 1] = Percent
  PROVE  /\ With(u, u.text, "percent") \in Readings
         /\ ReadsTo(f, vals, k + 1, With(u, u.text, "percent"))
  <1> PICK g : Reads(g, f, vals, k) /\ g[k] = u
    BY Zenon DEF ReadsTo
  <1> u.mode = "text" /\ u.used = Len(vals)
    BY Zenon DEF Awaits
  <1>0. PICK t \in Seq(Bytes), x \in Nat : t = u.text /\ x = u.used
    BY DEF Readings
  <1>1. PICK v : v = Reading(t, x, "percent") /\ t = u.text /\ x = u.used
    BY <1>0, Zenon
  <1>2. v \in Readings /\ v.used = x
    BY <1>1, ReadingType, ReadingFields
  <1>3. v = With(u, u.text, "percent")
    BY <1>1, Zenon DEF With
  <1>4. Read(u, Percent, vals) = v
    BY <1>1, Zenon DEF Read
  <1>5. PICK h : h = [j \in k..(k + 1) |-> IF j = k THEN u ELSE v]
    OBVIOUS
  <1>6. h[k] = u /\ h[k + 1] = v
    BY <1>5
  <1>7. x <= Len(vals)
    <2>1. Len(vals) \in Nat /\ x = Len(vals)
      BY <1>1, LenProperties
    <2> QED BY <2>1
  <1>8. ReadsOn(h, g, f, vals, k, k + 1, v)
    <2>1. ASSUME NEW j \in (k + 1)..(k + 1)
          PROVE  h[j] = Read(h[j - 1], f[j], vals) /\ h[j] \in Readings /\ h[j].used <= Len(vals)
      <3>1. j = k + 1 /\ j - 1 = k
        OBVIOUS
      <3> QED BY <1>2, <1>4, <1>6, <1>7, <3>1, Zenon
    <2> QED BY <1>6, <2>1, Zenon DEF ReadsOn
  <1>9. ReadsTo(f, vals, k + 1, v)
    BY <1>8, ReadOn
  <1> QED BY <1>2, <1>3, <1>9, Zenon

\* Putting out a stretch of text.
Continues(w, u, k, pre, s, m) ==
  w.used = u.used /\ pre \o SubSeq(fmt, k + 1, m) = u.text \o s

LEMMA TextPut ==
  ASSUME PrintfInv, stage = "format", At(0) # 0, NEW g, NEW u, AtText(g, u), NEW w,
         NEW n \in Nat, NEW k \in Nat, NEW m \in Nat, k < m, m <= Len(fmt), m = format + n,
         ReadsTo(fmt, args, k, w), NEW pre \in Seq(Bytes), NEW mo \in {"text", "rest"},
         Starts(w, fmt, args, k, pre, mo), Ordinary(fmt, k, m, mo), mo = "text" \/ m = Len(fmt),
         NEW s \in Seq(Bytes), Continues(w, u, k, pre, s, m), Put(s, n), args' = args
  PROVE  PrintfInv'
  <1>1. PrintfTyped /\ Port /\ data = <<>> /\ fmt \in Seq(Bytes) /\ Len(args) \in Nat /\ args \in Seq(Args)
    BY AtDirective, FormatBytes DEF PrintfInv, PrintfTyped
  <1>2. PICK v : v = With(w, pre \o SubSeq(fmt, k + 1, m), mo)
    OBVIOUS
  <1>3. v \in Readings /\ ReadsTo(fmt, args, m, v)
    <2>1. /\ With(w, pre \o SubSeq(fmt, k + 1, m), mo) \in Readings
          /\ ReadsTo(fmt, args, m, With(w, pre \o SubSeq(fmt, k + 1, m), mo))
      BY <1>1, ReadText
    <2> QED BY <1>2, <2>1, Zenon
  <1>4. u.used = Len(args)
    BY Zenon DEF AtText, Told
  <1>5. v.used = Len(args) /\ v.text = u.text \o s /\ v.mode = mo
    <2>1. PICK t, x : t = pre \o SubSeq(fmt, k + 1, m) /\ x = w.used
      OBVIOUS
    <2>2. v = Reading(t, x, mo)
      BY <1>2, <2>1, Zenon DEF With
    <2>3. v.text = t /\ v.used = x /\ v.mode = mo
      BY <2>2, ReadingFields
    <2> QED BY <1>4, <2>1, <2>3, Zenon DEF Continues
  <1>6. Said(v) = u.text \o s
    <2>1. v.mode # "percent"
      BY <1>5
    <2> QED BY <1>5, <2>1, Zenon DEF Said
  <1>7. PICK on : Reads(on, fmt, args', m) /\ on[m] = v
    BY <1>3, Zenon DEF ReadsTo
  <1>8. Leads(on, v, u, s, n)
    BY <1>3, <1>5, <1>6, <1>7, Zenon DEF Leads
  <1> QED BY <1>1, <1>8, Putting

\* Where the text ends that Literal puts out.
LEMMA Amount ==
  ASSUME PrintfTyped, NEW skip \in Nat, format + skip < Len(fmt), NEW ends, NEW amount,
         ends = {k \in 1..Len(fmt) : At(skip + k) \in {0, Percent}},
         ends # {} => amount \in ends /\ \A j \in ends : amount <= j
  PROVE  /\ amount \in Nat \ {0} /\ format + skip + amount <= Len(fmt)
         /\ \A j \in 1..(amount - 1) : At(skip + j) # Percent
  <1>1. PICK l \in Nat : l = Len(fmt)
    BY FormatBytes
  <1>2. format \in Nat
    BY DEF PrintfTyped
  <1>3. \A j \in Nat : At(skip + j) = 0 <=> format + skip + j >= l
    <2> TAKE j \in Nat
    <2>1. PICK x \in Nat : x = skip + j
      OBVIOUS
    <2>2. At(x) = 0 <=> format + x >= Len(fmt)
      BY <2>1, AtChar
    <2> QED BY <1>1, <1>2, <2>1, <2>2
  <1>4. l \in ends
    <2>1. l \in 1..l /\ format + skip + l >= l
      BY <1>1, <1>2
    <2> QED BY <1>1, <1>3, <2>1
  <1>5. amount \in ends /\ \A j \in ends : amount <= j
    BY <1>4
  <1>6. amount \in 1..l
    BY <1>1, <1>5
  <1>7. ASSUME NEW j \in 1..(amount - 1)
        PROVE  At(skip + j) # 0 /\ At(skip + j) # Percent
    <2>1. j \in 1..l /\ ~ (amount <= j)
      BY <1>6
    <2>2. j \notin ends
      BY <1>5, <2>1
    <2>3. At(skip + j) \notin {0, Percent}
      BY <1>1, <2>1, <2>2, Zenon
    <2> QED BY <2>3
  <1>8. format + skip + amount <= l
    <2>0. PICK p \in Nat : p = format
      BY <1>2
    <2>1. CASE amount = 1
      <3>1. p + skip < l
        BY <1>1, <2>0, Zenon
      <3>2. p + skip + 1 <= l
        BY <3>1
      <3> QED BY <2>0, <2>1, <3>2, Zenon
    <2>2. CASE amount # 1
      <3>1. amount - 1 \in 1..(amount - 1) /\ amount - 1 \in Nat
        BY <1>6, <2>2
      <3>2. ~ (format + skip + (amount - 1) >= l)
        BY <1>3, <1>7, <3>1
      <3>3. PICK a \in Nat : a = amount
        BY <1>6
      <3>4. p + skip + a <= l
        BY <2>0, <3>2, <3>3
      <3> QED BY <2>0, <3>3, <3>4, Zenon
    <2> QED BY <2>1, <2>2
  <1>9. amount \in Nat \ {0}
    BY <1>6
  <1> QED BY <1>1, <1>7, <1>8, <1>9, Zenon

LEMMA LiteralStep ==
  ASSUME PrintfInv, Literal
  PROVE  PrintfInv'
  <1> DEFINE skip == IF At(0) = Percent THEN 1 ELSE 0
             ends == {k \in 1..Len(fmt) : At(skip + k) \in {0, Percent}}
             amount == CHOOSE k \in ends : \A j \in ends : k <= j
             s == Part(skip, skip + amount)
  <1>1. /\ stage = "format" /\ At(0) # 0 /\ args' = args
        /\ At(0) # Percent \/ At(1) = Percent
        /\ Put(s, skip + amount)
    BY Zenon DEF Literal
  <1>2. PrintfTyped /\ fmt \in Seq(Bytes) /\ Len(fmt) \in Nat /\ format \in Nat /\ args \in Seq(Args)
    BY FormatBytes DEF PrintfInv, PrintfTyped
  <1>3. format < Len(fmt) /\ fmt[format + 1] = At(0)
    BY <1>1, AtDirective
  <1>4. skip \in {0, 1} /\ (skip = 1 => At(0) = Percent /\ At(1) = Percent) /\ (skip = 0 => At(0) # Percent)
    BY <1>1
  <1>5. format + skip < Len(fmt)
    <2>1. At(1) = Percent => format + 1 < Len(fmt)
      BY <1>2, AtChar DEF Percent
    <2> QED BY <1>2, <1>3, <1>4, <2>1
  <1>6. ends # {} => amount \in ends /\ \A j \in ends : amount <= j
    <2>1. SUFFICES ASSUME ends # {}
                   PROVE  \E k \in ends : \A j \in ends : k <= j
      BY Zenon
    <2>2. ends \subseteq Nat
      BY <1>2
    <2> HIDE DEF ends
    <2> QED BY <2>1, <2>2, Least
  <1>7. /\ amount \in Nat \ {0} /\ format + skip + amount <= Len(fmt)
        /\ \A j \in 1..(amount - 1) : At(skip + j) # Percent
    <2>1. skip \in Nat
      BY <1>4
    <2>2. PICK e : e = ends
      OBVIOUS
    <2>3. e = {k \in 1..Len(fmt) : At(skip + k) \in {0, Percent}}
      BY <2>2
    <2>4. e # {} => amount \in e /\ \A j \in e : amount <= j
      BY <1>6, <2>2, Zenon
    <2> HIDE DEF skip, ends, amount
    <2> QED BY <1>2, <1>5, <2>1, <2>3, <2>4, Amount
  <1> HIDE DEF skip, ends, amount
  <1>8. PICK k \in Nat, m \in Nat, n \in Nat : k = format + skip /\ m = format + skip + amount /\ n = skip + amount
    BY <1>2, <1>4, <1>7
  <1>9. k < m /\ m <= Len(fmt) /\ m = format + n
    BY <1>2, <1>4, <1>7, <1>8
  <1>10. s = SubSeq(fmt, k + 1, m)
    <2>1. format + skip + 1 = k + 1 /\ format + (skip + amount) = m
      BY <1>2, <1>4, <1>7, <1>8
    <2> QED BY <2>1 DEF Part
  <1>11. Ordinary(fmt, k, m, "text")
    <2>1. ASSUME NEW j \in (k + 2)..m PROVE fmt[j] # Percent
      <3>1. PICK d \in Nat : d = j - k - 1
        BY <1>8
      <3>2. d \in 1..(amount - 1)
        BY <1>2, <1>4, <1>7, <1>8, <3>1
      <3>3. At(skip + d) # Percent
        BY <1>7, <3>2
      <3>4. format + (skip + d) < Len(fmt) /\ format + (skip + d) + 1 = j
        BY <1>2, <1>4, <1>7, <1>8, <1>9, <3>1, <3>2
      <3> QED BY <3>3, <3>4 DEF At
    <2> QED BY <2>1, Zenon DEF Ordinary
  <1>12. PICK g, u : AtText(g, u)
    BY <1>1, AtDirective
  <1>13. /\ u \in Readings /\ Awaits(u, args) /\ ReadsTo(fmt, args, format, u)
         /\ u.mode = "text" /\ u.used = Len(args)
    BY <1>12, Zenon DEF AtText, Told, Awaits, ReadsTo
  <1>14. u.text \in Seq(Bytes)
    BY <1>13 DEF Readings
  <1>15. s \in Seq(Bytes)
    <2>1. \A j \in (k + 1)..m : fmt[j] \in Bytes
      <3> TAKE j \in (k + 1)..m
      <3>1. j \in 1..Len(fmt)
        BY <1>2, <1>8, <1>9
      <3> QED BY <1>2, <3>1, ElementOfSeq
    <2>2. SubSeq(fmt, k + 1, m) \in Seq(Bytes)
      <3>1. k + 1 \in Int /\ m \in Int
        BY <1>8
      <3> QED BY <2>1, <3>1, SubSeqProperties
    <2> QED BY <1>10, <2>2, Zenon
  <1>16. CASE skip = 0
    <2>1. k = format
      BY <1>2, <1>8, <1>16
    <2>2. Starts(u, fmt, args, k, u.text, "text")
      <3>1. PICK chr : chr = fmt[k + 1]
        OBVIOUS
      <3>2. chr # Percent
        BY <1>3, <1>4, <1>16, <2>1, <3>1
      <3>3. Read(u, chr, args) = Reading(Append(u.text, chr), u.used, "text")
        <4>1. ~ (u.mode = "text" /\ chr = Percent) /\ u.mode # "percent" /\ u.mode # "rest"
          BY <1>13, <3>2
        <4> QED BY <4>1, Zenon DEF Read
      <3> QED BY <3>1, <3>3, Zenon DEF Starts
    <2>3. Continues(u, u, k, u.text, s, m) /\ ReadsTo(fmt, args, k, u)
      BY <1>10, <1>13, <2>1, Zenon DEF Continues
    <2>4. PICK pre \in Seq(Bytes) : pre = u.text
      BY <1>14, Zenon
    <2>5. Starts(u, fmt, args, k, pre, "text") /\ Continues(u, u, k, pre, s, m) /\ Put(s, n)
      BY <1>1, <1>8, <2>2, <2>3, <2>4, Zenon
    <2> HIDE DEF s
    <2> QED BY <1>1, <1>8, <1>9, <1>11, <1>12, <1>15, <2>3, <2>5, TextPut
  <1>17. CASE skip = 1
    <2>1. k = format + 1
      BY <1>2, <1>8, <1>17
    <2>2. fmt[format + 1] = Percent /\ fmt[k + 1] = Percent
      BY <1>2, <1>3, <1>4, <1>9, <1>17, <2>1 DEF At
    <2>3. PICK w : w = With(u, u.text, "percent")
      OBVIOUS
    <2>4. ReadsTo(fmt, args, k, w)
      BY <1>2, <1>13, <2>1, <2>2, <2>3, ReadPercent
    <2>5. w.text = u.text /\ w.used = u.used /\ w.mode = "percent"
      <3>1. PICK t, x : t = u.text /\ x = u.used
        OBVIOUS
      <3>2. w = Reading(t, x, "percent")
        BY <2>3, <3>1, Zenon DEF With
      <3>3. w.text = t /\ w.used = x /\ w.mode = "percent"
        BY <3>2, ReadingFields
      <3> QED BY <3>1, <3>3, Zenon
    <2>6. Starts(w, fmt, args, k, u.text, "text")
      <3>1. Read(w, Percent, args) = Reading(Append(w.text, Percent), w.used, "text")
        <4>1. w.mode # "text" /\ w.mode # "rest" /\ Percent \notin {99, 100, 115, 120}
          BY <2>5 DEF Percent
        <4> QED BY <4>1, Zenon DEF Read
      <3> QED BY <2>2, <2>5, <3>1, Zenon DEF Starts
    <2>7. Continues(w, u, k, u.text, s, m)
      BY <1>10, <2>5, Zenon DEF Continues
    <2>8. PICK pre \in Seq(Bytes) : pre = u.text
      BY <1>14, Zenon
    <2>9. Starts(w, fmt, args, k, pre, "text") /\ Continues(w, u, k, pre, s, m) /\ Put(s, n)
      BY <1>1, <1>8, <2>6, <2>7, <2>8, Zenon
    <2> HIDE DEF s
    <2> QED BY <1>1, <1>8, <1>9, <1>11, <1>12, <1>15, <2>4, <2>9, TextPut
  <1> QED BY <1>4, <1>16, <1>17

Remains(f, k, p, r) == p = <<f[k + 1]>> /\ r = SubSeq(f, k + 2, Len(f))

Joined(t, f, k, p, r) == (t \o p) \o r = t \o SubSeq(f, k + 1, Len(f))

Groups(a, b, d) == (a \o b) \o d = a \o (b \o d)

LEMMA Regroup ==
  ASSUME NEW S, NEW a \in Seq(S), NEW b \in Seq(S), NEW d \in Seq(S)
  PROVE  Groups(a, b, d)
  BY ConcatAssociative DEF Groups

LEMMA Tailed ==
  ASSUME NEW t \in Seq(Bytes), NEW f \in Seq(Bytes), NEW k \in Nat, k + 2 <= Len(f),
         NEW p \in Seq(Bytes), NEW r \in Seq(Bytes), Remains(f, k, p, r)
  PROVE  Joined(t, f, k, p, r)
  <1>1. PICK l \in Nat : l = Len(f)
    BY LenProperties
  <1>2. k + 1 \in 1..l /\ l \in (k + 1)..l /\ k + 1 + 1 = k + 2
    BY <1>1
  <1>3. SubSeq(f, k + 1, l) = <<f[k + 1]>> \o SubSeq(f, k + 1 + 1, l)
    BY <1>1, <1>2, SubSeqRecursiveFirst
  <1>4. SubSeq(f, k + 1, l) = p \o r
    BY <1>1, <1>2, <1>3, Zenon DEF Remains
  <1>5. (t \o p) \o r = t \o (p \o r)
    <2>1. PICK S : S = Bytes
      OBVIOUS
    <2>2. t \in Seq(S) /\ p \in Seq(S) /\ r \in Seq(S)
      BY <2>1, Zenon
    <2>3. Groups(t, p, r)
      BY <2>2, Regroup, Zenon
    <2> QED BY <2>3, Zenon DEF Groups
  <1> QED BY <1>1, <1>4, <1>5, Zenon DEF Joined

LEMMA UnknownStep ==
  ASSUME PrintfInv, Unknown
  PROVE  PrintfInv'
  <1>1. /\ stage = "format" /\ At(0) = Percent /\ At(0) # 0 /\ args' = args
        /\ At(1) \notin {Percent, 99, 100, 115, 120}
        /\ Put(Part(0, Len(fmt) - format), Len(fmt) - format)
    BY DEF Unknown, Percent
  <1>2. /\ PrintfTyped /\ Port /\ fmt \in Seq(Bytes) /\ Len(fmt) \in Nat /\ format \in Nat
        /\ args \in Seq(Args)
    BY FormatBytes DEF PrintfInv, PrintfTyped
  <1>3. format < Len(fmt) /\ fmt[format + 1] = Percent /\ data = <<>>
    BY <1>1, AtDirective
  <1>4. PICK l \in Nat, k \in Nat, n \in Nat : l = Len(fmt) /\ k = format /\ n = Len(fmt) - format
    <2>1. PICK a \in Nat, b \in Nat : a = Len(fmt) /\ b = format /\ b < a
      BY <1>2, <1>3
    <2>2. a - b \in Nat
      BY <2>1
    <2> QED BY <2>1, <2>2, Zenon
  <1>5. PICK s : s = SubSeq(fmt, k + 1, l)
    OBVIOUS
  <1>6. Put(s, n) /\ k + n = l
    <2>1. format + 0 + 1 = k + 1 /\ format + (Len(fmt) - format) = l
      BY <1>2, <1>4
    <2>2. Part(0, Len(fmt) - format) = s
      BY <1>5, <2>1, Zenon DEF Part
    <2>3. k + n = l
      BY <1>2, <1>4
    <2> QED BY <1>1, <1>4, <2>2, <2>3, Zenon
  <1>7. PICK g, u : AtText(g, u)
    BY <1>1, AtDirective
  <1>8. /\ u \in Readings /\ Awaits(u, args) /\ ReadsTo(fmt, args, format, u)
        /\ u.mode = "text" /\ u.used = Len(args)
    BY <1>7, Zenon DEF AtText, Told, Awaits, ReadsTo
  <1>9. PICK t \in Seq(Bytes) : t = u.text
    BY <1>8 DEF Readings
  <1>10. PICK w : w = With(u, u.text, "percent")
    OBVIOUS
  <1>11. w \in Readings /\ ReadsTo(fmt, args, k + 1, w)
    <2>1. ReadsTo(fmt, args, k, u) /\ fmt[k + 1] = Percent
      BY <1>3, <1>4, <1>8, Zenon
    <2> QED BY <1>2, <1>8, <1>10, <2>1, ReadPercent
  <1>12. w.text = t /\ w.used = u.used /\ w.mode = "percent"
    <2>1. PICK x : x = u.used
      OBVIOUS
    <2>2. w = Reading(t, x, "percent")
      BY <1>9, <1>10, <2>1, Zenon DEF With
    <2>3. w.text = t /\ w.used = x /\ w.mode = "percent"
      BY <2>2, ReadingFields
    <2> QED BY <2>1, <2>3, Zenon
  <1>13. s \in Seq(Bytes)
    <2>1. \A j \in (k + 1)..l : fmt[j] \in Bytes
      <3> TAKE j \in (k + 1)..l
      <3>1. j \in 1..Len(fmt)
        BY <1>4
      <3> QED BY <1>2, <3>1, ElementOfSeq
    <2>2. k + 1 \in Int /\ l \in Int
      OBVIOUS
    <2>3. SubSeq(fmt, k + 1, l) \in Seq(Bytes)
      BY <2>1, <2>2, SubSeqProperties
    <2> QED BY <1>5, <2>3, Zenon
  <1>14. CASE k + 1 = l
    <2>1. s = <<Percent>>
      <3>1. k + 1 \in 1..l /\ l \in (k + 1)..l /\ l < k + 1 + 1
        BY <1>14
      <3>2. SubSeq(fmt, k + 1, l) = <<fmt[k + 1]>> \o SubSeq(fmt, k + 1 + 1, l)
        BY <1>2, <1>4, <3>1, SubSeqRecursiveFirst
      <3>3. SubSeq(fmt, k + 1 + 1, l) = <<>>
        BY <3>1, SubSeqEmpty
      <3>4. <<Percent>> \in Seq(Bytes)
        BY DEF Percent, Bytes
      <3>5. <<Percent>> \o <<>> = <<Percent>>
        BY <3>4, ConcatEmptySeq
      <3> QED BY <1>3, <1>4, <1>5, <3>2, <3>3, <3>5, Zenon
    <2>2. Said(w) = u.text \o s
      <3>1. Percent \in Bytes
        BY DEF Percent, Bytes
      <3>2. Append(t, Percent) = t \o <<Percent>>
        BY <3>1, AppendIsConcat
      <3> QED BY <1>9, <1>12, <2>1, <3>2, Zenon DEF Said
    <2>3. PICK on : Reads(on, fmt, args, k + 1) /\ on[k + 1] = w
      BY <1>11, Zenon DEF ReadsTo
    <2>4. Leads(on, w, u, s, n)
      <3>1. format + n = Len(fmt) /\ k + 1 = format + n
        BY <1>4, <1>6, <1>14
      <3> QED BY <1>1, <1>8, <1>11, <1>12, <2>2, <2>3, <3>1, Zenon DEF Leads
    <2>5. format + n <= Len(fmt) /\ args' \in Seq(Args)
      BY <1>1, <1>2, <1>4, <1>6
    <2> QED BY <1>1, <1>2, <1>3, <1>6, <1>7, <1>13, <2>4, <2>5, Putting
  <1>15. CASE k + 1 # l
    <2>1. k + 2 <= l /\ k + 1 < l
      BY <1>3, <1>4, <1>15
    <2>2. PICK chr : chr = At(1)
      OBVIOUS
    <2>3. chr = fmt[k + 1 + 1] /\ chr \notin {Percent, 99, 100, 115, 120}
      <3>1. format + 1 < Len(fmt)
        BY <1>4, <2>1
      <3> QED BY <1>1, <1>2, <1>4, <2>2, <3>1, AtChar
    <2>4. chr \in Bytes
      <3>1. k + 1 + 1 \in 1..Len(fmt)
        BY <1>4, <2>1
      <3> QED BY <1>2, <2>3, <3>1, ElementOfSeq
    <2>5. PICK pre \in Seq(Bytes) : pre = t \o <<Percent>>
      <3>1. <<Percent>> \in Seq(Bytes)
        BY DEF Percent, Bytes
      <3> QED BY <3>1, ConcatProperties
    <2>6. Starts(w, fmt, args, k + 1, pre, "rest")
      <3>1. Read(w, chr, args) = Reading(w.text \o <<Percent, chr>>, w.used, "rest")
        <4>1. w.mode # "text" /\ w.mode = "percent" /\ chr # Percent /\ chr \notin {99, 100, 115, 120}
          BY <1>12, <2>3
        <4> QED BY <4>1, Zenon DEF Read
      <3>2. t \o <<Percent, chr>> = Append(pre, chr)
        <4>1. <<Percent>> \in Seq(Bytes) /\ <<chr>> \in Seq(Bytes)
          BY <2>4 DEF Percent, Bytes
        <4>2. <<Percent, chr>> = <<Percent>> \o <<chr>>
          OBVIOUS
        <4>3. Append(pre, chr) = pre \o <<chr>>
          BY <2>4, AppendIsConcat
        <4>4. (t \o <<Percent>>) \o <<chr>> = t \o (<<Percent>> \o <<chr>>)
          BY <4>1, ConcatAssociative
        <4> QED BY <2>5, <4>2, <4>3, <4>4, Zenon
      <3> QED BY <1>12, <2>3, <3>1, <3>2, Zenon DEF Starts
    <2>7. PICK j \in Nat : j = k + 1
      OBVIOUS
    <2>8. ReadsTo(fmt, args, j, w) /\ Starts(w, fmt, args, j, pre, "rest") /\ Ordinary(fmt, j, l, "rest")
      BY <1>11, <2>6, <2>7, Zenon DEF Ordinary
    <2>9. Continues(w, u, j, pre, s, l)
      <3>1. PICK r : r = SubSeq(fmt, k + 2, l)
        OBVIOUS
      <3>2. r \in Seq(Bytes)
        <4>1. \A d \in (k + 2)..l : fmt[d] \in Bytes
          <5> TAKE d \in (k + 2)..l
          <5>1. d \in 1..Len(fmt)
            BY <1>4
          <5> QED BY <1>2, <5>1, ElementOfSeq
        <4>2. k + 2 \in Int /\ l \in Int
          OBVIOUS
        <4>3. SubSeq(fmt, k + 2, l) \in Seq(Bytes)
          BY <4>1, <4>2, SubSeqProperties
        <4> QED BY <3>1, <4>3, Zenon
      <3>3. PICK p \in Seq(Bytes) : p = <<Percent>>
        <4>1. <<Percent>> \in Seq(Bytes)
          BY DEF Percent, Bytes
        <4> QED BY <4>1, Zenon
      <3>4. (t \o p) \o r = t \o SubSeq(fmt, k + 1, Len(fmt))
        <4>1. k + 2 <= Len(fmt) /\ Remains(fmt, k, p, r)
          BY <1>3, <1>4, <2>1, <3>1, <3>3, Zenon DEF Remains
        <4>2. fmt \in Seq(Bytes)
          BY <1>2
        <4>3. Joined(t, fmt, k, p, r)
          BY <3>2, <4>1, <4>2, Tailed
        <4> QED BY <4>3, Zenon DEF Joined
      <3>5. j + 1 = k + 2
        BY <2>7
      <3> QED BY <1>4, <1>5, <1>9, <1>12, <2>5, <3>1, <3>3, <3>4, <3>5, Zenon DEF Continues
    <2>10. j < l /\ l <= Len(fmt) /\ l = format + n
      BY <1>4, <1>6, <2>1, <2>7
    <2> QED BY <1>1, <1>4, <1>6, <1>7, <1>13, <2>8, <2>9, <2>10, TextPut
  <1> QED BY <1>14, <1>15

LEMMA PutcharStep ==
  ASSUME PrintfInv, Putchar
  PROVE  PrintfInv'
  <1>1. /\ stage = "print" /\ data # <<>> /\ serial_putchar(Head(data)) /\ data' = Tail(data)
        /\ written' = written + 1
        /\ stage' = stage /\ fmt' = fmt /\ format' = format /\ args' = args
    BY DEF Putchar
  <1>2. PrintfTyped /\ Port /\ data \in Seq(Bytes) /\ written \in Nat
    BY DEF PrintfInv, PrintfTyped
  <1>3. PICK chr \in Bytes, r \in Seq(Bytes) : chr = Head(data) /\ r = Tail(data)
    BY <1>1, <1>2
  <1>4. data = <<chr>> \o r /\ Len(data) = Len(r) + 1
    <2>1. Len(r) = Len(data) - 1 /\ Len(data) \in Nat
      BY <1>1, <1>2, <1>3, HeadTailProperties, LenProperties
    <2>2. data = <<chr>> \o r
      BY <1>1, <1>2, <1>3
    <2> QED BY <2>1, <2>2
  <1>5. serial_putchar(chr)
    BY <1>1, <1>3, Zenon
  <1>6. /\ Port' /\ line' = line /\ chip' = chip
        /\ chip = "works" => Pending = <<>> /\ Pending' = <<chr>>
    BY <1>1, <1>2, <1>5, PortPutchar
  <1>7. PrintfTyped'
    BY <1>1, <1>2, <1>3 DEF PrintfTyped
  <1>8. PICK g, u : Told(g, u)
    BY <1>1, Zenon DEF PrintfInv, Telling
  <1>9. written' + Len(data') = Len(Said(u))
    <2>1. PICK x : x = Len(Said(u))
      OBVIOUS
    <2>2. PICK a \in Nat : a = Len(r)
      BY LenProperties
    <2>3. written + (a + 1) = x
      BY <1>4, <1>8, <2>1, <2>2, Zenon DEF Told
    <2>4. (written + 1) + a = x
      BY <1>2, <2>3
    <2> QED BY <1>1, <1>3, <2>1, <2>2, <2>4, Zenon
  <1>10. chip = "works" => (line' \o Pending') \o data' = Said(u)
    <2>1. SUFFICES ASSUME chip = "works" PROVE (line' \o Pending') \o data' = Said(u)
      OBVIOUS
    <2>0. PICK S : S = Nat
      OBVIOUS
    <2>2. PICK p \in Seq(S), q \in Seq(S), s \in Seq(S) : p = line /\ q = <<chr>> /\ s = r
      <3>1. line \in Seq(Nat)
        BY <1>2 DEF Port
      <3>2. <<chr>> \in Seq(Nat)
        BY DEF Bytes
      <3>3. r \in Seq(Nat)
        <4>1. \A b \in Bytes : b \in Nat
          BY DEF Bytes
        <4> QED BY <4>1
      <3> QED BY <2>0, <3>1, <3>2, <3>3, Zenon
    <2>3. (line \o Pending) \o data = Said(u)
      BY <1>8, <2>1, Zenon DEF Told
    <2>4. p \o <<>> = p
      BY ConcatEmptySeq
    <2>5. PICK t : t = q \o s
      OBVIOUS
    <2>6. (p \o q) \o s = p \o t
      BY <2>5, ConcatAssociative
    <2>7. p \o t = Said(u)
      BY <1>4, <1>6, <2>1, <2>2, <2>3, <2>4, <2>5, Zenon
    <2> QED BY <1>1, <1>3, <1>6, <2>1, <2>2, <2>6, <2>7, Zenon
  <1>11. Told(g, u)'
    BY <1>1, <1>6, <1>8, <1>9, <1>10, Zenon DEF Told
  <1>12. Telling'
    BY <1>11, Zenon DEF Telling
  <1> QED BY <1>1, <1>6, <1>7, <1>12 DEF PrintfInv

LEMMA TransmitStep ==
  ASSUME PrintfInv, Transmit
  PROVE  PrintfInv'
  <1>1. /\ Send /\ stage' = stage /\ fmt' = fmt /\ format' = format /\ args' = args
        /\ data' = data /\ written' = written
    BY DEF Transmit, printing
  <1>2. Port' /\ chip' = chip /\ line' \o Pending' = line \o Pending
    BY <1>1, PortSend DEF PrintfInv
  <1>3. PrintfTyped'
    BY <1>1 DEF PrintfInv, PrintfTyped
  <1>4. Telling'
    <2>1. SUFFICES ASSUME stage' \in {"format", "print", "done"}
                   PROVE  \E g, u : Told(g, u)'
      BY Zenon DEF Telling
    <2>2. PICK g, u : Told(g, u)
      BY <1>1, <2>1, Zenon DEF PrintfInv, Telling
    <2>3. Told(g, u)'
      BY <1>1, <1>2, <2>2, Zenon DEF Told
    <2> QED BY <2>3, Zenon
  <1> QED BY <1>1, <1>2, <1>3, <1>4, Zenon DEF PrintfInv

\* From one part of a call to the next.
LEMMA StageStep ==
  ASSUME PrintfInv, Printed \/ printf_return
  PROVE  PrintfInv'
  <1>1. /\ stage \in {"format", "print"} /\ stage' \in {"format", "done"} /\ data = <<>>
        /\ stage' = "done" => At(0) = 0
        /\ chip' = chip /\ uart' = uart /\ setup' = setup /\ line' = line
        /\ fmt' = fmt /\ format' = format /\ args' = args /\ data' = data /\ written' = written
    BY DEF Printed, printf_return, serial, printing, PrintfInv
  <1>2. PrintfTyped /\ PrintfTyped'
    BY <1>1 DEF PrintfInv, PrintfTyped
  <1>3. Port'
    BY <1>1 DEF PrintfInv, Port
  <1>4. Pending' = Pending
    BY <1>1 DEF Pending
  <1>5. Telling'
    <2>1. PICK g, u : Told(g, u)
      BY <1>1 DEF PrintfInv, Telling
    <2>2. Told(g, u)'
      BY <1>1, <1>4, <2>1, Zenon DEF Told
    <2> QED BY <2>2, Zenon DEF Telling
  <1>6. stage' = "done" => format' = Len(fmt')
    <2>1. PICK l \in Nat : l = Len(fmt)
      BY <1>2, FormatBytes
    <2>2. At(0) = 0 => format >= l
      BY <1>2, <2>1, AtChar DEF PrintfTyped
    <2> QED BY <1>1, <1>2, <2>1, <2>2 DEF PrintfTyped
  <1> QED BY <1>1, <1>2, <1>3, <1>5, <1>6 DEF PrintfInv

\* Nothing has been read yet.
LEMMA ReadNothing ==
  ASSUME NEW f, NEW vals \in Seq(Args)
  PROVE  ReadsTo(f, vals, 0, Unread) /\ Unread \in Readings
  <1>1. PICK g : g = [k \in {0} |-> Unread]
    OBVIOUS
  <1>2. g[0] = Unread
    BY <1>1
  <1>3. Unread \in Readings /\ Unread.used = 0
    <2>1. <<>> \in Seq(Bytes)
      OBVIOUS
    <2> QED BY <2>1 DEF Unread, Reading, Readings
  <1>4. Unread.used <= Len(vals)
    <2>1. Len(vals) \in Nat
      BY LenProperties
    <2> QED BY <1>3, <2>1
  <1>5. Reads(g, f, vals, 0)
    <2>1. 1..0 = {} /\ \A k \in 0..0 : k = 0
      OBVIOUS
    <2> QED BY <1>2, <1>3, <1>4, <2>1 DEF Reads
  <1> QED BY <1>2, <1>3, <1>5, Zenon DEF ReadsTo

LEMMA CallStep ==
  ASSUME PrintfInv, NEW f \in Seq(Bytes \ {0}), printf(f)
  PROVE  PrintfInv'
  <1>1. /\ stage = "idle" /\ fmt' = f /\ stage' = "format"
        /\ chip' = chip /\ uart' = uart /\ setup' = setup /\ line' = line
        /\ format' = format /\ args' = args /\ data' = data /\ written' = written
    BY DEF printf, serial
  <1>2. PrintfTyped /\ format = 0 /\ args = <<>> /\ written = 0 /\ data = <<>>
    BY <1>1 DEF PrintfInv
  <1>3. PrintfTyped'
    <2>1. Len(f) \in Nat /\ 0 <= Len(f)
      BY LenProperties
    <2> QED BY <1>1, <1>2, <2>1 DEF PrintfTyped
  <1>4. Port'
    BY <1>1 DEF PrintfInv, Port
  <1>5. line' \o Pending' = <<>>
    <2>1. line = <<>> /\ uart.thr = None
      BY <1>1 DEF PrintfInv, Port
    <2>2. Pending' = <<>>
      BY <1>1, <2>1 DEF Pending
    <2>3. <<>> \o <<>> = <<>>
      OBVIOUS
    <2> QED BY <1>1, <2>1, <2>2, <2>3, Zenon
  <1>6. PICK g : Reads(g, f, args, 0) /\ g[0] = Unread
    BY <1>2, ReadNothing, Zenon DEF ReadsTo, PrintfTyped
  <1>7. Unread \in Readings /\ Unread.mode = "text" /\ Unread.used = 0 /\ Unread.text = <<>>
    BY <1>2, ReadNothing DEF Unread, Reading, PrintfTyped
  <1>8. Said(Unread) = <<>>
    BY <1>7 DEF Said
  <1>9. Len(<<>>) = 0 /\ <<>> \o <<>> = <<>> /\ 0 + 0 = 0
    OBVIOUS
  <1>10. Told(g, Unread)'
    BY <1>1, <1>2, <1>5, <1>6, <1>7, <1>8, <1>9, Zenon DEF Told
  <1>11. Telling'
    BY <1>10, Zenon DEF Telling
  <1> QED BY <1>1, <1>2, <1>3, <1>4, <1>11 DEF PrintfInv

LEMMA WriteStringStep ==
  ASSUME PrintfInv, terminal_writestring
  PROVE  PrintfInv'
  <1>1. PICK s \in Texts :
          /\ stage = "idle" /\ stage' = "print" /\ data' = s /\ args' = <<s>>
          /\ fmt' = <<37, 115>> /\ format' = 2
          /\ chip' = chip /\ uart' = uart /\ setup' = setup /\ line' = line /\ written' = written
    BY DEF terminal_writestring, serial, Percent
  <1>2. PrintfTyped /\ written = 0
    BY <1>1 DEF PrintfInv
  <1>3. s \in Args /\ s \in Seq(Bytes) /\ Shown(115, s) = s
    BY ArgumentTypes
  <1>4. PICK f : f = <<37, 115>>
    OBVIOUS
  <1>5. f \in Seq(Bytes \ {0}) /\ Len(f) = 2 /\ f[1] = 37 /\ f[2] = 115
    BY <1>4 DEF Bytes
  <1>6. <<s>> \in Seq(Args) /\ Append(<<>>, s) = <<s>> /\ Len(<<s>>) = 1 /\ <<>> \in Seq(Args)
    BY <1>3
  <1>7. PrintfTyped'
    BY <1>1, <1>2, <1>3, <1>4, <1>5, <1>6 DEF PrintfTyped
  <1>8. Port'
    BY <1>1 DEF PrintfInv, Port
  <1>9. line' \o Pending' = <<>>
    <2>1. line = <<>> /\ uart.thr = None
      BY <1>1 DEF PrintfInv, Port
    <2>2. Pending' = <<>>
      BY <1>1, <2>1 DEF Pending
    <2>3. <<>> \o <<>> = <<>>
      OBVIOUS
    <2> QED BY <1>1, <2>1, <2>2, <2>3, Zenon
  <1>10. PICK v : v = Behind(Unread, s)
    OBVIOUS
  <1>11. Unread.mode = "text" /\ Unread.used = 0 /\ Unread.text = <<>>
    BY DEF Unread, Reading
  <1>12. v \in Readings /\ ReadsTo(f, <<s>>, 2, v)
    <2>1. PICK none \in Seq(Args) : none = <<>>
      BY <1>6
    <2>2. Awaits(Unread, none)
      BY <1>11, <2>1 DEF Awaits
    <2>3. ReadsTo(f, none, 0, Unread) /\ Unread \in Readings
      BY ReadNothing
    <2>4. Takes(f, 0, 115)
      BY <1>5 DEF Takes, Percent
    <2>5. 115 \in Letters /\ Shown(115, s) \in Seq(Bytes) /\ 0 \in Nat
      BY <1>3 DEF Letters
    <2>6. /\ Behind(Unread, Shown(115, s)) \in Readings
          /\ ReadsTo(f, Append(none, s), 0 + 2, Behind(Unread, Shown(115, s)))
      BY <1>3, <2>2, <2>3, <2>4, <2>5, ReadDirective
    <2>7. 0 + 2 = 2 /\ Append(none, s) = <<s>>
      BY <1>6, <2>1
    <2> QED BY <1>3, <1>10, <2>6, <2>7, Zenon
  <1>13. v.mode = "text" /\ v.used = 1 /\ v.text = s
    <2>1. v = Reading(<<>> \o s, 0 + 1, "text")
      BY <1>10, <1>11, Zenon DEF Behind
    <2>2. v.mode = "text" /\ v.used = 0 + 1 /\ v.text = <<>> \o s
      BY <2>1, ReadingFields
    <2>3. <<>> \o s = s
      BY <1>3, ConcatEmptySeq
    <2> QED BY <2>2, <2>3
  <1>14. Said(v) = s
    BY <1>13 DEF Said
  <1>15. PICK g : Reads(g, f, <<s>>, 2) /\ g[2] = v
    BY <1>12, Zenon DEF ReadsTo
  <1>16. written' + Len(data') = Len(Said(v))
    <2>1. Len(s) \in Nat
      BY <1>3, LenProperties
    <2>2. 0 + Len(s) = Len(s)
      BY <2>1
    <2> QED BY <1>1, <1>2, <1>14, <2>2, Zenon
  <1>17. (line' \o Pending') \o data' = Said(v)
    <2>1. <<>> \o s = s
      BY <1>3, ConcatEmptySeq
    <2> QED BY <1>1, <1>9, <1>14, <2>1, Zenon
  <1>18. Told(g, v)'
    BY <1>1, <1>4, <1>6, <1>12, <1>13, <1>15, <1>16, <1>17, Zenon DEF Told
  <1>19. Telling'
    BY <1>18, Zenon DEF Telling
  <1> QED BY <1>1, <1>7, <1>8, <1>19 DEF PrintfInv

LEMMA BootStep ==
  ASSUME PrintfInv, Boot
  PROVE  PrintfInv'
  <1>1. Port' /\ PrintfTyped
    BY PortSetUp DEF PrintfInv
  <1>2. /\ stage = "boot" /\ stage' \in {"boot", "idle"} /\ fmt' = fmt /\ format' = format
        /\ args' = args /\ data' = data /\ written' = written
    BY DEF Boot, printing
  <1>3. PrintfTyped'
    BY <1>1, <1>2 DEF PrintfTyped
  <1> QED BY <1>1, <1>2, <1>3 DEF PrintfInv, Telling

LEMMA NothingStep ==
  ASSUME PrintfInv, UNCHANGED libc
  PROVE  PrintfInv'
  <1>1. /\ chip' = chip /\ uart' = uart /\ setup' = setup /\ line' = line /\ stage' = stage
        /\ fmt' = fmt /\ format' = format /\ args' = args /\ data' = data /\ written' = written
    BY DEF libc, serial, printing
  <1>2. Port' /\ PrintfTyped' /\ Pending' = Pending
    BY <1>1 DEF PrintfInv, Port, PrintfTyped, Pending
  <1>3. \A g, u : Told(g, u) => Told(g, u)'
    BY <1>1, <1>2, Zenon DEF Told
  <1>4. Telling'
    BY <1>1, <1>3, Zenon DEF Telling, PrintfInv
  <1> QED BY <1>1, <1>2, <1>4, Zenon DEF PrintfInv

LEMMA PrintfStep ==
  ASSUME PrintfInv, [LibcNext]_libc
  PROVE  PrintfInv'
  <1>1. CASE Boot
    BY <1>1, BootStep
  <1>2. CASE \E f \in Formats : printf(f)
    <2>1. PICK f \in Seq(Bytes \ {0}) : printf(f)
      BY <1>2, LibcAssumption
    <2> QED BY <2>1, CallStep
  <1>3. CASE puts
    <2>1. <<Percent, 115, 10>> \in Seq(Bytes \ {0})
      BY DEF Percent, Bytes
    <2>2. printf(<<Percent, 115, 10>>)
      BY <1>3, Zenon DEF puts
    <2> QED BY <2>1, <2>2, CallStep
  <1>4. CASE terminal_writestring
    BY <1>4, WriteStringStep
  <1>5. CASE Printing
    <2>1. CASE Literal
      BY <2>1, LiteralStep
    <2>2. CASE PercentC \/ PercentS \/ PercentNumber(100, 10) \/ PercentNumber(120, 16)
      BY <2>2, DirectiveSteps
    <2>3. CASE Unknown
      BY <2>3, UnknownStep
    <2>4. CASE Putchar
      BY <2>4, PutcharStep
    <2>5. CASE Printed \/ printf_return
      BY <2>5, StageStep
    <2>6. CASE Spin
      BY <2>6, NothingStep DEF Spin
    <2> QED BY <1>5, <2>1, <2>2, <2>3, <2>4, <2>5, <2>6 DEF Printing
  <1>6. CASE Transmit
    BY <1>6, TransmitStep
  <1>7. CASE Done \/ UNCHANGED libc
    BY <1>7, NothingStep DEF Done
  <1> QED BY <1>1, <1>2, <1>3, <1>4, <1>5, <1>6, <1>7, Zenon DEF LibcNext

LEMMA PrintfAtFirst ==
  ASSUME LibcInit
  PROVE  PrintfInv
  <1>1. Port
    BY PortAtFirst
  <1>2. /\ stage = "boot" /\ fmt = <<>> /\ format = 0 /\ args = <<>> /\ data = <<>>
        /\ written = 0
    BY DEF LibcInit
  <1>3. PrintfTyped
    BY <1>2 DEF PrintfTyped
  <1> QED BY <1>1, <1>2, <1>3 DEF PrintfInv, Telling

LEMMA PrintfAtLast ==
  ASSUME PrintfInv
  PROVE  PrintfWrites
  <1>1. SUFFICES ASSUME stage = "done"
                 PROVE  /\ written = Len(Expected)
                        /\ line \o Pending = IF chip = "absent" THEN <<>> ELSE Expected
    BY DEF PrintfWrites
  <1>2. data = <<>> /\ format = Len(fmt) /\ PrintfTyped /\ Port
    BY <1>1 DEF PrintfInv
  <1>3. PICK g, u : Told(g, u)
    BY <1>1 DEF PrintfInv, Telling
  <1>4. Reads(g, fmt, args, Len(fmt)) /\ u = g[Len(fmt)]
    BY <1>2, <1>3, Zenon DEF Told
  <1>5. Expected = Said(u)
    BY <1>2, <1>4, FormatBytes, Unfold
  <1>6. written = Len(Expected)
    <2>1. written + Len(data) = Len(Said(u)) /\ Len(data) = 0
      BY <1>2, <1>3, Zenon DEF Told
    <2>2. PICK x : x = Len(Said(u))
      OBVIOUS
    <2>3. written = x
      BY <1>2, <2>1, <2>2 DEF PrintfTyped
    <2> QED BY <1>5, <2>2, <2>3, Zenon
  <1>7. PICK S : S = Nat
    OBVIOUS
  <1>8. PICK p \in Seq(S) : p = line \o Pending
    <2>1. line \in Seq(Nat) /\ Pending \in Seq(Nat)
      BY <1>2 DEF Pending, Port, Uarts
    <2>2. line \o Pending \in Seq(Nat)
      BY <2>1, ConcatProperties
    <2> QED BY <1>7, <2>2, Zenon
  <1>9. CASE chip = "works"
    <2>1. (line \o Pending) \o <<>> = Said(u)
      BY <1>2, <1>3, <1>9, Zenon DEF Told
    <2>2. p \o <<>> = p
      BY ConcatEmptySeq
    <2>3. line \o Pending = Expected
      BY <1>5, <1>8, <2>1, <2>2, Zenon
    <2>4. chip # "absent"
      BY <1>9
    <2> QED BY <1>6, <2>3, <2>4, Zenon
  <1>10. CASE chip = "absent"
    <2>1. line = <<>> /\ Pending = <<>>
      BY <1>2, <1>10 DEF Port, Pending
    <2>2. <<>> \o <<>> = <<>>
      OBVIOUS
    <2> QED BY <1>6, <1>10, <2>1, <2>2, Zenon
  <1> QED BY <1>2, <1>9, <1>10 DEF Port

\* What printf, puts and terminal_writestring were asked to write arrives at the
\* other end of the line, each character once and in order, with the numbers
\* read as numbers; what printf returns is their count.
THEOREM PrintfSays == LibcSpec => []PrintfWrites
  <1>1. PrintfInv /\ [LibcNext]_libc => PrintfInv'
    BY PrintfStep
  <1> QED BY <1>1, PrintfAtFirst, PrintfAtLast, PTL DEF LibcSpec

\* The library as a whole: whichever function is called, printf has put out
\* what its format says and a function on memory has done its work when it
\* returns.
THEOREM LibraryDoes == LibrarySpec => [](PrintfWrites /\ StringsRight)
  <1>1. LibraryInit => LibcInit /\ StringsInit
    BY DEF LibraryInit
  <1>2. ASSUME [LibraryNext]_library
        PROVE  [LibcNext]_libc /\ [StringsNext]_strings
    BY <1>2, Zenon DEF LibraryNext, PrintCall, MemoryCall, library
  <1> QED BY <1>1, <1>2, PrintfSays, StringsDo, PTL DEF LibrarySpec, LibcSpec, StringsSpec
=============================================================================

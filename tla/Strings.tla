------------------------------- MODULE Strings -------------------------------
(***************************************************************************)
(* The functions on memory and strings of the C library (libc/string): one *)
(* call of one of them, one step for each turn of its loop.                *)
(*                                                                         *)
(* d and s are the places a call is given (of the comparisons, the two     *)
(* operands), n is its size and v a value.  The arguments are such that    *)
(* the function is defined for them; what the caller does afterwards is    *)
(* not followed.                                                           *)
(***************************************************************************)
EXTENDS Integers, Sequences

CONSTANTS
  MemSize, Memories,  \* the memory and what it may hold
  Quad,               \* bytes moved by one movsq, 8
  Values              \* what memset is called with

Byte == 0..255
Addresses == 0..(MemSize - 1)

ASSUME StringsAssumption ==
  /\ MemSize \in Nat \ {0} /\ Memories \subseteq [Addresses -> Byte]
  /\ Quad \in Nat \ {0} /\ Values \subseteq Int

VARIABLES
  place,    \* "caller", "loop", "returned"
  call,     \* the function and its arguments
  before,   \* history: the memory that the call found
  mem,
  turn,     \* how many bytes the loop has done
  ret       \* what the call returned

strings == <<place, call, before, mem, turn, ret>>

StringsInit ==
  /\ place = "caller"
  /\ call = [fn |-> "none"]
  /\ before = <<>> /\ mem = <<>>
  /\ turn = 0 /\ ret = 0

-----------------------------------------------------------------------------
(* The calls.                                                              *)

\* The string at s in m has n characters.
Ends(m, s, n) == s + n < MemSize /\ m[s + n] = 0 /\ \A j \in 0..(n - 1) : m[s + j] # 0
Terminated(m, s) == \E n \in 0..MemSize : Ends(m, s, n)
Length(m, s) == CHOOSE n \in 0..MemSize : Ends(m, s, n)

Fits(d, n) == d + n <= MemSize
Disjoint(d, s, n) == d + n <= s \/ s + n <= d

Calls(m) ==
  {a \in [fn : {"memcpy", "fast_memcpy"}, d : Addresses, s : Addresses, n : 0..MemSize] :
     Fits(a.d, a.n) /\ Fits(a.s, a.n) /\ Disjoint(a.d, a.s, a.n)}
  \cup {a \in [fn : {"memmove", "memcmp"}, d : Addresses, s : Addresses, n : 0..MemSize] :
          Fits(a.d, a.n) /\ Fits(a.s, a.n)}
  \cup {a \in [fn : {"memset"}, d : Addresses, n : 0..MemSize, v : Values] : Fits(a.d, a.n)}
  \cup {a \in [fn : {"strlen"}, s : Addresses] : Terminated(m, a.s)}
  \cup {a \in [fn : {"strcmp"}, d : Addresses, s : Addresses] :
          Terminated(m, a.d) /\ Terminated(m, a.s)}
  \cup {a \in [fn : {"strcpy"}, d : Addresses, s : Addresses] :
          /\ Terminated(m, a.s) /\ Fits(a.d, Length(m, a.s))
          /\ Disjoint(a.d, a.s, Length(m, a.s) + 1)}

StringCall ==
  /\ place = "caller"
  /\ place' = "loop"
  /\ \E m \in Memories : before' = m /\ mem' = m /\ call' \in Calls(m)
  /\ turn' = 0
  /\ UNCHANGED ret

-----------------------------------------------------------------------------
(* The loops.                                                              *)

InLoop(fns) == place = "loop" /\ call.fn \in fns

\* The loop goes on after w bytes, or the function returns v.
\* Mutated Turn: the loop variable is not moved on.
TurnLost(w) == turn' = turn /\ UNCHANGED <<place, call, before, ret>>
Turn(w) == turn' = turn + w /\ UNCHANGED <<place, call, before, ret>>
Return(v) == place' = "returned" /\ ret' = v /\ UNCHANGED <<call, before, mem, turn>>

CopyByte(k) == mem' = [mem EXCEPT ![call.d + k] = mem[call.s + k]]

memcpy ==
  /\ InLoop({"memcpy"})
  /\ IF turn < call.n THEN CopyByte(turn) /\ Turn(1) ELSE Return(call.d)

\* Mutated NextByte: the other direction is taken.
NextByteTurned == IF call.d >= call.s THEN turn ELSE call.n - 1 - turn
NextByte == IF call.d < call.s THEN turn ELSE call.n - 1 - turn

memmove ==
  /\ InLoop({"memmove"})
  /\ IF turn < call.n THEN CopyByte(NextByte) /\ Turn(1) ELSE Return(call.d)

\* What rep movsq moves; the loop that follows does the bytes left over.
InQuads == Quad * (call.n \div Quad)

CopyQuad ==
  mem' = [x \in Addresses |->
            IF x \in (call.d + turn)..(call.d + turn + Quad - 1)
              THEN mem[x - call.d + call.s] ELSE mem[x]]

fast_memcpy ==
  /\ InLoop({"fast_memcpy"})
  /\ IF turn < InQuads THEN CopyQuad /\ Turn(Quad)
     ELSE IF turn < call.n THEN CopyByte(turn) /\ Turn(1)
     ELSE Return(call.d + InQuads)

memset ==
  /\ InLoop({"memset"})
  /\ IF turn < call.n THEN mem' = [mem EXCEPT ![call.d + turn] = call.v % 256] /\ Turn(1)
     ELSE Return(call.d)

Left == mem[call.d + turn]
Right == mem[call.s + turn]
Skip == Turn(1) /\ UNCHANGED mem

memcmp ==
  /\ InLoop({"memcmp"})
  /\ IF turn >= call.n THEN Return(0)
     ELSE IF Left < Right THEN Return(-1)
     ELSE IF Left > Right THEN Return(1) ELSE Skip

strlen ==
  /\ InLoop({"strlen"})
  /\ IF Right # 0 THEN Skip ELSE Return(turn)

strcmp ==
  /\ InLoop({"strcmp"})
  /\ IF Left # 0 /\ Left = Right THEN Skip ELSE Return(Left - Right)

\* The 0 that ends the string is not copied.
strcpy ==
  /\ InLoop({"strcpy"})
  /\ IF Right # 0 THEN CopyByte(turn) /\ Turn(1) ELSE Return(call.d)

Loops ==
  \/ memcpy \/ memmove \/ fast_memcpy \/ memset
  \/ memcmp \/ strlen \/ strcmp \/ strcpy

Returned == place = "returned" /\ UNCHANGED strings

StringsNext == StringCall \/ Loops \/ Returned
StringsSpec == StringsInit /\ [][StringsNext]_strings

-----------------------------------------------------------------------------
(* What the functions are for, apart from how they work.                   *)

\* The n bytes from d on become those at s as they were; nothing else changes.
Copied(d, s, n) ==
  mem = [x \in Addresses |-> IF x \in d..(d + n - 1) THEN before[x - d + s] ELSE before[x]]

Filled(d, n, v) ==
  mem = [x \in Addresses |-> IF x \in d..(d + n - 1) THEN v % 256 ELSE before[x]]

Piece(m, s, n) == [j \in 1..n |-> m[s + j - 1]]
StringAt(m, s) == Piece(m, s, Length(m, s))

\* The order of a dictionary.
Precedes(u, v) ==
  \E k \in 0..Len(u) :
    /\ k <= Len(v) /\ \A j \in 1..k : u[j] = v[j]
    /\ k < Len(v)
    /\ k < Len(u) => u[k + 1] < v[k + 1]
Orders(u, v) ==
  /\ ret < 0 <=> Precedes(u, v)
  /\ ret > 0 <=> Precedes(v, u)
  /\ mem = before

\* memmove copies also where the two places overlap, in either direction, the
\* eight bytes at a time of fast_memcpy leave no byte out, and comparing is
\* comparing in the order of the bytes as unsigned numbers.
StringsRight ==
  place = "returned" =>
    /\ call.fn \in {"memmove", "memcpy", "fast_memcpy"} => Copied(call.d, call.s, call.n)
    /\ call.fn = "memset" => Filled(call.d, call.n, call.v)
    /\ call.fn = "memcmp" =>
         Orders(Piece(before, call.d, call.n), Piece(before, call.s, call.n))
    /\ call.fn = "strlen" => ret = Len(StringAt(before, call.s)) /\ mem = before
    /\ call.fn = "strcmp" => Orders(StringAt(before, call.d), StringAt(before, call.s))
    /\ call.fn = "strcpy" => Copied(call.d, call.s, Length(before, call.s))
=============================================================================

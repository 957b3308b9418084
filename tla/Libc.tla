-------------------------------- MODULE Libc --------------------------------
(***************************************************************************)
(* The C library of the kernel: printf, puts and putchar, which write to   *)
(* the serial port (libc/stdio), and the terminal, which does as well.  A  *)
(* caller makes one call.                                                  *)
(*                                                                         *)
(* Characters and bytes are their codes.  A format is the sequence of its  *)
(* characters; the arguments are chosen where va_arg takes them.  INT_MAX  *)
(* is beyond the lengths considered and putchar never returns EOF, so the  *)
(* returns of -1 have no counterpart.                                      *)
(***************************************************************************)
EXTENDS Serial, SequencesExt

CONSTANTS
  Formats, CharArgs, Texts, Ints,  \* what printf is called with
  Word                              \* 2^32, the values of an int

Percent == 37
Bytes == 0..255

ASSUME LibcAssumption ==
  /\ Word \in Nat \ {0} /\ Word % 2 = 0
  /\ Formats \subseteq Seq(Bytes \ {0}) /\ Texts \subseteq Seq(Bytes \ {0})
  /\ CharArgs \subseteq Bytes /\ Ints \subseteq -(Word \div 2)..(Word \div 2 - 1)

VARIABLES
  stage,         \* "boot", "idle", "format", "print", "done"
  fmt, format,   \* the format, and how much of it is used up
  args,          \* history: the arguments taken
  data,          \* what print still has to put out
  written

printing == <<fmt, format, args, data, written>>
libc == <<serial, stage, printing>>

LibcInit ==
  /\ SerialInit
  /\ stage = "boot"
  /\ fmt = <<>> /\ format = 0 /\ args = <<>> /\ data = <<>> /\ written = 0

Boot ==
  /\ stage = "boot"
  /\ serial_initialize
  /\ stage' = IF setup' > Len(SetupWrites) THEN "idle" ELSE "boot"
  /\ UNCHANGED printing

-----------------------------------------------------------------------------
(* printf.                                                                 *)

printf(f) ==
  /\ stage = "idle"
  /\ fmt' = f
  /\ stage' = "format"
  /\ UNCHANGED <<serial, format, args, data, written>>

puts == printf(<<Percent, 115, 10>>)

\* Puts out its string as printf does for "%s".
terminal_writestring ==
  /\ stage = "idle"
  /\ \E s \in Texts : data' = s /\ args' = <<s>>
  /\ fmt' = <<Percent, 115>>
  /\ format' = 2
  /\ stage' = "print"
  /\ UNCHANGED <<serial, written>>

\* format[k], 0 at the end.
At(k) == IF format + k < Len(fmt) THEN fmt[format + k + 1] ELSE 0
\* The characters from format + k up to format + m.
Part(k, m) == SubSeq(fmt, format + k + 1, format + m)

\* print(s, ...), after which the format goes on used characters further.
Put(s, used) ==
  /\ data' = s
  /\ format' = format + used
  /\ stage' = "print"
  /\ UNCHANGED <<serial, fmt, written>>

\* Text, or %% and the text after it, up to the next %.
Literal ==
  LET skip == IF At(0) = Percent THEN 1 ELSE 0
      ends == {k \in 1..Len(fmt) : At(skip + k) \in {0, Percent}}
      amount == CHOOSE k \in ends : \A j \in ends : k <= j
  IN  /\ stage = "format"
      /\ At(0) # 0
      /\ At(0) # Percent \/ At(1) = Percent
      /\ Put(Part(skip, skip + amount), skip + amount)
      /\ UNCHANGED args

Directive(c) == stage = "format" /\ At(0) = Percent /\ At(1) = c

PercentC ==
  /\ Directive(99)
  /\ \E c \in CharArgs : args' = Append(args, c) /\ Put(<<c>>, 2)

PercentS ==
  /\ Directive(115)
  /\ \E s \in Texts : args' = Append(args, s) /\ Put(s, 2)

\* '0' to '9' and 'a' to 'f'.
Digit(k) == IF k < 10 THEN 48 + k ELSE 87 + k

\* The digits as they are put into the buffer, the lowest first.
Buffer(n, base) ==
  LET from[k \in 0..n] ==
        IF k = 0 THEN <<>> ELSE <<Digit(k % base)>> \o from[k \div base]
  IN  IF n = 0 THEN <<48>> ELSE from[n]

\* (unsigned int)(-num).  For INT_MIN the negation overflows and gives INT_MIN
\* again, whatever the build.
\* Mutated Magnitude: the negation is forgotten.
MagnitudeOfInt(num, base) == num % Word
Magnitude(num, base) == IF num < 0 /\ base = 10 THEN (-num) % Word ELSE num % Word

PercentNumber(c, base) ==
  /\ Directive(c)
  /\ \E num \in Ints :
       /\ args' = Append(args, num)
       /\ Put((IF num < 0 /\ base = 10 THEN <<45>> ELSE <<>>)
                  \o Reverse(Buffer(Magnitude(num, base), base)), 2)

\* The first directive that is not known ends the format: the rest is printed
\* as it is.
Unknown ==
  /\ stage = "format"
  /\ At(0) = Percent
  /\ At(1) \notin {Percent, 99, 100, 115, 120}
  /\ Put(Part(0, Len(fmt) - format), Len(fmt) - format)
  /\ UNCHANGED args

Putchar ==
  /\ stage = "print"
  /\ data # <<>>
  /\ serial_putchar(Head(data))
  /\ data' = Tail(data)
  /\ written' = written + 1
  /\ UNCHANGED <<stage, fmt, format, args>>

\* The loop of serial_putchar around is_transmit_empty.
Spin == stage = "print" /\ data # <<>> /\ ~ is_transmit_empty /\ UNCHANGED libc

Printed ==
  /\ stage = "print"
  /\ data = <<>>
  /\ stage' = "format"
  /\ UNCHANGED <<serial, printing>>

printf_return ==
  /\ stage = "format"
  /\ At(0) = 0
  /\ stage' = "done"
  /\ UNCHANGED <<serial, printing>>

Printing ==
  \/ Literal \/ PercentC \/ PercentS \/ Unknown
  \/ PercentNumber(100, 10) \/ PercentNumber(120, 16)
  \/ Putchar \/ Spin \/ Printed \/ printf_return

-----------------------------------------------------------------------------
Transmit == Send /\ UNCHANGED <<stage, printing>>

\* What the caller does afterwards is not followed.
Done == stage = "done" /\ UNCHANGED libc

LibcNext ==
  \/ Boot
  \/ \E f \in Formats : printf(f)
  \/ puts
  \/ terminal_writestring
  \/ Printing
  \/ Transmit
  \/ Done

LibcSpec == LibcInit /\ [][LibcNext]_libc

\* The kernel, which has nothing to wait for but the chip; that goes on sending.
Kernel == Boot \/ Printing

-----------------------------------------------------------------------------
(* What printf is for, apart from how it works.                            *)

\* n in digits.
Numeral(n, base) ==
  LET num[k \in 0..n] ==
        IF k < base THEN <<Digit(k)>> ELSE Append(num[k \div base], Digit(k % base))
  IN  num[n]

IntText(n, base) ==
  IF base = 16 THEN Numeral(n % Word, 16)
  ELSE IF n < 0 THEN <<45>> \o Numeral(-n, 10) ELSE Numeral(n, 10)

Shown(c, a) ==
  IF c = 99 THEN <<a>> ELSE IF c = 115 THEN a ELSE IntText(a, IF c = 100 THEN 10 ELSE 16)

\* How a format reads, character by character: the text so far, how many
\* arguments went into it, and whether the reader is behind a % ("percent") or
\* behind a directive that is not known ("rest").
Reading(t, used, mode) == [text |-> t, used |-> used, mode |-> mode]
Unread == Reading(<<>>, 0, "text")
Read(u, c, vals) ==
  IF u.mode = "text" /\ c = Percent THEN Reading(u.text, u.used, "percent")
  ELSE IF u.mode = "percent" /\ c \in {99, 100, 115, 120} THEN
    Reading(u.text \o Shown(c, vals[u.used + 1]), u.used + 1, "text")
  ELSE IF u.mode = "percent" /\ c # Percent THEN
    Reading(u.text \o <<Percent, c>>, u.used, "rest")
  ELSE Reading(Append(u.text, c), u.used, IF u.mode = "rest" THEN "rest" ELSE "text")
Said(u) == IF u.mode = "percent" THEN Append(u.text, Percent) ELSE u.text

\* What the format says.
Expected ==
  LET read[k \in 0..Len(fmt)] ==
        IF k = 0 THEN Unread ELSE Read(read[k - 1], fmt[k], args)
  IN  Said(read[Len(fmt)])

\* The byte the chip still holds.
Pending == IF uart.thr = None THEN <<>> ELSE <<uart.thr>>

\* What printf was asked to write arrives at the other end of the line, each
\* character once and in order, with the numbers read as numbers, and what it
\* returns is their count; a port that does not answer loses it all but holds
\* nobody up.
PrintfWrites ==
  stage = "done" =>
    /\ written = Len(Expected)
    /\ line \o Pending = IF chip = "absent" THEN <<>> ELSE Expected
=============================================================================

------------------------------- MODULE Serial -------------------------------
(***************************************************************************)
(* The serial port: serial_initialize and serial_putchar of                *)
(* kernel/arch/x86_64/serial.c and the 16550 chip they program.            *)
(*                                                                         *)
(* Offsets 0 and 1 are the divisor while bit 7 of the line control         *)
(* register (3) is set; with bit 4 of the modem control register (4) set   *)
(* the chip hears itself and nothing reaches the line.  The receiver       *)
(* expects what the comments say: 38400 baud, 8 bits, no parity, one stop. *)
(***************************************************************************)
EXTENDS Integers, Sequences

CONSTANTS
  Chips   \* "works", "absent"

ASSUME SerialAssumption == Chips \subseteq {"works", "absent"}

VARIABLES
  chip,
  uart,     \* the registers
  setup,    \* how many of the writes of serial_initialize are done
  line      \* history: the bytes sent

serial == <<chip, uart, setup, line>>

None == 256
Garbage == 257
TestByte == 174

Latch(u) == u.lcr \div 128 = 1
Loop(u) == (u.mcr \div 16) % 2 = 1

\* Firmware may have used the port before.
SerialInit ==
  /\ chip \in Chips
  /\ \E l \in {0, 131}, m \in {0, 16} :
       /\ chip = "absent" => l + m = 0
       /\ uart = [low |-> 12, high |-> 1, ier |-> 0, lcr |-> l, mcr |-> m,
                  thr |-> None, rbr |-> None]
  /\ setup = 0
  /\ line = <<>>

\* outb(PORT + reg, v)
Written(u, reg, v) ==
  IF chip = "absent" THEN u ELSE
  CASE reg = 0 -> IF Latch(u) THEN [u EXCEPT !.low = v]
                  ELSE IF Loop(u) THEN [u EXCEPT !.rbr = v]
                  ELSE [u EXCEPT !.thr = v]
    [] reg = 1 -> IF Latch(u) THEN [u EXCEPT !.high = v] ELSE [u EXCEPT !.ier = v]
    [] reg = 2 -> [u EXCEPT !.rbr = None, !.thr = None]
    [] reg = 3 -> [u EXCEPT !.lcr = v]
    [] reg = 4 -> [u EXCEPT !.mcr = v]

\* The writes of serial_initialize, up to the test of the chip.  The test takes
\* the byte received; what it says is returned to nobody and changes nothing.
SetupWrites == << <<1, 0>>, <<3, 128>>, <<0, 3>>, <<1, 0>>, <<3, 3>>,
                  <<2, 199>>, <<4, 11>>, <<4, 30>>, <<0, TestByte>> >>

SetupDone == setup > Len(SetupWrites)

serial_initialize ==
  LET n == setup + 1 IN
  /\ ~ SetupDone
  /\ setup' = n
  /\ uart' = IF n <= Len(SetupWrites)
               THEN Written(uart, SetupWrites[n][1], SetupWrites[n][2])
               ELSE [Written(uart, 4, 15) EXCEPT !.rbr = None]
  /\ UNCHANGED <<chip, line>>

\* A port where nothing answers reads as all ones.
\* Mutated is_transmit_empty: bit 0, a byte received, is tested.
is_transmit_emptyBit0 == chip = "absent" \/ uart.rbr # None
is_transmit_empty == chip = "absent" \/ uart.thr = None

serial_putchar(c) ==
  /\ is_transmit_empty
  /\ uart' = Written(uart, 0, c)
  /\ UNCHANGED <<chip, setup, line>>

\* The chip sends the byte it holds.
Send ==
  /\ uart.thr # None
  /\ line' = Append(line, IF uart.low = 3 /\ uart.high = 0 /\ uart.lcr = 3
                            THEN uart.thr ELSE Garbage)
  /\ uart' = [uart EXCEPT !.thr = None]
  /\ UNCHANGED <<chip, setup>>
=============================================================================

---------------------------- MODULE TrapConsole ----------------------------
(***************************************************************************)
(* What the console should show when uart_puts (src/kernel/uart.c) and the *)
(* handlers of Trap print at the same time.                                *)
(***************************************************************************)
EXTENDS Trap, SequencesExt, FiniteSetsExt

\* Everything that was written to the UART and not sent yet, after what was.
Console == out \o fifo

\* n in base b with w digits.
DigitCodes == <<48, 49, 50, 51, 52, 53, 54, 55, 56, 57, 65, 66, 67, 68, 69, 70>>
Numeral(n, b, w) == [k \in 1 .. w |-> DigitCodes[((n \div b ^ (w - k)) % b) + 1]]

TickLines(time) ==
  LET width == Min({w \in 1 .. 9 : time < 10 ^ w})
  IN  Numeral(SCAUSE_INTR_FLAG + IRQ_S_TIMER, 16, HexDigits) \o Numeral(IRQ_S_TIMER, 16, HexDigits)
      \o <<NL>> \o Numeral(time, 10, width) \o <<NL>>

(***************************************************************************)
(* No character is lost, doubled or moved, although uart_putc reads LSR    *)
(* and writes THR in two steps and handlers print in between: the console  *)
(* shows what uart_puts has printed so far, and the lines of all handlers  *)
(* whole, with the numbers right (print_hex64, uart_dec64).                *)
(***************************************************************************)
ConsoleExact ==
  LET where == IF at = "program" THEN pc
               ELSE IF InMMode /\ mepc[1] = "program" THEN mepc[2]
               ELSE csr["sepc"]
      done == want[s0] - (IF where = 1 THEN 1 ELSE 2)
      printing == {"handler", "halted"} \cap {at, IF InMMode THEN mepc[1] ELSE at} # {}
  IN  at # "uart_init" =>
        /\ SelectSeq(Console, LAMBDA c : c >= 97) = SubSeq(Text, 1, done)
        /\ printing \/ SelectSeq(Console, LAMBDA c : c < 97)
                         = FlattenSeq([k \in DOMAIN times |-> TickLines(times[k])])

FaultLine == FlattenSeq([k \in 1 .. 3 |->
               Numeral(<<EXC_LOAD_PAGE_FAULT, csr["sepc"], csr["stval"]>>[k], 16, HexDigits)]) \o <<NL>>

\* uart_puts returns, and all of its text is sent, unless the kernel halts
\* after a fault, whose cause and place it prints first (handle_exception).
PrintsAll ==
  <>(\/ SelectSeq(out, LAMBDA c : c >= 97) = Text
     \/ at = "halted" /\ IsSuffix(FaultLine, out))
=============================================================================

-------------------------------- MODULE Trap -------------------------------
(***************************************************************************)
(* Traps by the instruction, and the console: trap_vector (src/asm/trap.S) *)
(* saves and restores what it interrupts in a frame on the stack, around   *)
(* trap_handler (src/kernel/trap.c), which prints and sets the next tick;  *)
(* mtrap_vector (src/asm/mtrap.S) does the same on a stack of its own for  *)
(* the timer and the ecall of S-mode.  What is interrupted is uart_puts    *)
(* (src/kernel/uart.c), which keeps all it knows in registers.             *)
(*                                                                         *)
(* Registers, words of memory and control registers hold integers; memory  *)
(* is addressed by the word of eight bytes, characters are ASCII codes.    *)
(***************************************************************************)
EXTENDS Integers, Sequences

CONSTANTS
  Text,        \* what uart_puts is to print: lower-case letters
  Times,       \* what get_time may return
  HexDigits,   \* print_hex64 prints so many (16): registers are this wide
  FIFO_SIZE,   \* characters that the UART's transmitter holds (16)
  MaxTicks     \* bound: this many machine timer interrupts

ASSUME TrapAssumption ==
  /\ Text \in Seq(97 .. 122) /\ Times \subseteq Nat
  /\ HexDigits \in Nat \ {0, 1} /\ FIFO_SIZE \in Nat \ {0} /\ MaxTicks \in Nat

VARIABLES
  at, pc,          \* the code that the hart is in, and where
  x, csr, mem,     \* registers x1 .. x31, control registers, the two stacks
  mepc,            \* where mret leads
  mtie, stip,
  fifo_on, fifo,   \* the UART: is its FIFO enabled; what is in it
  todo, thre,      \* trap_handler: characters to print; the last LSR read
  out,             \* what the UART has sent (ghost)
  want,            \* the registers as uart_puts left them (ghost)
  times, ticks     \* what handlers read from get_time; machine interrupts (ghosts)

machine == <<x, csr, mepc, mem>>
uart == <<fifo_on, fifo, out>>
ghosts == <<want, times, ticks>>
vars == <<at, pc, machine, mtie, stip, uart, todo, thre, ghosts>>

ra == 1
sp == 2
t0 == 5
t1 == 6
t2 == 7
s0 == 8
a0 == 10
a5 == 15
a7 == 17
CalleeSaved == {sp, 3, 4, s0, 9} \cup 18 .. 27

TOP == 37          \* sp before the trap: below it there is one frame
M_TOP == 42        \* m_stack_top
SIE == 2
SPIE == 32
NL == 10
Unset == -1

SCAUSE_INTR_FLAG == 8 * 16 ^ (HexDigits - 1)
IRQ_S_TIMER == 5
EXC_LOAD_PAGE_FAULT == 13
ECALL_S == 9
M_TIMER == 7

Init ==
  /\ at = "uart_init" /\ pc = 1
  /\ x = [r \in 1 .. 31 |-> IF r = sp THEN TOP ELSE IF r = s0 THEN 1 ELSE 1000 + r]
  /\ csr = [c \in {"sstatus", "sepc", "scause", "stval", "mscratch", "mcause"} |->
              CASE c = "sstatus" -> SIE [] c = "mscratch" -> M_TOP [] OTHER -> 0]
  /\ mepc = <<"program", 1>>
  /\ mem = [w \in 1 .. (M_TOP - 1) |-> Unset]
  /\ mtie = TRUE /\ stip = FALSE
  /\ fifo_on = FALSE /\ fifo = <<>> /\ out = <<>>
  /\ todo = <<>> /\ thre = FALSE
  /\ want = x /\ times = <<>> /\ ticks = 0

-----------------------------------------------------------------------------
(***************************************************************************)
(* The instructions that the two vectors are made of; h is the machine.    *)
(***************************************************************************)
addi(r, b, n) == [op |-> "addi", r |-> r, b |-> b, n |-> n]
sd(r, n, b) == [op |-> "sd", r |-> r, b |-> b, n |-> n]
ld(r, n, b) == [op |-> "ld", r |-> r, b |-> b, n |-> n]
saves(R) == [op |-> "saves", R |-> R]   \* sd r, r(sp), one r of R after the other
loads(R) == [op |-> "loads", R |-> R]   \* ld r, r(sp)
csrr(r, c) == [op |-> "csrr", r |-> r, c |-> c]
csrw(c, r) == [op |-> "csrw", r |-> r, c |-> c]
csrrw(r, c) == [op |-> "csrrw", r |-> r, c |-> c]

Hart(regs, csrs, stacks) == [x |-> regs, csr |-> csrs, mem |-> stacks]

Exec(h, i) ==
  LET Reg(v) == [h.x EXCEPT ![i.r] = v]
      Csr == [h.csr EXCEPT ![i.c] = h.x[i.r]]
      Slot(w) == w - h.x[sp]
  IN  CASE i.op = "addi" -> Hart(Reg(h.x[i.b] + i.n), h.csr, h.mem)
        [] i.op = "sd" -> Hart(h.x, h.csr, [h.mem EXCEPT ![h.x[i.b] + i.n] = h.x[i.r]])
        [] i.op = "ld" -> Hart(Reg(h.mem[h.x[i.b] + i.n]), h.csr, h.mem)
        [] i.op = "saves" ->
             Hart(h.x, h.csr, [w \in DOMAIN h.mem |-> IF Slot(w) \in i.R THEN h.x[Slot(w)] ELSE h.mem[w]])
        [] i.op = "loads" ->
             Hart([r \in 1 .. 31 |-> IF r \in i.R THEN h.mem[h.x[sp] + r] ELSE h.x[r]], h.csr, h.mem)
        [] i.op = "csrr" -> Hart(Reg(h.csr[i.c]), h.csr, h.mem)
        [] i.op = "csrw" -> Hart(h.x, Csr, h.mem)
        [] i.op = "csrrw" -> Hart(Reg(h.csr[i.c]), Csr, h.mem)

Machine == Hart(x, csr, mem)
Becomes(h) == x' = h.x /\ csr' = h.csr /\ mem' = h.mem /\ UNCHANGED mepc

\* A faulty variant: t0 is saved with the others, after its use.
Save_LateT0 ==
  <<addi(sp, sp, -36), saves({ra}), addi(t0, sp, 36), sd(t0, 2, sp), saves({3, 4}), saves(5 .. 31)>>

\* Allocate the frame; ra, t0 and, by way of t0, the old sp; the rest.
Save ==
  <<addi(sp, sp, -36), saves({ra}), saves({t0}), addi(t0, sp, 36), sd(t0, 2, sp),
    saves({3, 4}), saves(6 .. 31)>>

SaveCsrs ==
  <<csrr(t0, "sstatus"), sd(t0, 32, sp), csrr(t0, "sepc"), sd(t0, 33, sp),
    csrr(t0, "scause"), sd(t0, 34, sp), csrr(t0, "stval"), sd(t0, 35, sp), addi(a0, sp, 0)>>

\* A faulty variant: t0 is restored first, and used after that.
Restore_EarlyT0 ==
  <<loads({ra, t0}), ld(t0, 32, sp), csrw("sstatus", t0), ld(t0, 33, sp), csrw("sepc", t0),
    loads({3, 4} \cup 6 .. 31), ld(sp, 2, sp)>>

\* The control registers by way of t0; the rest, sp last.
Restore ==
  <<ld(t0, 32, sp), csrw("sstatus", t0), ld(t0, 33, sp), csrw("sepc", t0),
    loads({ra}), loads({3, 4}), loads({t0}), loads({t1}), loads({t2}), loads({s0, 9}),
    loads({a0}), loads(11 .. 16), loads({a7}), loads(18 .. 31), ld(sp, 2, sp)>>

Entry == Save \o SaveCsrs

-----------------------------------------------------------------------------
(***************************************************************************)
(* mtrap_vector runs with all interrupts off.                              *)
(***************************************************************************)
\* mtrap_vector up to the dispatch.
MSave ==
  <<csrrw(t0, "mscratch"), addi(t0, t0, -5), sd(t1, 0, t0), sd(t2, 1, t0), sd(a0, 2, t0),
    sd(a7, 3, t0), csrr(t1, "mscratch"), sd(t1, 4, t0), csrr(t1, "mcause")>>

MRestore ==
  <<ld(t2, 1, t0), ld(a0, 2, t0), ld(a7, 3, t0), addi(t1, t0, 5), csrw("mscratch", t1),
    ld(t1, 0, t0), ld(t0, 4, t0)>>

\* The trap; ret is where mret is to lead.
MTrap(cause, ret) ==
  /\ csr' = [csr EXCEPT !["mcause"] = cause]
  /\ mepc' = ret
  /\ at' = "m_save" /\ pc' = 1
  /\ UNCHANGED <<x, mem, mtie, stip, uart, todo, thre, want, times>>

InMMode == at \in {"m_save", "m_restore"}

MachineTimer ==
  /\ mtie /\ ~ InMMode /\ at # "uart_init" /\ ticks < MaxTicks
  /\ MTrap(M_TIMER, <<at, pc>>)
  /\ ticks' = ticks + 1

\* The ecall of set_timer; mepc is moved past it.
Ecall == at = "ecall" /\ MTrap(ECALL_S, <<"yield", 1>>) /\ UNCHANGED ticks

\* The timer is handed on to S-mode, or set and its tick taken back.  All else
\* is m_panic, which has no step here: to come to it is a deadlock.
MDispatch ==
  /\ at = "m_save" /\ pc = Len(MSave) + 1
  /\ \/ x[t1] = M_TIMER /\ mtie' = FALSE /\ stip' = TRUE /\ at' = "m_restore"
     \/ x[t1] = ECALL_S /\ x[a7] = 0 /\ mtie' = TRUE /\ stip' = FALSE /\ at' = "m_restore"
  /\ x' = [x EXCEPT ![t1] = Unset, ![t2] = Unset]
  /\ pc' = 1
  /\ UNCHANGED <<csr, mepc, mem, uart, todo, thre, ghosts>>

Mret ==
  /\ at = "m_restore" /\ pc = Len(MRestore) + 1
  /\ at' = mepc[1] /\ pc' = mepc[2]
  /\ UNCHANGED <<machine, mtie, stip, uart, todo, thre, ghosts>>

-----------------------------------------------------------------------------
(***************************************************************************)
(* The UART.  A character that is written to a full transmitter takes the  *)
(* place of another; LSR says whether the transmitter is empty.            *)
(***************************************************************************)
\* A faulty variant: the FIFO is not enabled.
uart_init_NoFifo ==
  /\ at = "uart_init" /\ at' = "program"
  /\ UNCHANGED <<pc, machine, mtie, stip, uart, todo, thre, ghosts>>

\* The divisor, the format, and the FIFO, enabled and cleared.
uart_init ==
  /\ at = "uart_init" /\ at' = "program"
  /\ fifo_on' = TRUE /\ fifo' = <<>>
  /\ UNCHANGED <<pc, machine, mtie, stip, out, todo, thre, ghosts>>

Depth == IF fifo_on THEN FIFO_SIZE ELSE 1
Write(c) ==
  /\ fifo' = Append(IF Len(fifo) < Depth THEN fifo ELSE Tail(fifo), c)
  /\ UNCHANGED <<fifo_on, out>>

UartSends ==
  /\ fifo # <<>>
  /\ out' = Append(out, Head(fifo)) /\ fifo' = Tail(fifo)
  /\ UNCHANGED <<at, pc, machine, mtie, stip, fifo_on, todo, thre, ghosts>>

-----------------------------------------------------------------------------
(***************************************************************************)
(* uart_puts and uart_putc: s0 is str, a0 the character, a5 what LSR read. *)
(***************************************************************************)
Set(y) == x' = y /\ want' = y /\ UNCHANGED <<csr, mepc, mem>>

NextChar ==
  /\ at = "program" /\ pc = 1 /\ x[s0] <= Len(Text)
  /\ Set([x EXCEPT ![a0] = Text[x[s0]], ![s0] = @ + 1])
  /\ pc' = 2
  /\ UNCHANGED <<at, mtie, stip, uart, todo, thre, times, ticks>>

ReadLsr ==
  /\ at = "program" /\ pc = 2
  /\ Set([x EXCEPT ![a5] = IF fifo = <<>> THEN 1 ELSE 0])
  /\ pc' = 3
  /\ UNCHANGED <<at, mtie, stip, uart, todo, thre, times, ticks>>

\* A faulty variant: LSR is not read again.
WriteThr_Cached ==
  /\ at = "program" /\ pc = 3
  /\ IF x[a5] = 0 THEN UNCHANGED <<pc, uart>>
                  ELSE pc' = 1 /\ Write(x[a0])
  /\ UNCHANGED <<at, machine, mtie, stip, todo, thre, ghosts>>

WriteThr ==
  /\ at = "program" /\ pc = 3
  /\ IF x[a5] = 0 THEN pc' = 2 /\ UNCHANGED uart
                  ELSE pc' = 1 /\ Write(x[a0])
  /\ UNCHANGED <<at, machine, mtie, stip, todo, thre, ghosts>>

\* uart_puts has returned; ticks may come, or not.
Printed == at = "program" /\ pc = 1 /\ x[s0] > Len(Text) /\ UNCHANGED vars

-----------------------------------------------------------------------------
(***************************************************************************)
(* Traps to S-mode.  SIE moves to SPIE: it was set, or there is no tick.   *)
(***************************************************************************)
TakeTrap(cause) ==
  /\ at = "program"
  /\ csr' = [csr EXCEPT !["sepc"] = pc, !["scause"] = cause, !["sstatus"] = SPIE]
  /\ at' = "entry" /\ pc' = 1
  /\ UNCHANGED <<x, mepc, mem, mtie, stip, uart, todo, thre, ghosts>>

SupervisorTimer == stip /\ TakeTrap(SCAUSE_INTR_FLAG + IRQ_S_TIMER)

\* What is interrupted may be other code than uart_puts, and fault.
Fault == TakeTrap(EXC_LOAD_PAGE_FAULT)

\* An instruction of trap_vector before the call, or after it.
VectorStep(where, code) ==
  /\ at = where /\ pc <= Len(code)
  /\ Becomes(Exec(Machine, code[pc]))
  /\ pc' = pc + 1
  /\ UNCHANGED <<at, mtie, stip, uart, todo, thre, ghosts>>

Sret ==
  /\ at = "exit" /\ pc = Len(Restore) + 1
  /\ csr' = [csr EXCEPT !["sstatus"] = IF @ \in {SPIE, SPIE + SIE} THEN SPIE + SIE ELSE SPIE]
  /\ at' = "program" /\ pc' = csr["sepc"]
  /\ UNCHANGED <<x, mepc, mem, mtie, stip, uart, todo, thre, ghosts>>

-----------------------------------------------------------------------------
(***************************************************************************)
(* trap_handler: what it prints, and what it does after that.              *)
(***************************************************************************)
Ascii(d) == IF d > 9 THEN d + 55 ELSE d + 48

\* The nibbles from the highest down.
print_hex64(val) ==
  [k \in 1 .. HexDigits |-> Ascii((val \div 16 ^ (HexDigits - k)) % 16)]

\* buffer, the lowest digit first, when num is left to be converted.
Buffer[num \in Nat] == IF num = 0 THEN <<>> ELSE <<48 + (num % 10)>> \o Buffer[num \div 10]

\* It is printed from its end.
uart_dec64(num) ==
  LET buffer == Buffer[num]
      i == Len(buffer)
  IN  IF num = 0 THEN <<48>> ELSE [k \in 1 .. i |-> buffer[i + 1 - k]]

IsInterrupt(scause) == scause >= SCAUSE_INTR_FLAG

\* scause, sepc and stval.  The dump of the frame and the wording are left out.
handle_exception(ctx) ==
  print_hex64(mem[ctx + 34]) \o print_hex64(mem[ctx + 33]) \o print_hex64(mem[ctx + 35]) \o <<NL>>

\* The call.  ctx is a0; C code may use all registers but the callee-saved.
trap_handler(time) ==
  LET scause == mem[x[a0] + 34]
      irq_code == scause - SCAUSE_INTR_FLAG
  IN  /\ at = "entry" /\ pc = Len(Entry) + 1
      /\ IF IsInterrupt(scause)
         THEN /\ todo' = print_hex64(scause) \o print_hex64(irq_code) \o <<NL>>
                         \o uart_dec64(time) \o <<NL>>
              /\ times' = Append(times, time)
         ELSE todo' = handle_exception(x[a0]) /\ UNCHANGED times
      /\ at' = "handler"
      /\ x' = [r \in 1 .. 31 |-> IF r \in CalleeSaved THEN x[r] ELSE Unset]
      /\ thre' = FALSE
      /\ UNCHANGED <<pc, csr, mepc, mem, mtie, stip, uart, want, ticks>>

HandlerReadLsr ==
  /\ at = "handler" /\ todo # <<>> /\ ~ thre
  /\ thre' = (fifo = <<>>)
  /\ UNCHANGED <<at, pc, machine, mtie, stip, uart, todo, ghosts>>

HandlerWriteThr ==
  /\ at = "handler" /\ todo # <<>> /\ thre
  /\ Write(Head(todo)) /\ todo' = Tail(todo)
  /\ thre' = FALSE
  /\ UNCHANGED <<at, pc, machine, mtie, stip, ghosts>>

\* handle_timer_interrupt goes on to set_timer, handle_exception never ends.
HandlerPrinted ==
  /\ at = "handler" /\ todo = <<>>
  /\ IF IsInterrupt(mem[x[sp] + 34])
     THEN at' = "ecall" /\ x' = [x EXCEPT ![a0] = times[Len(times)], ![a7] = 0]
     ELSE at' = "halted" /\ UNCHANGED x
  /\ UNCHANGED <<pc, csr, mepc, mem, mtie, stip, uart, todo, thre, ghosts>>

\* yield returns, at once or after other processes ran (Sched): they leave
\* registers and stack of this one alone.
YieldReturns ==
  /\ at = "yield"
  /\ at' = "exit" /\ pc' = 1
  /\ UNCHANGED <<machine, mtie, stip, uart, todo, thre, ghosts>>

Halted == at = "halted" /\ UNCHANGED vars

-----------------------------------------------------------------------------
Instruction ==
  \/ uart_init \/ NextChar \/ ReadLsr \/ WriteThr
  \/ VectorStep("entry", Entry) \/ VectorStep("exit", Restore) \/ Sret
  \/ (\E time \in Times : trap_handler(time)) \/ HandlerReadLsr \/ HandlerWriteThr
  \/ HandlerPrinted \/ Ecall \/ YieldReturns
  \/ VectorStep("m_save", MSave) \/ MDispatch \/ VectorStep("m_restore", MRestore) \/ Mret

Next == Instruction \/ UartSends \/ MachineTimer \/ SupervisorTimer \/ Fault
        \/ Printed \/ Halted

Spec == Init /\ [][Next]_vars

\* The hart keeps executing and the UART sending; nothing says that the
\* timer ticks.
FairSpec == Spec /\ WF_vars(Instruction) /\ WF_vars(UartSends)

-----------------------------------------------------------------------------
(***************************************************************************)
(* A trap leaves no trace: whenever uart_puts executes, after any number   *)
(* of ticks in S-mode and M-mode, also of one that hit the way back out of *)
(* trap_vector, every register is as uart_puts left it and interrupts are  *)
(* enabled (trap.S, mtrap.S); and outside M-mode mscratch is at the top of *)
(* m_stack, which traps do not creep down.                                 *)
(***************************************************************************)
TrapTransparent ==
  /\ at = "program" => x = want /\ csr["sstatus"] \in {SIE, SPIE + SIE}
  /\ ~ InMMode => csr["mscratch"] = M_TOP

(***************************************************************************)
(* The frame that trap_handler is given, and that dump_registers prints,   *)
(* holds the 31 registers of the interrupted code and its pc: "Save t0     *)
(* before using it to recover the original stack pointer" (trap.S:19).     *)
(***************************************************************************)
FrameExact ==
  at \in {"handler", "ecall", "yield"} =>
    /\ \A r \in 1 .. 31 : mem[x[sp] + r] = want[r]
    /\ mem[x[sp] + 33] = csr["sepc"] /\ mem[x[sp] + 34] = csr["scause"]
=============================================================================

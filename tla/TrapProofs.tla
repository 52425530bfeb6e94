----------------------------- MODULE TrapProofs ----------------------------
(***************************************************************************)
(* Proofs about Trap: whatever uart_puts prints and however often and      *)
(* wherever the timer interrupts, in trap_vector, in the handler or on the *)
(* way back, the interrupted code finds its registers as it left them, and *)
(* the handler is given the frame of exactly that code.                    *)
(*                                                                         *)
(* Neither is inductive: what a register holds after sret was put into a   *)
(* frame some thirty instructions earlier.  The invariant says for each    *)
(* instruction of the two vectors which registers are saved by then, and   *)
(* which are restored.  In M-mode there are two sets of registers: those   *)
(* that the hart has and those that it will have after mret, of which the  *)
(* invariant of S-mode goes on to speak.                                   *)
(***************************************************************************)
EXTENDS Trap, TLAPS

Registers == 1 .. 31
Words == 1 .. (M_TOP - 1)
Csrs == {"sstatus", "sepc", "scause", "stval", "mscratch", "mcause"}

\* The bottom of the trap frame, and of the frame in m_stack.
FRAME == TOP - 36
M_FRAME == M_TOP - 5

IsFile(y) == y = [r \in Registers |-> y[r]]

Shape ==
  /\ IsFile(x) /\ IsFile(want) /\ want[sp] = TOP
  /\ csr = [c \in Csrs |-> csr[c]]
  /\ mem = [w \in Words |-> mem[w]]

\* Before instruction p of Entry, where y are the registers.
EntryAt(p, y) ==
  /\ p \in 1 .. 17 /\ csr["sstatus"] = SPIE
  /\ y[sp] = IF p = 1 THEN TOP ELSE FRAME
  /\ \A r \in Registers \ {sp} : (r = t0 => p < 5) /\ (r = a0 => p < 17) => y[r] = want[r]
  /\ p > 2 => mem[FRAME + ra] = want[ra]
  /\ p > 3 => mem[FRAME + t0] = want[t0]
  /\ p > 5 => mem[FRAME + sp] = want[sp]
  /\ p > 6 => \A r \in {3, 4} : mem[FRAME + r] = want[r]
  /\ p > 7 => \A r \in 6 .. 31 : mem[FRAME + r] = want[r]
  /\ p = 5 => y[t0] = TOP
  /\ p = 9 => y[t0] = SPIE
  /\ p > 9 => mem[FRAME + 32] = SPIE
  /\ p = 11 => y[t0] = csr["sepc"]
  /\ p > 11 => mem[FRAME + 33] = csr["sepc"]
  /\ p = 13 => y[t0] = csr["scause"]
  /\ p > 13 => mem[FRAME + 34] = csr["scause"]

\* The frame when it is complete.
Frame ==
  /\ csr["sstatus"] = SPIE
  /\ \A r \in Registers : mem[FRAME + r] = want[r]
  /\ mem[FRAME + 32] = SPIE /\ mem[FRAME + 33] = csr["sepc"] /\ mem[FRAME + 34] = csr["scause"]

\* Before instruction p of Restore.
ExitAt(p, y) ==
  /\ p \in 1 .. 16 /\ Frame
  /\ y[sp] = IF p < 16 THEN FRAME ELSE TOP
  /\ p = 2 => y[t0] = SPIE
  /\ p = 4 => y[t0] = csr["sepc"]
  /\ p > 5 => y[ra] = want[ra]
  /\ p > 6 => \A r \in {3, 4} : y[r] = want[r]
  /\ p > 7 => y[t0] = want[t0]
  /\ p > 8 => y[t1] = want[t1]
  /\ p > 9 => y[t2] = want[t2]
  /\ p > 10 => \A r \in {s0, 9} : y[r] = want[r]
  /\ p > 11 => y[a0] = want[a0]
  /\ p > 12 => \A r \in 11 .. 16 : y[r] = want[r]
  /\ p > 13 => y[a7] = want[a7]
  /\ p > 14 => \A r \in 18 .. 31 : y[r] = want[r]

\* S-mode at place p of a, where y are the registers.
InS(a, p, y) ==
  \/ a \in {"uart_init", "program"} /\ y = want /\ csr["sstatus"] \in {SIE, SPIE + SIE}
  \/ a = "entry" /\ EntryAt(p, y)
  \/ a \in {"handler", "ecall", "yield", "halted"} /\ y[sp] = FRAME /\ Frame
  \/ a = "exit" /\ ExitAt(p, y)

\* Before instruction pc of MSave and of MRestore, where y are the registers
\* of S-mode.
MSaveAt(y) ==
  /\ pc \in 1 .. 10
  /\ \A r \in Registers \ {t0, t1} : x[r] = y[r]
  /\ x[t0] = IF pc = 1 THEN y[t0] ELSE IF pc = 2 THEN M_TOP ELSE M_FRAME
  /\ pc < 8 => x[t1] = y[t1]
  /\ pc = 8 => x[t1] = y[t0]
  /\ csr["mscratch"] = IF pc = 1 THEN M_TOP ELSE y[t0]
  /\ pc > 3 => mem[M_FRAME] = y[t1]
  /\ pc > 4 => mem[M_FRAME + 1] = y[t2]
  /\ pc > 5 => mem[M_FRAME + 2] = y[a0]
  /\ pc > 6 => mem[M_FRAME + 3] = y[a7]
  /\ pc > 8 => mem[M_FRAME + 4] = y[t0]

MRestoreAt(y) ==
  /\ pc \in 1 .. 8
  /\ mem[M_FRAME] = y[t1] /\ mem[M_FRAME + 1] = y[t2] /\ mem[M_FRAME + 2] = y[a0]
  /\ mem[M_FRAME + 3] = y[a7] /\ mem[M_FRAME + 4] = y[t0]
  /\ \A r \in Registers \ {t0, t1, t2, a0, a7} : x[r] = y[r]
  /\ x[t0] = IF pc < 8 THEN M_FRAME ELSE y[t0]
  /\ pc > 1 => x[t2] = y[t2]
  /\ pc > 2 => x[a0] = y[a0]
  /\ pc > 3 => x[a7] = y[a7]
  /\ pc = 5 => x[t1] = M_TOP
  /\ pc > 5 => csr["mscratch"] = M_TOP
  /\ pc > 6 => x[t1] = y[t1]

\* M-mode will go back to S-mode with the registers y.
Returns(y) == IsFile(y) /\ InS(mepc[1], mepc[2], y)

XInv ==
  /\ Shape
  /\ ~ InMMode => csr["mscratch"] = M_TOP /\ InS(at, pc, x)
  /\ at = "m_save" => \E y : Returns(y) /\ MSaveAt(y)
  /\ at = "m_restore" => \E y : Returns(y) /\ MRestoreAt(y)

-----------------------------------------------------------------------------
(***************************************************************************)
(* Instructions                                                            *)
(***************************************************************************)
\* The hart after an instruction.
LEMMA HartIs ==
  /\ \A y, c, m : Becomes(Hart(y, c, m)) => x' = y /\ csr' = c /\ mem' = m
  /\ Machine.x = x /\ Machine.csr = csr /\ Machine.mem = mem
  BY Zenon DEF Becomes, Machine, Hart

\* What the instructions do to the registers and the stacks.
SetsReg(r, v) ==
  /\ Shape' /\ x'[r] = v /\ csr' = csr /\ mem' = mem
  /\ \A q \in Registers : q # r => x'[q] = x[q]

SetsWord(w, v) ==
  /\ Shape' /\ mem'[w] = v /\ csr' = csr /\ x' = x
  /\ \A u \in Words : u # w => mem'[u] = mem[u]

SetsCsr(c, v) ==
  /\ Shape' /\ csr'[c] = v /\ mem' = mem
  /\ \A d \in Csrs : d # c => csr'[d] = csr[d]

Swaps(r, c) ==
  /\ SetsCsr(c, x[r]) /\ x'[r] = csr[c]
  /\ \A q \in Registers : q # r => x'[q] = x[q]

Saves(R) ==
  /\ Shape' /\ x' = x /\ csr' = csr
  /\ \A r \in R : mem'[FRAME + r] = x[r]
  /\ \A w \in Words : w - FRAME \notin R => mem'[w] = mem[w]

Loads(R) ==
  /\ Shape' /\ csr' = csr /\ mem' = mem
  /\ \A r \in R : x'[r] = mem[FRAME + r]
  /\ \A r \in Registers \ R : x'[r] = x[r]

\* A register is set,
LEMMA SetReg ==
  ASSUME Shape, want' = want, NEW r \in Registers, NEW v,
         x' = [x EXCEPT ![r] = v], csr' = csr, mem' = mem
  PROVE  SetsReg(r, v)
  <1>1. x'[r] = v /\ \A q \in Registers : q # r => x'[q] = x[q]
    BY Zenon DEF Shape, IsFile
  <1>2. IsFile(x')
    BY Zenon DEF Shape, IsFile
  <1> QED
    BY <1>1, <1>2, Zenon DEF SetsReg, Shape, IsFile

\* or a word,
LEMMA SetWord ==
  ASSUME Shape, want' = want, NEW w \in Words, NEW v,
         mem' = [mem EXCEPT ![w] = v], csr' = csr, x' = x
  PROVE  SetsWord(w, v)
  <1>1. mem'[w] = v /\ \A u \in Words : u # w => mem'[u] = mem[u]
    BY Zenon DEF Shape
  <1>2. mem' = [u \in Words |-> mem'[u]]
    BY Zenon DEF Shape
  <1> QED
    BY <1>1, <1>2, Zenon DEF SetsWord, Shape, IsFile

\* or a control register.
LEMMA SetCsr ==
  ASSUME Shape, want' = want, NEW c \in Csrs, NEW v,
         csr' = [csr EXCEPT ![c] = v], IsFile(x)', mem' = mem
  PROVE  SetsCsr(c, v)
  <1>1. csr'[c] = v /\ \A d \in Csrs : d # c => csr'[d] = csr[d]
    BY Zenon DEF Shape
  <1>2. csr' = [d \in Csrs |-> csr'[d]]
    BY Zenon DEF Shape
  <1> QED
    BY <1>1, <1>2, Zenon DEF SetsCsr, Shape, IsFile

\* C code that sets registers other than s.
With(z, r, v) == [z EXCEPT ![r] = v]

LEMMA OneReg ==
  ASSUME NEW z, IsFile(z), NEW s \in Registers, NEW r \in Registers \ {s}, NEW v
  PROVE  IsFile(With(z, r, v)) /\ With(z, r, v)[s] = z[s]
  BY Zenon DEF IsFile, With

\* An addition,
LEMMA Exec_addi ==
  ASSUME Shape, want' = want, NEW r \in Registers, NEW b, NEW n,
         Becomes(Exec(Machine, addi(r, b, n)))
  PROVE  SetsReg(r, x[b] + n)
  <1>1. PICK i : i = addi(r, b, n)
    BY Zenon
  <1>2. i.op = "addi" /\ i.r = r /\ i.b = b /\ i.n = n
    BY <1>1, Zenon DEF addi
  <1>3. Exec(Machine, i) = Hart([x EXCEPT ![r] = x[b] + n], csr, mem)
    BY <1>2, HartIs, Zenon DEF Exec
  <1>4. x' = [x EXCEPT ![r] = x[b] + n] /\ csr' = csr /\ mem' = mem
    BY <1>1, <1>3, HartIs
  <1> QED
    BY <1>4, SetReg, Zenon

\* a store,
LEMMA Exec_sd ==
  ASSUME Shape, want' = want, NEW r, NEW b, NEW n, x[b] + n \in Words,
         Becomes(Exec(Machine, sd(r, n, b)))
  PROVE  SetsWord(x[b] + n, x[r])
  <1>1. PICK i : i = sd(r, n, b)
    BY Zenon
  <1>2. i.op = "sd" /\ i.r = r /\ i.b = b /\ i.n = n
    BY <1>1, Zenon DEF sd
  <1>3. Exec(Machine, i) = Hart(x, csr, [mem EXCEPT ![x[b] + n] = x[r]])
    BY <1>2, HartIs, Zenon DEF Exec
  <1>4. x' = x /\ csr' = csr /\ mem' = [mem EXCEPT ![x[b] + n] = x[r]]
    BY <1>1, <1>3, HartIs
  <1> QED
    BY <1>4, SetWord, Zenon

\* a load,
LEMMA Exec_ld ==
  ASSUME Shape, want' = want, NEW r \in Registers, NEW b, NEW n,
         Becomes(Exec(Machine, ld(r, n, b)))
  PROVE  SetsReg(r, mem[x[b] + n])
  <1>1. PICK i : i = ld(r, n, b)
    BY Zenon
  <1>2. i.op = "ld" /\ i.r = r /\ i.b = b /\ i.n = n
    BY <1>1, Zenon DEF ld
  <1>3. Exec(Machine, i) = Hart([x EXCEPT ![r] = mem[x[b] + n]], csr, mem)
    BY <1>2, HartIs, Zenon DEF Exec
  <1>4. x' = [x EXCEPT ![r] = mem[x[b] + n]] /\ csr' = csr /\ mem' = mem
    BY <1>1, <1>3, HartIs
  <1> QED
    BY <1>4, SetReg, Zenon

\* stores to the slots of the registers R,
LEMMA Exec_saves ==
  ASSUME Shape, want' = want, NEW R \in SUBSET Registers, x[sp] = FRAME,
         Becomes(Exec(Machine, saves(R)))
  PROVE  Saves(R)
  <1>1. PICK i : i = saves(R)
    BY Zenon
  <1>2. i.op = "saves" /\ i.R = R
    BY <1>1, Zenon DEF saves
  <1>3. Exec(Machine, i) =
          Hart(x, csr, [w \in DOMAIN mem |-> IF w - x[sp] \in R THEN x[w - x[sp]] ELSE mem[w]])
    BY <1>2, HartIs, Zenon DEF Exec
  <1>4. /\ x' = x /\ csr' = csr
        /\ mem' = [w \in DOMAIN mem |-> IF w - x[sp] \in R THEN x[w - x[sp]] ELSE mem[w]]
    BY <1>1, <1>3, HartIs
  <1>5. DOMAIN mem = Words
    BY Zenon DEF Shape
  <1>6. mem' = [w \in Words |-> IF w - FRAME \in R THEN x[w - FRAME] ELSE mem[w]]
    BY <1>4, <1>5, Zenon
  <1>7. \A r \in R : FRAME + r \in Words /\ (FRAME + r) - FRAME = r
    BY DEF Registers, Words, FRAME, TOP, M_TOP
  <1>8. /\ \A r \in R : mem'[FRAME + r] = x[r]
        /\ \A w \in Words : w - FRAME \notin R => mem'[w] = mem[w]
        /\ mem' = [w \in Words |-> mem'[w]]
    BY <1>6, <1>7, Zenon
  <1> QED
    BY <1>4, <1>8, Zenon DEF Saves, Shape, IsFile

\* loads from them,
LEMMA Exec_loads ==
  ASSUME Shape, want' = want, NEW R \in SUBSET Registers, x[sp] = FRAME,
         Becomes(Exec(Machine, loads(R)))
  PROVE  Loads(R)
  <1>1. PICK i : i = loads(R)
    BY Zenon
  <1>2. i.op = "loads" /\ i.R = R
    BY <1>1, Zenon DEF loads
  <1>3. Exec(Machine, i) =
          Hart([r \in 1 .. 31 |-> IF r \in R THEN mem[x[sp] + r] ELSE x[r]], csr, mem)
    BY <1>2, HartIs, Zenon DEF Exec
  <1>4. /\ x' = [r \in Registers |-> IF r \in R THEN mem[FRAME + r] ELSE x[r]]
        /\ csr' = csr /\ mem' = mem
    BY <1>1, <1>3, HartIs DEF Registers
  <1>5. /\ \A r \in R : x'[r] = mem[FRAME + r]
        /\ \A r \in Registers \ R : x'[r] = x[r]
        /\ x' = [r \in Registers |-> x'[r]]
    BY <1>4, Zenon
  <1> QED
    BY <1>4, <1>5, Zenon DEF Loads, Shape, IsFile

\* a control register read,
LEMMA Exec_csrr ==
  ASSUME Shape, want' = want, NEW r \in Registers, NEW c,
         Becomes(Exec(Machine, csrr(r, c)))
  PROVE  SetsReg(r, csr[c])
  <1>1. PICK i : i = csrr(r, c)
    BY Zenon
  <1>2. i.op = "csrr" /\ i.r = r /\ i.c = c
    BY <1>1, Zenon DEF csrr
  <1>3. Exec(Machine, i) = Hart([x EXCEPT ![r] = csr[c]], csr, mem)
    BY <1>2, HartIs, Zenon DEF Exec
  <1>4. x' = [x EXCEPT ![r] = csr[c]] /\ csr' = csr /\ mem' = mem
    BY <1>1, <1>3, HartIs
  <1> QED
    BY <1>4, SetReg, Zenon

\* written,
LEMMA Exec_csrw ==
  ASSUME Shape, want' = want, NEW r, NEW c \in Csrs,
         Becomes(Exec(Machine, csrw(c, r)))
  PROVE  SetsCsr(c, x[r]) /\ x' = x
  <1>1. PICK i : i = csrw(c, r)
    BY Zenon
  <1>2. i.op = "csrw" /\ i.r = r /\ i.c = c
    BY <1>1, Zenon DEF csrw
  <1>3. Exec(Machine, i) = Hart(x, [csr EXCEPT ![c] = x[r]], mem)
    BY <1>2, HartIs, Zenon DEF Exec
  <1>4. x' = x /\ csr' = [csr EXCEPT ![c] = x[r]] /\ mem' = mem
    BY <1>1, <1>3, HartIs, Zenon
  <1>5. IsFile(x)'
    BY <1>4, Zenon DEF Shape, IsFile
  <1> QED
    BY <1>4, <1>5, SetCsr, Zenon

\* and swapped.
LEMMA Exec_csrrw ==
  ASSUME Shape, want' = want, NEW r \in Registers, NEW c \in Csrs,
         Becomes(Exec(Machine, csrrw(r, c)))
  PROVE  Swaps(r, c)
  <1>1. PICK i : i = csrrw(r, c)
    BY Zenon
  <1>2. i.op = "csrrw" /\ i.r = r /\ i.c = c
    BY <1>1, Zenon DEF csrrw
  <1>3. Exec(Machine, i) = Hart([x EXCEPT ![r] = csr[c]], [csr EXCEPT ![c] = x[r]], mem)
    BY <1>2, HartIs, Zenon DEF Exec
  <1>4. x' = [x EXCEPT ![r] = csr[c]] /\ csr' = [csr EXCEPT ![c] = x[r]] /\ mem' = mem
    BY <1>1, <1>3, HartIs
  <1>5. IsFile(x)' /\ x'[r] = csr[c] /\ \A q \in Registers : q # r => x'[q] = x[q]
    BY <1>4, Zenon DEF Shape, IsFile
  <1> QED
    BY <1>4, <1>5, SetCsr, Zenon DEF Swaps

-----------------------------------------------------------------------------
(***************************************************************************)
(* The vectors                                                             *)
(***************************************************************************)
\* Two pieces of code, one after the other.
LEMMA Joined ==
  ASSUME NEW S, NEW s \in Seq(S), NEW t \in Seq(S)
  PROVE  /\ Len(s \o t) = Len(s) + Len(t)
         /\ \A k \in 1 .. Len(s) : (s \o t)[k] = s[k]
         /\ \A k \in 1 .. Len(t) : (s \o t)[Len(s) + k] = t[k]
  OBVIOUS

\* trap_vector up to the call of trap_handler.
LEMMA EntryCode ==
  /\ Len(Entry) = 16
  /\ Entry[1] = addi(sp, sp, -36)
  /\ Entry[2] = saves({ra})
  /\ Entry[3] = saves({t0})
  /\ Entry[4] = addi(t0, sp, 36)
  /\ Entry[5] = sd(t0, 2, sp)
  /\ Entry[6] = saves({3, 4})
  /\ Entry[7] = saves(6 .. 31)
  /\ Entry[8] = csrr(t0, "sstatus")
  /\ Entry[9] = sd(t0, 32, sp)
  /\ Entry[10] = csrr(t0, "sepc")
  /\ Entry[11] = sd(t0, 33, sp)
  /\ Entry[12] = csrr(t0, "scause")
  /\ Entry[13] = sd(t0, 34, sp)
  /\ Entry[14] = csrr(t0, "stval")
  /\ Entry[15] = sd(t0, 35, sp)
  /\ Entry[16] = addi(a0, sp, 0)
  <1>1. /\ Len(Save) = 7 /\ Len(SaveCsrs) = 9
        /\ Save = [k \in 1 .. 7 |-> Save[k]] /\ SaveCsrs = [k \in 1 .. 9 |-> SaveCsrs[k]]
    BY DEF Save, SaveCsrs
  <1>2. PICK S : Save \in Seq(S) /\ SaveCsrs \in Seq(S)
    <2> DEFINE S == {Save[k] : k \in 1 .. 7} \cup {SaveCsrs[k] : k \in 1 .. 9}
    <2>1. (\A k \in 1 .. 7 : Save[k] \in S) /\ \A k \in 1 .. 9 : SaveCsrs[k] \in S
      OBVIOUS
    <2> HIDE DEF S
    <2> QED
      BY <1>1, <2>1
  <1>3. /\ Len(Entry) = 16
        /\ \A k \in 1 .. 7 : Entry[k] = Save[k]
        /\ \A k \in 1 .. 9 : Entry[7 + k] = SaveCsrs[k]
    BY <1>1, <1>2, Joined DEF Entry
  <1>4. /\ Entry[1] = Save[1] /\ Entry[2] = Save[2] /\ Entry[3] = Save[3] /\ Entry[4] = Save[4]
        /\ Entry[5] = Save[5] /\ Entry[6] = Save[6] /\ Entry[7] = Save[7]
    BY <1>3
  <1>5. /\ Entry[8] = SaveCsrs[1] /\ Entry[9] = SaveCsrs[2] /\ Entry[10] = SaveCsrs[3]
        /\ Entry[11] = SaveCsrs[4] /\ Entry[12] = SaveCsrs[5] /\ Entry[13] = SaveCsrs[6]
        /\ Entry[14] = SaveCsrs[7] /\ Entry[15] = SaveCsrs[8] /\ Entry[16] = SaveCsrs[9]
    BY <1>3
  <1> QED
    BY <1>3, <1>4, <1>5, Zenon DEF Save, SaveCsrs

\* trap_vector after the call.
LEMMA RestoreCode ==
  /\ Len(Restore) = 15
  /\ Restore[1] = ld(t0, 32, sp)
  /\ Restore[2] = csrw("sstatus", t0)
  /\ Restore[3] = ld(t0, 33, sp)
  /\ Restore[4] = csrw("sepc", t0)
  /\ Restore[5] = loads({ra})
  /\ Restore[6] = loads({3, 4})
  /\ Restore[7] = loads({t0})
  /\ Restore[8] = loads({t1})
  /\ Restore[9] = loads({t2})
  /\ Restore[10] = loads({s0, 9})
  /\ Restore[11] = loads({a0})
  /\ Restore[12] = loads(11 .. 16)
  /\ Restore[13] = loads({a7})
  /\ Restore[14] = loads(18 .. 31)
  /\ Restore[15] = ld(sp, 2, sp)
  BY Zenon DEF Restore

\* mtrap_vector up to the dispatch.
LEMMA MSaveCode ==
  /\ Len(MSave) = 9
  /\ MSave[1] = csrrw(t0, "mscratch")
  /\ MSave[2] = addi(t0, t0, -5)
  /\ MSave[3] = sd(t1, 0, t0)
  /\ MSave[4] = sd(t2, 1, t0)
  /\ MSave[5] = sd(a0, 2, t0)
  /\ MSave[6] = sd(a7, 3, t0)
  /\ MSave[7] = csrr(t1, "mscratch")
  /\ MSave[8] = sd(t1, 4, t0)
  /\ MSave[9] = csrr(t1, "mcause")
  BY Zenon DEF MSave

\* mtrap_vector up to mret.
LEMMA MRestoreCode ==
  /\ Len(MRestore) = 7
  /\ MRestore[1] = ld(t2, 1, t0)
  /\ MRestore[2] = ld(a0, 2, t0)
  /\ MRestore[3] = ld(a7, 3, t0)
  /\ MRestore[4] = addi(t1, t0, 5)
  /\ MRestore[5] = csrw("mscratch", t1)
  /\ MRestore[6] = ld(t1, 0, t0)
  /\ MRestore[7] = ld(t0, 4, t0)
  BY Zenon DEF MRestore

-----------------------------------------------------------------------------
(***************************************************************************)
(* The vectors, instruction by instruction                                 *)
(***************************************************************************)
USE DEF Registers, Words, Csrs, FRAME, M_FRAME, TOP, M_TOP, SIE, SPIE, ra, sp, t0, t1, t2, s0, a0, a7

\* Each instruction of trap_vector saves what the invariant says it has saved.
LEMMA EntryStep ==
  ASSUME Shape, EntryAt(pc, x), VectorStep("entry", Entry)
  PROVE  Shape' /\ csr' = csr /\ EntryAt(pc, x)'
  <1>1. /\ Shape /\ EntryAt(pc, x) /\ want' = want
        /\ pc \in 1 .. 16 /\ pc' = pc + 1 /\ Becomes(Exec(Machine, Entry[pc]))
    BY EntryCode DEF VectorStep, EntryAt, ghosts
  <1>2. CASE pc = 1
    <2>1. SetsReg(sp, x[sp] + (-36))
      BY <1>1, <1>2, EntryCode, Exec_addi
    <2> QED
      BY <1>1, <1>2, <2>1 DEF EntryAt, SetsReg
  <1>3. CASE pc = 2
    <2>1. Saves({ra})
      BY <1>1, <1>3, EntryCode, Exec_saves DEF EntryAt
    <2> QED
      BY <1>1, <1>3, <2>1 DEF EntryAt, Saves
  <1>4. CASE pc = 3
    <2>1. Saves({t0})
      BY <1>1, <1>4, EntryCode, Exec_saves DEF EntryAt
    <2> QED
      BY <1>1, <1>4, <2>1 DEF EntryAt, Saves
  <1>5. CASE pc = 4
    <2>1. SetsReg(t0, x[sp] + 36)
      BY <1>1, <1>5, EntryCode, Exec_addi
    <2> QED
      BY <1>1, <1>5, <2>1 DEF EntryAt, SetsReg
  <1>6. CASE pc = 5
    <2>1. SetsWord(x[sp] + 2, x[t0])
      BY <1>1, <1>6, EntryCode, Exec_sd DEF EntryAt
    <2> QED
      BY <1>1, <1>6, <2>1 DEF EntryAt, SetsWord, Shape
  <1>7. CASE pc = 6
    <2>1. Saves({3, 4})
      BY <1>1, <1>7, EntryCode, Exec_saves DEF EntryAt
    <2> QED
      BY <1>1, <1>7, <2>1 DEF EntryAt, Saves
  <1>8. CASE pc = 7
    <2>1. Saves(6 .. 31)
      BY <1>1, <1>8, EntryCode, Exec_saves DEF EntryAt
    <2> QED
      BY <1>1, <1>8, <2>1 DEF EntryAt, Saves
  <1>9. CASE pc = 8
    <2>1. SetsReg(t0, csr["sstatus"])
      BY <1>1, <1>9, EntryCode, Exec_csrr
    <2> QED
      BY <1>1, <1>9, <2>1 DEF EntryAt, SetsReg
  <1>10. CASE pc = 9
    <2>1. SetsWord(x[sp] + 32, x[t0])
      BY <1>1, <1>10, EntryCode, Exec_sd DEF EntryAt
    <2> QED
      BY <1>1, <1>10, <2>1 DEF EntryAt, SetsWord
  <1>11. CASE pc = 10
    <2>1. SetsReg(t0, csr["sepc"])
      BY <1>1, <1>11, EntryCode, Exec_csrr
    <2> QED
      BY <1>1, <1>11, <2>1 DEF EntryAt, SetsReg
  <1>12. CASE pc = 11
    <2>1. SetsWord(x[sp] + 33, x[t0])
      BY <1>1, <1>12, EntryCode, Exec_sd DEF EntryAt
    <2> QED
      BY <1>1, <1>12, <2>1 DEF EntryAt, SetsWord
  <1>13. CASE pc = 12
    <2>1. SetsReg(t0, csr["scause"])
      BY <1>1, <1>13, EntryCode, Exec_csrr
    <2> QED
      BY <1>1, <1>13, <2>1 DEF EntryAt, SetsReg
  <1>14. CASE pc = 13
    <2>1. SetsWord(x[sp] + 34, x[t0])
      BY <1>1, <1>14, EntryCode, Exec_sd DEF EntryAt
    <2> QED
      BY <1>1, <1>14, <2>1 DEF EntryAt, SetsWord
  <1>15. CASE pc = 14
    <2>1. SetsReg(t0, csr["stval"])
      BY <1>1, <1>15, EntryCode, Exec_csrr
    <2> QED
      BY <1>1, <1>15, <2>1 DEF EntryAt, SetsReg
  <1>16. CASE pc = 15
    <2>1. SetsWord(x[sp] + 35, x[t0])
      BY <1>1, <1>16, EntryCode, Exec_sd DEF EntryAt
    <2> QED
      BY <1>1, <1>16, <2>1 DEF EntryAt, SetsWord
  <1>17. CASE pc = 16
    <2>1. SetsReg(a0, x[sp] + 0)
      BY <1>1, <1>17, EntryCode, Exec_addi
    <2> QED
      BY <1>1, <1>17, <2>1 DEF EntryAt, SetsReg
  <1> QED
    BY <1>1, <1>2, <1>3, <1>4, <1>5, <1>6, <1>7, <1>8, <1>9, <1>10, <1>11, <1>12, <1>13, <1>14, <1>15, <1>16, <1>17

\* Each of its instructions after the call restores what it is to restore.
LEMMA ExitStep ==
  ASSUME Shape, ExitAt(pc, x), VectorStep("exit", Restore)
  PROVE  Shape' /\ csr'["mscratch"] = csr["mscratch"] /\ ExitAt(pc, x)'
  <1>1. /\ Shape /\ ExitAt(pc, x) /\ want' = want
        /\ pc \in 1 .. 15 /\ pc' = pc + 1 /\ Becomes(Exec(Machine, Restore[pc]))
    BY RestoreCode DEF VectorStep, ExitAt, ghosts
  <1>2. CASE pc = 1
    <2>1. SetsReg(t0, mem[x[sp] + 32])
      BY <1>1, <1>2, RestoreCode, Exec_ld
    <2> QED
      BY <1>1, <1>2, <2>1 DEF ExitAt, SetsReg, Frame
  <1>3. CASE pc = 2
    <2>1. SetsCsr("sstatus", x[t0]) /\ x' = x
      BY <1>1, <1>3, RestoreCode, Exec_csrw, Zenon
    <2> QED
      BY <1>1, <1>3, <2>1 DEF ExitAt, SetsCsr, Frame
  <1>4. CASE pc = 3
    <2>1. SetsReg(t0, mem[x[sp] + 33])
      BY <1>1, <1>4, RestoreCode, Exec_ld
    <2> QED
      BY <1>1, <1>4, <2>1 DEF ExitAt, SetsReg, Frame
  <1>5. CASE pc = 4
    <2>1. SetsCsr("sepc", x[t0]) /\ x' = x
      BY <1>1, <1>5, RestoreCode, Exec_csrw, Zenon
    <2> QED
      BY <1>1, <1>5, <2>1 DEF ExitAt, SetsCsr, Frame
  <1>6. CASE pc = 5
    <2>1. Loads({ra})
      BY <1>1, <1>6, RestoreCode, Exec_loads DEF ExitAt
    <2> QED
      BY <1>1, <1>6, <2>1 DEF ExitAt, Loads, Frame
  <1>7. CASE pc = 6
    <2>1. Loads({3, 4})
      BY <1>1, <1>7, RestoreCode, Exec_loads DEF ExitAt
    <2> QED
      BY <1>1, <1>7, <2>1 DEF ExitAt, Loads, Frame
  <1>8. CASE pc = 7
    <2>1. Loads({t0})
      BY <1>1, <1>8, RestoreCode, Exec_loads DEF ExitAt
    <2> QED
      BY <1>1, <1>8, <2>1 DEF ExitAt, Loads, Frame
  <1>9. CASE pc = 8
    <2>1. Loads({t1})
      BY <1>1, <1>9, RestoreCode, Exec_loads DEF ExitAt
    <2> QED
      BY <1>1, <1>9, <2>1 DEF ExitAt, Loads, Frame
  <1>10. CASE pc = 9
    <2>1. Loads({t2})
      BY <1>1, <1>10, RestoreCode, Exec_loads DEF ExitAt
    <2> QED
      BY <1>1, <1>10, <2>1 DEF ExitAt, Loads, Frame
  <1>11. CASE pc = 10
    <2>1. Loads({s0, 9})
      BY <1>1, <1>11, RestoreCode, Exec_loads DEF ExitAt
    <2> QED
      BY <1>1, <1>11, <2>1 DEF ExitAt, Loads, Frame
  <1>12. CASE pc = 11
    <2>1. Loads({a0})
      BY <1>1, <1>12, RestoreCode, Exec_loads DEF ExitAt
    <2> QED
      BY <1>1, <1>12, <2>1 DEF ExitAt, Loads, Frame
  <1>13. CASE pc = 12
    <2>1. Loads(11 .. 16)
      BY <1>1, <1>13, RestoreCode, Exec_loads DEF ExitAt
    <2> QED
      BY <1>1, <1>13, <2>1 DEF ExitAt, Loads, Frame
  <1>14. CASE pc = 13
    <2>1. Loads({a7})
      BY <1>1, <1>14, RestoreCode, Exec_loads DEF ExitAt
    <2> QED
      BY <1>1, <1>14, <2>1 DEF ExitAt, Loads, Frame
  <1>15. CASE pc = 14
    <2>1. Loads(18 .. 31)
      BY <1>1, <1>15, RestoreCode, Exec_loads DEF ExitAt
    <2> QED
      BY <1>1, <1>15, <2>1 DEF ExitAt, Loads, Frame
  <1>16. CASE pc = 15
    <2>1. SetsReg(sp, mem[x[sp] + 2])
      BY <1>1, <1>16, RestoreCode, Exec_ld
    <2> QED
      BY <1>1, <1>16, <2>1 DEF ExitAt, SetsReg, Frame, Shape
  <1> QED
    BY <1>1, <1>2, <1>3, <1>4, <1>5, <1>6, <1>7, <1>8, <1>9, <1>10, <1>11, <1>12, <1>13, <1>14, <1>15, <1>16

\* M-mode leaves what S-mode relies on alone.
Spared ==
  /\ want' = want
  /\ \A c \in {"sstatus", "sepc", "scause"} : csr'[c] = csr[c]
  /\ \A w \in 1 .. 36 : mem'[w] = mem[w]

\* mtrap_vector saves the registers that it uses,
LEMMA MSaveStep ==
  ASSUME Shape, NEW y, MSaveAt(y), VectorStep("m_save", MSave)
  PROVE  Shape' /\ Spared /\ MSaveAt(y)'
  <1>1. /\ Shape /\ MSaveAt(y) /\ want' = want
        /\ pc \in 1 .. 9 /\ pc' = pc + 1 /\ Becomes(Exec(Machine, MSave[pc]))
    BY MSaveCode DEF VectorStep, MSaveAt, ghosts
  <1>2. CASE pc = 1
    <2>1. Swaps(t0, "mscratch")
      BY <1>1, <1>2, MSaveCode, Exec_csrrw
    <2> QED
      BY <1>1, <1>2, <2>1 DEF MSaveAt, Swaps, SetsCsr, Spared
  <1>3. CASE pc = 2
    <2>1. SetsReg(t0, x[t0] + (-5))
      BY <1>1, <1>3, MSaveCode, Exec_addi
    <2> QED
      BY <1>1, <1>3, <2>1 DEF MSaveAt, SetsReg, Spared
  <1>4. CASE pc = 3
    <2>1. SetsWord(x[t0] + 0, x[t1])
      BY <1>1, <1>4, MSaveCode, Exec_sd DEF MSaveAt
    <2> QED
      BY <1>1, <1>4, <2>1 DEF MSaveAt, SetsWord, Spared
  <1>5. CASE pc = 4
    <2>1. SetsWord(x[t0] + 1, x[t2])
      BY <1>1, <1>5, MSaveCode, Exec_sd DEF MSaveAt
    <2> QED
      BY <1>1, <1>5, <2>1 DEF MSaveAt, SetsWord, Spared
  <1>6. CASE pc = 5
    <2>1. SetsWord(x[t0] + 2, x[a0])
      BY <1>1, <1>6, MSaveCode, Exec_sd DEF MSaveAt
    <2> QED
      BY <1>1, <1>6, <2>1 DEF MSaveAt, SetsWord, Spared
  <1>7. CASE pc = 6
    <2>1. SetsWord(x[t0] + 3, x[a7])
      BY <1>1, <1>7, MSaveCode, Exec_sd DEF MSaveAt
    <2> QED
      BY <1>1, <1>7, <2>1 DEF MSaveAt, SetsWord, Spared
  <1>8. CASE pc = 7
    <2>1. SetsReg(t1, csr["mscratch"])
      BY <1>1, <1>8, MSaveCode, Exec_csrr
    <2> QED
      BY <1>1, <1>8, <2>1 DEF MSaveAt, SetsReg, Spared
  <1>9. CASE pc = 8
    <2>1. SetsWord(x[t0] + 4, x[t1])
      BY <1>1, <1>9, MSaveCode, Exec_sd DEF MSaveAt
    <2> QED
      BY <1>1, <1>9, <2>1 DEF MSaveAt, SetsWord, Spared
  <1>10. CASE pc = 9
    <2>1. SetsReg(t1, csr["mcause"])
      BY <1>1, <1>10, MSaveCode, Exec_csrr
    <2> QED
      BY <1>1, <1>10, <2>1 DEF MSaveAt, SetsReg, Spared
  <1> QED
    BY <1>1, <1>2, <1>3, <1>4, <1>5, <1>6, <1>7, <1>8, <1>9, <1>10

\* and restores them.
LEMMA MRestoreStep ==
  ASSUME Shape, NEW y, MRestoreAt(y), VectorStep("m_restore", MRestore)
  PROVE  Shape' /\ Spared /\ MRestoreAt(y)'
  <1>1. /\ Shape /\ MRestoreAt(y) /\ want' = want
        /\ pc \in 1 .. 7 /\ pc' = pc + 1 /\ Becomes(Exec(Machine, MRestore[pc]))
    BY MRestoreCode DEF VectorStep, MRestoreAt, ghosts
  <1>2. CASE pc = 1
    <2>1. SetsReg(t2, mem[x[t0] + 1])
      BY <1>1, <1>2, MRestoreCode, Exec_ld
    <2> QED
      BY <1>1, <1>2, <2>1 DEF MRestoreAt, SetsReg, Spared
  <1>3. CASE pc = 2
    <2>1. SetsReg(a0, mem[x[t0] + 2])
      BY <1>1, <1>3, MRestoreCode, Exec_ld
    <2> QED
      BY <1>1, <1>3, <2>1 DEF MRestoreAt, SetsReg, Spared
  <1>4. CASE pc = 3
    <2>1. SetsReg(a7, mem[x[t0] + 3])
      BY <1>1, <1>4, MRestoreCode, Exec_ld
    <2> QED
      BY <1>1, <1>4, <2>1 DEF MRestoreAt, SetsReg, Spared
  <1>5. CASE pc = 4
    <2>1. SetsReg(t1, x[t0] + 5)
      BY <1>1, <1>5, MRestoreCode, Exec_addi
    <2> QED
      BY <1>1, <1>5, <2>1 DEF MRestoreAt, SetsReg, Spared
  <1>6. CASE pc = 5
    <2>1. SetsCsr("mscratch", x[t1]) /\ x' = x
      BY <1>1, <1>6, MRestoreCode, Exec_csrw, Zenon
    <2> QED
      BY <1>1, <1>6, <2>1 DEF MRestoreAt, SetsCsr, Spared
  <1>7. CASE pc = 6
    <2>1. SetsReg(t1, mem[x[t0] + 0])
      BY <1>1, <1>7, MRestoreCode, Exec_ld
    <2> QED
      BY <1>1, <1>7, <2>1 DEF MRestoreAt, SetsReg, Spared
  <1>8. CASE pc = 7
    <2>1. SetsReg(t0, mem[x[t0] + 4])
      BY <1>1, <1>8, MRestoreCode, Exec_ld
    <2> QED
      BY <1>1, <1>8, <2>1 DEF MRestoreAt, SetsReg, Spared
  <1> QED
    BY <1>1, <1>2, <1>3, <1>4, <1>5, <1>6, <1>7, <1>8

-----------------------------------------------------------------------------
(***************************************************************************)
(* M-mode                                                                  *)
(***************************************************************************)
\* What S-mode is to find when it goes on is still there.
LEMMA StaysIn ==
  ASSUME NEW a, NEW p, NEW y, InS(a, p, y), Spared
  PROVE  InS(a, p, y)'
  <1>1. /\ want' = want
        /\ csr'["sstatus"] = csr["sstatus"] /\ csr'["sepc"] = csr["sepc"]
        /\ csr'["scause"] = csr["scause"]
        /\ \A r \in Registers : mem'[FRAME + r] = mem[FRAME + r]
        /\ mem'[FRAME + 32] = mem[FRAME + 32] /\ mem'[FRAME + 33] = mem[FRAME + 33]
        /\ mem'[FRAME + 34] = mem[FRAME + 34]
    BY DEF Spared
  <1>2. Frame => Frame'
    BY <1>1 DEF Frame
  <1>3. EntryAt(p, y) => EntryAt(p, y)'
    BY <1>1 DEF EntryAt
  <1>4. ExitAt(p, y) => ExitAt(p, y)'
    BY <1>1, <1>2 DEF ExitAt
  <1> QED
    BY <1>1, <1>2, <1>3, <1>4, Zenon DEF InS

\* So it is where mret leads to.
LEMMA StillReturns ==
  ASSUME NEW y, Returns(y), Spared, mepc' = mepc
  PROVE  Returns(y)'
  <1>1. PICK a, p : a = mepc[1] /\ p = mepc[2]
    BY Zenon
  <1>2. InS(a, p, y)'
    BY <1>1, StaysIn, Zenon DEF Returns
  <1> QED
    BY <1>1, <1>2, Zenon DEF Returns, IsFile

\* Nothing of S-mode is M-mode.
LEMMA OutsideMMode ==
  ASSUME NEW a, NEW p, NEW y, InS(a, p, y)
  PROVE  a \notin {"m_save", "m_restore"}
  BY Zenon DEF InS

\* The trap to M-mode: the registers are those to return with.
LEMMA MTrapKeeps ==
  ASSUME XInv, ~ InMMode, NEW cause, NEW a, NEW p, InS(a, p, x), MTrap(cause, <<a, p>>)
  PROVE  XInv'
  <1>1. PICK y : y = x
    BY Zenon
  <1>2. /\ Shape /\ csr["mscratch"] = M_TOP /\ IsFile(y) /\ InS(a, p, y)
        /\ csr' = [csr EXCEPT !["mcause"] = cause] /\ mepc' = <<a, p>>
        /\ at' = "m_save" /\ pc' = 1 /\ x' = x /\ mem' = mem /\ want' = want
    BY <1>1, Zenon DEF XInv, Shape, MTrap
  <1>3. IsFile(x)'
    BY <1>2, Zenon DEF Shape, IsFile
  <1>4. SetsCsr("mcause", cause)
    BY <1>2, <1>3, SetCsr, Zenon
  <1>5. Spared
    BY <1>2, <1>4, Zenon DEF SetsCsr, Spared
  <1>6. Returns(y)'
    BY <1>2, <1>5, StaysIn, Zenon DEF Returns, IsFile
  <1>7. MSaveAt(y)'
    BY <1>1, <1>2, <1>4 DEF MSaveAt, SetsCsr
  <1> QED
    BY <1>2, <1>4, <1>6, <1>7, Zenon DEF XInv, SetsCsr, InMMode

\* mtrap_vector: an instruction of it,
LEMMA MVectorKeeps ==
  ASSUME XInv, VectorStep("m_save", MSave) \/ VectorStep("m_restore", MRestore)
  PROVE  XInv'
  <1>1. CASE VectorStep("m_save", MSave)
    <2>1. at = "m_save" /\ at' = at /\ mepc' = mepc
      BY <1>1, Zenon DEF VectorStep, Becomes
    <2>2. PICK y : Returns(y) /\ MSaveAt(y)
      BY <2>1, Zenon DEF XInv
    <2>3. Shape' /\ Spared /\ MSaveAt(y)'
      BY <1>1, <2>2, MSaveStep, Zenon DEF XInv
    <2>4. Returns(y)'
      BY <2>1, <2>2, <2>3, StillReturns, Zenon
    <2> QED
      BY <2>1, <2>3, <2>4, Zenon DEF XInv, InMMode
  <1>2. CASE VectorStep("m_restore", MRestore)
    <2>1. at = "m_restore" /\ at' = at /\ mepc' = mepc
      BY <1>2, Zenon DEF VectorStep, Becomes
    <2>2. PICK y : Returns(y) /\ MRestoreAt(y)
      BY <2>1, Zenon DEF XInv
    <2>3. Shape' /\ Spared /\ MRestoreAt(y)'
      BY <1>2, <2>2, MRestoreStep, Zenon DEF XInv
    <2>4. Returns(y)'
      BY <2>1, <2>2, <2>3, StillReturns, Zenon
    <2> QED
      BY <2>1, <2>3, <2>4, Zenon DEF XInv, InMMode
  <1> QED
    BY <1>1, <1>2, Zenon

\* the dispatch, which uses t1 and t2,
LEMMA MDispatchKeeps ==
  ASSUME XInv, MDispatch
  PROVE  XInv'
  <1>1. /\ Shape /\ at = "m_save" /\ pc = 10 /\ at' = "m_restore" /\ pc' = 1
        /\ x' = [x EXCEPT ![t1] = Unset, ![t2] = Unset]
        /\ csr' = csr /\ mepc' = mepc /\ mem' = mem /\ want' = want
    BY MSaveCode DEF XInv, MDispatch, ghosts
  <1>2. PICK y : Returns(y) /\ MSaveAt(y)
    BY <1>1, Zenon DEF XInv
  <1>3. IsFile(x)' /\ \A r \in Registers \ {t1, t2} : x'[r] = x[r]
    BY <1>1, Zenon DEF Shape, IsFile
  <1>4. Shape' /\ Spared
    BY <1>1, <1>3, Zenon DEF Shape, IsFile, Spared
  <1>5. Returns(y)'
    BY <1>1, <1>2, <1>4, StillReturns, Zenon
  <1>6. /\ x[t0] = M_FRAME /\ \A r \in Registers \ {t0, t1} : x[r] = y[r]
        /\ mem[M_FRAME] = y[t1] /\ mem[M_FRAME + 1] = y[t2] /\ mem[M_FRAME + 2] = y[a0]
        /\ mem[M_FRAME + 3] = y[a7] /\ mem[M_FRAME + 4] = y[t0]
    BY <1>1, <1>2 DEF MSaveAt
  <1>7. \A r \in Registers \ {t0, t1, t2, a0, a7} : x'[r] = y[r]
    BY <1>3, <1>6, Zenon
  <1>8. x'[t0] = M_FRAME
    BY <1>3, <1>6
  <1>9. MRestoreAt(y)'
    <2>1. pc' = 1 /\ mem' = mem
      BY <1>1, Zenon
    <2> QED
      BY <2>1, <1>6, <1>7, <1>8 DEF MRestoreAt
  <1> QED
    BY <1>1, <1>4, <1>5, <1>9, Zenon DEF XInv, InMMode

\* and mret: the registers are the ones that S-mode had.
LEMMA MretKeeps ==
  ASSUME XInv, Mret
  PROVE  XInv'
  <1>1. /\ Shape /\ at = "m_restore" /\ pc = 8 /\ at' = mepc[1] /\ pc' = mepc[2]
        /\ x' = x /\ csr' = csr /\ mem' = mem /\ want' = want
    BY MRestoreCode DEF XInv, Mret, machine, ghosts
  <1>2. PICK y : Returns(y) /\ MRestoreAt(y)
    BY <1>1, Zenon DEF XInv
  <1>3. csr["mscratch"] = M_TOP /\ \A r \in Registers : x[r] = y[r]
    BY <1>1, <1>2 DEF MRestoreAt
  <1>4. x = y
    BY <1>1, <1>2, <1>3, Zenon DEF Returns, IsFile, Shape
  <1>5. Shape' /\ Spared
    BY <1>1, Zenon DEF Shape, IsFile, Spared
  <1>6. PICK a, p : a = mepc[1] /\ p = mepc[2]
    BY Zenon
  <1>7. InS(a, p, y)'
    BY <1>2, <1>5, <1>6, StaysIn, Zenon DEF Returns
  <1>8. a \notin {"m_save", "m_restore"}
    BY <1>2, <1>6, OutsideMMode, Zenon DEF Returns
  <1> QED
    BY <1>1, <1>3, <1>4, <1>5, <1>6, <1>7, <1>8, Zenon DEF XInv, InMMode

-----------------------------------------------------------------------------
(***************************************************************************)
(* S-mode                                                                  *)
(***************************************************************************)
\* uart_puts changes its own registers, and no others do.
LEMMA ProgramKeeps ==
  ASSUME XInv, NextChar \/ ReadLsr
  PROVE  XInv'
  <1>1. PICK y : Set(y) /\ at = "program" /\ at' = at /\ IsFile(y) /\ y[sp] = x[sp]
    <2>1. CASE NextChar
      <3>1. PICK y : y = [x EXCEPT ![a0] = Text[x[s0]], ![s0] = @ + 1]
        BY Zenon
      <3>2. PICK v, w : y = With(With(x, a0, v), s0, w)
        BY <3>1, Zenon DEF With
      <3>3. IsFile(x) /\ a0 \in Registers \ {sp} /\ s0 \in Registers \ {sp} /\ sp \in Registers
        BY DEF XInv, Shape
      <3>4. IsFile(y) /\ y[sp] = x[sp]
        BY <3>2, <3>3, OneReg
      <3> QED
        BY <2>1, <3>1, <3>4, Zenon DEF NextChar
    <2>2. CASE ReadLsr
      <3>1. PICK y : y = [x EXCEPT ![a5] = IF fifo = <<>> THEN 1 ELSE 0]
        BY Zenon
      <3>2. PICK v : y = With(x, a5, v)
        BY <3>1, Zenon DEF With
      <3>3. IsFile(x) /\ a5 \in Registers \ {sp} /\ sp \in Registers
        BY DEF XInv, Shape, a5
      <3>4. IsFile(y) /\ y[sp] = x[sp]
        BY <3>2, <3>3, OneReg
      <3> QED
        BY <2>2, <3>1, <3>4, Zenon DEF ReadLsr
    <2> QED
      BY <2>1, <2>2, Zenon
  <1>2. csr["mscratch"] = M_TOP /\ x = want /\ csr["sstatus"] \in {SIE, SPIE + SIE}
    BY <1>1, Zenon DEF XInv, InMMode, InS
  <1>3. /\ x' = y /\ want' = y /\ csr' = csr /\ mem' = mem /\ at' = "program" /\ want[sp] = TOP
    BY <1>1, Zenon DEF Set, XInv, Shape
  <1>4. Shape'
    BY <1>1, <1>2, <1>3, Zenon DEF XInv, Shape, IsFile
  <1> QED
    BY <1>2, <1>3, <1>4, Zenon DEF XInv, InMMode, InS

\* The trap to S-mode.
LEMMA TakeTrapKeeps ==
  ASSUME XInv, NEW cause, TakeTrap(cause)
  PROVE  XInv'
  <1>1. /\ Shape /\ csr["mscratch"] = M_TOP /\ x = want
        /\ csr' = [csr EXCEPT !["sepc"] = pc, !["scause"] = cause, !["sstatus"] = SPIE]
        /\ at' = "entry" /\ pc' = 1 /\ x' = x /\ mem' = mem /\ want' = want
    BY Zenon DEF TakeTrap, XInv, InMMode, InS, ghosts
  <1>2. csr' = [c \in Csrs |-> csr'[c]] /\ csr'["sstatus"] = SPIE /\ csr'["mscratch"] = M_TOP
    BY <1>1, Zenon DEF Shape
  <1>3. Shape'
    BY <1>1, <1>2, Zenon DEF Shape, IsFile
  <1>4. EntryAt(pc, x)'
    BY <1>1, <1>2 DEF EntryAt, Shape
  <1> QED
    BY <1>1, <1>2, <1>3, <1>4, Zenon DEF XInv, InMMode, InS

\* trap_vector: an instruction of it,
LEMMA VectorKeeps ==
  ASSUME XInv, VectorStep("entry", Entry) \/ VectorStep("exit", Restore)
  PROVE  XInv'
  <1>1. CASE VectorStep("entry", Entry)
    <2>1. at = "entry" /\ at' = at
      BY <1>1, Zenon DEF VectorStep
    <2>2. Shape /\ csr["mscratch"] = M_TOP /\ EntryAt(pc, x)
      BY <2>1, Zenon DEF XInv, InMMode, InS
    <2>3. Shape' /\ csr' = csr /\ EntryAt(pc, x)'
      BY <1>1, <2>2, EntryStep, Zenon
    <2> QED
      BY <2>1, <2>2, <2>3, Zenon DEF XInv, InMMode, InS
  <1>2. CASE VectorStep("exit", Restore)
    <2>1. at = "exit" /\ at' = at
      BY <1>2, Zenon DEF VectorStep
    <2>2. Shape /\ csr["mscratch"] = M_TOP /\ ExitAt(pc, x)
      BY <2>1, Zenon DEF XInv, InMMode, InS
    <2>3. Shape' /\ csr'["mscratch"] = csr["mscratch"] /\ ExitAt(pc, x)'
      BY <1>2, <2>2, ExitStep, Zenon
    <2> QED
      BY <2>1, <2>2, <2>3, Zenon DEF XInv, InMMode, InS
  <1> QED
    BY <1>1, <1>2, Zenon

\* the call of trap_handler, which keeps sp,
LEMMA CallKeeps ==
  ASSUME XInv, NEW time, trap_handler(time)
  PROVE  XInv'
  <1>1. /\ at = "entry" /\ pc = 17 /\ at' = "handler"
        /\ x' = [r \in Registers |-> IF r \in CalleeSaved THEN x[r] ELSE Unset]
        /\ csr' = csr /\ mem' = mem /\ want' = want
    BY EntryCode DEF trap_handler
  <1>2. Shape /\ csr["mscratch"] = M_TOP /\ EntryAt(17, x)
    BY <1>1, Zenon DEF XInv, InMMode, InS
  <1>3. Frame /\ x[sp] = FRAME
    BY <1>2 DEF EntryAt, Frame, Shape
  <1>4. IsFile(x)' /\ x'[sp] = x[sp]
    BY <1>1 DEF IsFile, CalleeSaved
  <1>5. Shape' /\ Frame'
    BY <1>1, <1>2, <1>3, <1>4, Zenon DEF Shape, IsFile, Frame
  <1> QED
    BY <1>1, <1>2, <1>3, <1>4, <1>5, Zenon DEF XInv, InMMode, InS

\* trap_handler itself,
LEMMA HandlerKeeps ==
  ASSUME XInv, HandlerPrinted \/ YieldReturns
  PROVE  XInv'
  <1>1. /\ at \in {"handler", "yield"} /\ csr' = csr /\ mem' = mem /\ want' = want
        /\ \/ at' \in {"ecall", "halted"}
           \/ at' = "exit" /\ pc' = 1
    BY Zenon DEF HandlerPrinted, YieldReturns, machine, ghosts
  <1>2. Shape /\ csr["mscratch"] = M_TOP /\ Frame /\ x[sp] = FRAME
    BY <1>1, Zenon DEF XInv, InMMode, InS
  <1>3. IsFile(x)' /\ x'[sp] = x[sp]
    <2>1. CASE x' = [x EXCEPT ![a0] = times[Len(times)], ![a7] = 0]
      <3>1. PICK v, w : x' = With(With(x, a0, v), a7, w)
        BY <2>1, Zenon DEF With
      <3>2. IsFile(x) /\ a0 \in Registers \ {sp} /\ a7 \in Registers \ {sp} /\ sp \in Registers
        BY <1>2 DEF Shape
      <3>3. PICK y : y = x'
        BY Zenon
      <3>4. IsFile(y) /\ y[sp] = x[sp]
        BY <3>1, <3>2, <3>3, OneReg
      <3> QED
        BY <3>3, <3>4, Zenon DEF IsFile
    <2>2. CASE x' = x
      BY <1>2, <2>2, Zenon DEF Shape, IsFile
    <2> QED
      BY <2>1, <2>2, Zenon DEF HandlerPrinted, YieldReturns, machine
  <1>4. Shape' /\ Frame'
    BY <1>1, <1>2, <1>3, Zenon DEF Shape, IsFile, Frame
  <1>5. CASE at' \in {"ecall", "halted"}
    BY <1>1, <1>2, <1>3, <1>4, <1>5, Zenon DEF XInv, InMMode, InS
  <1>6. CASE at' = "exit" /\ pc' = 1
    <2>1. ExitAt(pc, x)'
      BY <1>2, <1>3, <1>4, <1>6 DEF ExitAt
    <2> QED
      BY <1>1, <1>2, <1>4, <1>6, <2>1, Zenon DEF XInv, InMMode, InS
  <1> QED
    BY <1>1, <1>5, <1>6, Zenon

\* and sret.
LEMMA SretKeeps ==
  ASSUME XInv, Sret
  PROVE  XInv'
  <1>1. /\ at = "exit" /\ pc = 16 /\ at' = "program"
        /\ csr' = [csr EXCEPT !["sstatus"] = IF @ \in {SPIE, SPIE + SIE} THEN SPIE + SIE ELSE SPIE]
        /\ x' = x /\ mem' = mem /\ want' = want
    BY RestoreCode DEF Sret, ghosts
  <1>2. Shape /\ csr["mscratch"] = M_TOP /\ ExitAt(16, x)
    BY <1>1, Zenon DEF XInv, InMMode, InS
  <1>3. \A r \in Registers : x[r] = want[r]
    BY <1>2 DEF ExitAt, Shape
  <1>4. x = want
    BY <1>2, <1>3, Zenon DEF Shape, IsFile
  <1>5. csr["sstatus"] = SPIE
    BY <1>2, Zenon DEF ExitAt, Frame
  <1>6. csr' = [c \in Csrs |-> csr'[c]] /\ csr'["sstatus"] = SPIE + SIE /\ csr'["mscratch"] = M_TOP
    BY <1>1, <1>2, <1>5, Zenon DEF Shape
  <1>7. Shape'
    BY <1>1, <1>2, <1>6 DEF Shape, IsFile
  <1> QED
    BY <1>1, <1>4, <1>6, <1>7, Zenon DEF XInv, InMMode, InS

\* The other steps leave the hart and its stacks alone.
LEMMA OthersKeep ==
  ASSUME XInv, x' = x, csr' = csr, mem' = mem, mepc' = mepc, want' = want,
         \/ at' = at /\ pc' = pc
         \/ at \in {"uart_init", "program"} /\ at' = "program"
  PROVE  XInv'
  <1>1. Shape' /\ Spared
    BY Zenon DEF XInv, Shape, IsFile, Spared
  <1>2. CASE at' = at /\ pc' = pc
    <2>1. PICK a, p, y : a = at /\ p = pc /\ y = x
      BY Zenon
    <2>2. InS(at, pc, x) => InS(at, pc, x)'
      BY <1>1, <1>2, <2>1, StaysIn, Zenon
    <2>3. \A z : MSaveAt(z) => MSaveAt(z)'
      BY <1>2 DEF MSaveAt
    <2>4. \A z : MRestoreAt(z) => MRestoreAt(z)'
      BY <1>2 DEF MRestoreAt
    <2>5. \A z : Returns(z) => Returns(z)'
      BY <1>1, StillReturns, Zenon
    <2> QED
      BY <1>1, <1>2, <2>2, <2>3, <2>4, <2>5, Zenon DEF XInv, InMMode
  <1>3. CASE at \in {"uart_init", "program"} /\ at' = "program"
    BY <1>1, <1>3, Zenon DEF XInv, InMMode, InS
  <1> QED
    BY <1>2, <1>3, Zenon

-----------------------------------------------------------------------------
LEMMA XInvInit == Init => XInv
  <1> SUFFICES ASSUME Init PROVE XInv
    OBVIOUS
  <1>1. IsFile(x) /\ x[sp] = TOP /\ want = x
    BY DEF Init, IsFile
  <1>2. csr = [c \in Csrs |-> csr[c]] /\ csr["sstatus"] = SIE /\ csr["mscratch"] = M_TOP
    BY Zenon DEF Init
  <1>3. mem = [w \in Words |-> mem[w]] /\ at = "uart_init"
    BY Zenon DEF Init
  <1> QED
    BY <1>1, <1>2, <1>3, Zenon DEF XInv, Shape, InMMode, InS

LEMMA XInvStep == XInv /\ [Next]_vars => XInv'
  <1> SUFFICES ASSUME XInv, [Next]_vars PROVE XInv'
    OBVIOUS
  <1>1. CASE uart_init \/ WriteThr \/ HandlerReadLsr \/ HandlerWriteThr \/ UartSends
    BY <1>1, OthersKeep, Zenon DEF uart_init, WriteThr, HandlerReadLsr, HandlerWriteThr, UartSends, machine, ghosts
  <1>2. CASE Printed \/ Halted \/ UNCHANGED vars
    BY <1>2, OthersKeep, Zenon DEF Printed, Halted, vars, machine, ghosts
  <1>3. CASE NextChar \/ ReadLsr
    BY <1>3, ProgramKeeps, Zenon
  <1>4. CASE VectorStep("entry", Entry) \/ VectorStep("exit", Restore)
    BY <1>4, VectorKeeps, Zenon
  <1>5. CASE Sret
    BY <1>5, SretKeeps, Zenon
  <1>6. CASE \E time \in Times : trap_handler(time)
    BY <1>6, CallKeeps, Zenon
  <1>7. CASE HandlerPrinted \/ YieldReturns
    BY <1>7, HandlerKeeps
  <1>8. CASE Ecall
    <2>1. InS("yield", 1, x) /\ ~ InMMode
      BY <1>8, Zenon DEF Ecall, XInv, InMMode, InS
    <2> QED
      BY <1>8, <2>1, MTrapKeeps, Zenon DEF Ecall
  <1>9. CASE MachineTimer
    <2>1. PICK a, p : a = at /\ p = pc
      BY Zenon
    <2>2. InS(a, p, x) /\ ~ InMMode /\ MTrap(M_TIMER, <<a, p>>)
      BY <1>9, <2>1, Zenon DEF MachineTimer, XInv
    <2> QED
      BY <2>2, MTrapKeeps, Zenon
  <1>10. CASE VectorStep("m_save", MSave) \/ VectorStep("m_restore", MRestore)
    BY <1>10, MVectorKeeps, Zenon
  <1>11. CASE MDispatch
    BY <1>11, MDispatchKeeps
  <1>12. CASE Mret
    BY <1>12, MretKeeps
  <1>13. CASE SupervisorTimer \/ Fault
    BY <1>13, TakeTrapKeeps, Zenon DEF SupervisorTimer, Fault
  <1> QED
    BY <1>1, <1>2, <1>3, <1>4, <1>5, <1>6, <1>7, <1>8, <1>9, <1>10, <1>11, <1>12, <1>13, Zenon
       DEF Next, Instruction

LEMMA XInvHolds == Spec => []XInv
  BY XInvInit, XInvStep, PTL DEF Spec

\* Traps leave no trace: whenever uart_puts executes, all its registers are as
\* it left them and interrupts are on, for any text and however often and
\* wherever the timer, a fault or a trap to M-mode interrupted (trap.S,
\* mtrap.S); and outside M-mode mscratch is the top of m_stack.
THEOREM TrapsLeaveNoTrace == Spec => []TrapTransparent
  <1>1. XInv => TrapTransparent
    BY Zenon DEF XInv, TrapTransparent, InMMode, InS
  <1> QED
    BY <1>1, XInvHolds, PTL

\* While trap_handler runs, the frame that it was given holds the 31 registers
\* of the code that was interrupted, its pc and the cause (trap.S, "Save t0
\* before using it to recover the original stack pointer"), also after other
\* traps to M-mode came in between.
THEOREM FramesAreExact == Spec => []FrameExact
  <1>1. XInv => FrameExact
    BY Zenon DEF XInv, FrameExact, InMMode, InS, Frame
  <1> QED
    BY <1>1, XInvHolds, PTL
=============================================================================

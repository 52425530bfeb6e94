----------------------------- MODULE PageTable -----------------------------
(***************************************************************************)
(* Sv39 page tables as src/kernel/mem.c writes them: map_page, va2pa, and  *)
(* the walk of the hardware they are read by.                              *)
(*                                                                         *)
(* An address is that of a page, <<gigabyte, megapage, page>>: the three   *)
(* table indices of a virtual address, the three parts of the page number  *)
(* of a physical one.  Offsets inside a page are left out.                 *)
(***************************************************************************)
EXTENDS Integers, Sequences

CONSTANT Index   \* the indices of table entries that are looked at

PX(level, va) == va[3 - level]

NULL == <<0, 0, 0>>

\* The kernel lies at the start of gigabyte BASE, seen also VIRT_OFFSET higher.
BASE == 2
VIRT_OFFSET == 256
KERNEL_BASE == BASE + VIRT_OFFSET

virt_to_phys(a) == IF a[1] >= KERNEL_BASE THEN [a EXCEPT ![1] = @ - VIRT_OFFSET] ELSE a

\* An entry: PTE_V, whether one of PTE_R, PTE_W, PTE_X is set, PTE2PA.
Table(pa) == [v |-> TRUE, leaf |-> FALSE, pa |-> pa]
Leaf(pa) == [v |-> TRUE, leaf |-> TRUE, pa |-> pa]
Invalid == [v |-> FALSE, leaf |-> FALSE, pa |-> NULL]

Zeros == [i \in Index |-> Invalid]

\* What a page that was not cleared holds, read as a table.
Junk == [i \in Index |-> Table(<<3, 3, 3>>)]

-----------------------------------------------------------------------------
(***************************************************************************)
(* map_page walks with s: the memory, the free list, the table it is at,   *)
(* and whether it has written through a NULL that mem_alloc returned.      *)
(***************************************************************************)
WalkAt(mem, free, pt, fault) == [mem |-> mem, free |-> free, pt |-> pt, fault |-> fault]

\* A faulty variant: nothing is cleared.
memset_Not(mem, page) == mem

memset(mem, page) == [mem EXCEPT ![page] = Zeros]

\* One level down.  An entry with PTE_V is followed without a look at its
\* other bits; what lies outside the tables is not tracked, and counted as
\* a fault.
NextTable(s, level, va) ==
  LET pte == s.mem[s.pt][PX(level, va)]
      next_pt == Head(s.free)
  IN  IF s.fault THEN s
      ELSE IF pte.v THEN WalkAt(s.mem, s.free, pte.pa, pte.pa \notin DOMAIN s.mem)
      ELSE IF s.free = <<>> THEN WalkAt(s.mem, s.free, s.pt, TRUE)
      ELSE WalkAt([memset(s.mem, next_pt) EXCEPT
                     ![s.pt][PX(level, va)] = Table(virt_to_phys(next_pt))],
                  Tail(s.free), next_pt, FALSE)

map_page(mem, free, root, va, pa) ==
  LET t == NextTable(NextTable(WalkAt(mem, free, root, FALSE), 2, va), 1, va)
  IN  IF t.fault THEN t
      ELSE WalkAt([t.mem EXCEPT ![t.pt][PX(0, va)] = Leaf(pa)], t.free, t.pt, FALSE)

\* NULL for what is not mapped.  Like map_page it takes every valid entry of
\* the two upper levels for a pointer to a table.
va2pa(mem, root, va) ==
  LET pte2 == mem[root][PX(2, va)]
      pte1 == mem[pte2.pa][PX(1, va)]
      pte0 == mem[pte1.pa][PX(0, va)]
  IN  IF pte2.v /\ pte1.v /\ pte0.v THEN pte0.pa ELSE NULL

-----------------------------------------------------------------------------
(***************************************************************************)
(* The walk of the hardware: a leaf of an upper level maps a gigabyte or a *)
(* megapage, and the last level has leaves only.                           *)
(***************************************************************************)
Unmapped == <<>>

Translate(mem, root, va) ==
  LET pte2 == mem[root][va[1]]
      pte1 == mem[pte2.pa][va[2]]
      pte0 == mem[pte1.pa][va[3]]
      InMem(pte) == pte.pa \in DOMAIN mem
  IN  IF ~ pte2.v THEN Unmapped
      ELSE IF pte2.leaf THEN <<pte2.pa[1], va[2], va[3]>>
      ELSE IF ~ InMem(pte2) \/ ~ pte1.v THEN Unmapped
      ELSE IF pte1.leaf THEN <<pte1.pa[1], pte1.pa[2], va[3]>>
      ELSE IF ~ InMem(pte1) \/ ~ pte0.v \/ ~ pte0.leaf THEN Unmapped
      ELSE pte0.pa

\* The pages that a walk from root reads as tables.
Children(mem, p) == {mem[p][i].pa : i \in {j \in Index : mem[p][j].v /\ ~ mem[p][j].leaf}}
TablesOf(mem, root) ==
  {root} \cup Children(mem, root) \cup UNION {Children(mem, p) : p \in Children(mem, root)}
=============================================================================

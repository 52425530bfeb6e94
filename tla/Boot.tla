-------------------------------- MODULE Boot -------------------------------
(***************************************************************************)
(* From _start to the scheduler: src/asm/Start.S in M-mode, relocate_kernel *)
(* and mem_init of src/kernel/mem.c, which build one page table each over  *)
(* the page allocator, and main, which sets up traps and timer, walks the  *)
(* device tree (Fdt) and lets the driver and proc_create allocate memory.  *)
(* From intr_on on the timer may interrupt.                                *)
(***************************************************************************)
EXTENDS PageTable, Fdt, FiniteSets

CONSTANTS
  VIRTIO_SLOTS,
  HeapSizes      \* how many pages the heap may have

ASSUME BootAssumption ==
  /\ VIRTIO_SLOTS \in Nat /\ HeapSizes \subseteq Nat
  /\ {0, 128, BASE, KERNEL_BASE} \cup 1 .. VIRTIO_SLOTS \subseteq Index

VARIABLES
  pc,            \* the step of the boot that comes next
  mode,          \* "M" or "S"; satp counts in S-mode only
  mem,           \* what the pages of the heap and boot_page_table hold
  heap,          \* pages of the heap
  free,          \* free_list
  satp, root,    \* the table in use; the one that is being built
  todo,          \* MMIO pages still to be mapped in root
  m_ready,       \* mtvec, mscratch, delegation, PMP and mcounteren are set
  stvec,         \* stvec is set
  mtie, stip, stie, sie

paging == <<mem, heap, free, satp, root, todo>>
timer == <<mtie, stip, stie, sie>>
traps == <<m_ready, stvec, timer>>
vars == <<pc, mode, paging, traps, fdt>>

-----------------------------------------------------------------------------
(***************************************************************************)
(* Memory: the image at the start of gigabyte BASE, then boot_page_table   *)
(* in its .bss, then the heap.                                             *)
(***************************************************************************)
Image == <<BASE, 0, 0>>
boot_page_table == <<BASE, 0, 1>>
HeapPages(n) == [k \in 1 .. n |-> <<BASE, 0, k + 1>>]

UART0 == <<0, 128, 0>>
VIRT_MMIO(slot) == <<0, 128, slot>>

\* A faulty variant: slots are counted from 0.
Mmio_From0 == <<UART0>> \o [slot \in 1 .. VIRTIO_SLOTS |-> VIRT_MMIO(slot - 1)]

\* The calls of setup_uart_mapping and setup_virtio_mappings, in order.
Mmio == <<UART0>> \o [slot \in 1 .. VIRTIO_SLOTS |-> VIRT_MMIO(slot)]

\* A faulty variant: the gigabyte below is mapped as well.
Gigapages_Below(table) == [table EXCEPT ![BASE - 1] = Leaf(<<BASE - 1, 0, 0>>),
                                        ![BASE] = Leaf(<<BASE, 0, 0>>),
                                        ![KERNEL_BASE] = Leaf(<<BASE, 0, 0>>)]

Gigapages(table) == [table EXCEPT ![BASE] = Leaf(<<BASE, 0, 0>>),
                                  ![KERNEL_BASE] = Leaf(<<BASE, 0, 0>>)]

\* The list is ascending.
page_allocator_init == HeapPages(Cardinality(heap))

Init ==
  /\ pc = "_start" /\ mode = "M"
  /\ heap \in {Range(HeapPages(n)) : n \in HeapSizes}
  /\ mem = [p \in heap \cup {boot_page_table} |-> Junk]
  /\ free = <<>> /\ satp = NULL /\ root = NULL /\ todo = <<>>
  /\ m_ready = FALSE /\ stvec = FALSE
  /\ mtie = FALSE /\ stip = FALSE /\ stie = FALSE /\ sie = FALSE
  /\ FdtInit

\* _start: the stack, the address of the device tree, the loop over .bss.
ClearBss ==
  /\ pc = "_start"
  /\ mem' = memset(mem, boot_page_table)
  /\ pc' = "relocate_kernel"
  /\ UNCHANGED <<mode, heap, free, satp, root, todo, traps, fdt>>

\* page_allocator_init and setup_boot_page_table.
relocate_kernel ==
  /\ pc = "relocate_kernel"
  /\ free' = page_allocator_init
  /\ mem' = [mem EXCEPT ![boot_page_table] = Gigapages(@)]
  /\ root' = boot_page_table
  /\ todo' = Mmio
  /\ pc' = "map"
  /\ UNCHANGED <<mode, heap, satp, traps, fdt>>

\* One map_page.  A store through NULL traps: in M-mode and here in S-mode
\* no vector is set yet, and the hart is lost.
MapNext ==
  LET s == map_page(mem, free, root, Head(todo), Head(todo))
  IN  /\ pc = "map" /\ todo # <<>>
      /\ mem' = s.mem /\ free' = s.free
      /\ todo' = Tail(todo)
      /\ pc' = IF s.fault THEN "fault" ELSE "map"
      /\ UNCHANGED <<mode, heap, satp, root, traps, fdt>>

\* The table goes into satp, between two sfence.vma.
WriteSatp ==
  /\ pc = "map" /\ todo = <<>>
  /\ satp' = virt_to_phys(root)
  /\ pc' = IF mode = "M" THEN "m_setup" ELSE "uart_init"
  /\ UNCHANGED <<mode, mem, heap, free, root, todo, traps, fdt>>

\* The machine CSRs, one after the other, with interrupts off.
MachineSetup ==
  /\ pc = "m_setup"
  /\ m_ready' = TRUE /\ mtie' = FALSE
  /\ pc' = "mret"
  /\ UNCHANGED <<mode, paging, stvec, stip, stie, sie, fdt>>

\* la is relative to the program counter, so kernel_entry and the stack have
\* their low addresses, as _start has.
Mret ==
  /\ pc = "mret"
  /\ mode' = "S"
  /\ pc' = "mem_init"
  /\ UNCHANGED <<paging, traps, fdt>>

\* A faulty variant: the page stays on the list.
RestAfter_All(list) == list

\* The list after one page is taken.
RestAfter(list) == Tail(list)

\* Without a page for the root table main returns, and kernel_entry hangs.
mem_init ==
  /\ pc = "mem_init"
  /\ IF free = <<>>
     THEN pc' = "hang" /\ UNCHANGED <<mem, free, root, todo>>
     ELSE /\ root' = Head(free) /\ free' = RestAfter(free)
          /\ mem' = [memset(mem, Head(free)) EXCEPT ![Head(free)] = Gigapages(@)]
          /\ todo' = Mmio
          /\ pc' = "map"
  /\ UNCHANGED <<mode, heap, satp, traps, fdt>>

-----------------------------------------------------------------------------
(***************************************************************************)
(* main after mem_init.                                                    *)
(***************************************************************************)
\* A faulty variant: traps are initialised last.
Main_TrapLate == <<"uart_init", "set_timer", "enable_timer_interrupt", "intr_on", "trap_init",
                   "fdt_traverse", "walk", "virt_find_all_devices", "proc_create", "scheduler">>

Main == <<"uart_init", "trap_init", "set_timer", "enable_timer_interrupt", "intr_on",
          "fdt_traverse", "walk", "virt_find_all_devices", "proc_create", "scheduler">>

\* The statement step of main, and on to the next.
Statement(step) ==
  /\ pc = step
  /\ pc' = Main[1 + CHOOSE k \in DOMAIN Main : Main[k] = step]
  /\ UNCHANGED <<mode, heap, satp, root, todo, m_ready>>

uart_init == Statement("uart_init") /\ UNCHANGED <<mem, free, stvec, timer, fdt>>

trap_init == Statement("trap_init") /\ stvec' = TRUE /\ UNCHANGED <<mem, free, timer, fdt>>

\* The ecall; mtrap_vector clears STIP and sets MTIE.
SetTimer == mtie' = TRUE /\ stip' = FALSE

set_timer ==
  /\ Statement("set_timer")
  /\ SetTimer
  /\ UNCHANGED <<mem, free, stvec, stie, sie, fdt>>

enable_timer_interrupt ==
  /\ Statement("enable_timer_interrupt")
  /\ stie' = TRUE
  /\ UNCHANGED <<mem, free, stvec, mtie, stip, sie, fdt>>

intr_on ==
  /\ Statement("intr_on")
  /\ sie' = TRUE
  /\ UNCHANGED <<mem, free, stvec, mtie, stip, stie, fdt>>

fdt_traverse == Statement("fdt_traverse") /\ FdtCall /\ UNCHANGED <<mem, free, stvec, timer>>

Walk ==
  /\ pc = "walk" /\ FdtStep
  /\ UNCHANGED <<pc, mode, paging, traps>>

WalkReturns == Statement("walk") /\ ~ walking /\ UNCHANGED <<mem, free, stvec, timer, fdt>>

\* The scan goes on: to the next slot, or polling a device for frames.
Scanning ==
  /\ pc = "virt_find_all_devices"
  /\ UNCHANGED <<pc, mode, heap, satp, root, todo, m_ready>>

\* The rings and buffers of the driver, the stacks of the processes: n pages,
\* which their owners overwrite.
Allocate(n) ==
  /\ Scanning \/ Statement("virt_find_all_devices") \/ Statement("proc_create")
  /\ n <= Len(free)
  /\ free' = SubSeq(free, n + 1, Len(free))
  /\ mem' = [p \in DOMAIN mem |-> IF p \in Range(SubSeq(free, 1, n)) THEN Junk ELSE mem[p]]
  /\ UNCHANGED <<stvec, timer, fdt>>

Stopped == pc \in {"scheduler", "hang", "fault"} /\ UNCHANGED vars

-----------------------------------------------------------------------------
(***************************************************************************)
(* The timer: M-mode hands it to S-mode, whose handler sets it again; no   *)
(* process is current yet, so its yield returns.                           *)
(***************************************************************************)
MachineTimer ==
  /\ mode = "S" /\ mtie /\ pc # "scheduler"
  /\ mtie' = FALSE /\ stip' = TRUE
  /\ UNCHANGED <<pc, mode, paging, m_ready, stvec, stie, sie, fdt>>

SupervisorTimer ==
  /\ mode = "S" /\ stip /\ stie /\ sie /\ pc # "scheduler"
  /\ SetTimer
  /\ UNCHANGED <<pc, mode, paging, m_ready, stvec, stie, sie, fdt>>

BootStep ==
  \/ ClearBss \/ relocate_kernel \/ MapNext \/ WriteSatp \/ MachineSetup \/ Mret \/ mem_init
  \/ uart_init \/ trap_init \/ set_timer \/ enable_timer_interrupt \/ intr_on
  \/ fdt_traverse \/ Walk \/ WalkReturns
  \/ \E n \in 0 .. Cardinality(heap) : Allocate(n)

Next == BootStep \/ MachineTimer \/ SupervisorTimer \/ Stopped

Spec == Init /\ [][Next]_vars

\* The hart keeps executing; the timer is set far ahead and does not take
\* all of its steps.  The scan need not return: virt_mmio_net_poll_rx waits
\* for a frame as long as none arrives (src/driver/virt_mmio.c:267).
OutsideScan == pc # "virt_find_all_devices" /\ BootStep
FairSpec == Spec /\ WF_vars(OutsideScan)

-----------------------------------------------------------------------------
Pages == heap \cup {boot_page_table}

(***************************************************************************)
(* As long as S-mode runs, before, across and after the switch of satp in  *)
(* mem_init, the image, boot_page_table and the heap are mapped at their   *)
(* low and high addresses, and UART and virtio slots at their own: "The    *)
(* high-half mapping must survive the satp switch" (mem.c:125-126).        *)
(***************************************************************************)
KernelMapped ==
  LET At(va) == Translate(mem, satp, va)
      High(p) == [p EXCEPT ![1] = KERNEL_BASE]
  IN  mode = "S" => /\ \A p \in Pages \cup {Image} : At(p) = p /\ At(High(p)) = p
                    /\ At(UART0) = UART0
                    /\ \A slot \in 1 .. VIRTIO_SLOTS : At(VIRT_MMIO(slot)) = VIRT_MMIO(slot)

(***************************************************************************)
(* No page that the table in use is made of is free or in other hands, and *)
(* each has one entry that leads to it: what proc_create and the driver    *)
(* allocate, and overwrite, is never a table (map_page, mem_init).         *)
(***************************************************************************)
TablesOwned ==
  LET tables == TablesOf(mem, satp)
      Links == {l \in tables \X Index : mem[l[1]][l[2]].v /\ ~ mem[l[1]][l[2]].leaf}
  IN  mode = "S" => /\ tables \subseteq Pages \ Range(free)
                    /\ Cardinality(Links) = Cardinality(tables) - 1

(***************************************************************************)
(* Outside the gigabytes of the kernel the table in use maps the UART and  *)
(* the slots and nothing else, page 0 included, so that NULL traps; va2pa  *)
(* gives the same answers as the hardware there.                           *)
(***************************************************************************)
MapsExact ==
  mode = "S" =>
    \A va \in (Index \ {BASE, KERNEL_BASE}) \X Index \X Index :
      LET pa == Translate(mem, satp, va)
      IN  /\ pa = IF va \in Range(Mmio) THEN va ELSE Unmapped
          /\ va2pa(mem, satp, va) = IF pa = Unmapped THEN NULL ELSE pa

(***************************************************************************)
(* map_page uses what mem_alloc returns without a test for NULL. The boot  *)
(* is lost there only if the heap has fewer pages than two sets of tables: *)
(* mem_init's test for its root table is not the only one needed.          *)
(***************************************************************************)
Needed ==
  LET gigas == {Mmio[k][1] : k \in DOMAIN Mmio}
      megas == {<<Mmio[k][1], Mmio[k][2]>> : k \in DOMAIN Mmio}
  IN  2 * (Cardinality(gigas) + Cardinality(megas)) + 1

LostOnlyIfSmall == pc \in {"fault", "hang"} => Cardinality(heap) < Needed

(***************************************************************************)
(* A trap always finds its vector: S-mode runs only after M-mode is set up *)
(* for its ecall and timer, and the timer reaches S-mode only after        *)
(* trap_init (Start.S, main).                                              *)
(***************************************************************************)
VectorsSet ==
  /\ mode = "S" => m_ready
  /\ mode = "S" /\ stip /\ stie /\ sie => stvec

\* The boot comes to the scheduler, is lost for want of memory, or stays in
\* the scan, where a poll waits for frames that may never come; everything
\* before and after the scan ends, the walk over the device tree included
\* (fdt_traverse), with the timer interrupting.
BootEnds == <>[](pc \in {"virt_find_all_devices", "scheduler", "hang", "fault"})
=============================================================================

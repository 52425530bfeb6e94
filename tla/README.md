# Formal model of the RISC-V bare-metal network stack

TLA+ modules for the kernel in `src/`: its boot, page allocator and page tables,
its processes, traps and timer, its console, its walk over the device tree and
its virtio network driver. TLC checks them on small instances; TLAPS proves the
main facts about the page allocator, the page tables and the boot, processes,
context switch, trap vectors and timer, both queues and the scan for every
instance.

Paths below are relative to the repository's root (`src/kernel/mem.c` and so on).

## 1. The system

One RISC-V hart, no user mode. `Start.S` sets up M-mode, drops to S-mode and
calls `main`, which arms the timer, scans for virtio devices, creates processes
and enters the scheduler.

| Part | State | Operations | Interacts with |
|---|---|---|---|
| Page allocator (`kernel/mem.c`) | `free_list` (links inside the free pages), `free_page_count`, heap bounds | `page_allocator_init`, `mem_alloc`, `mem_free` | timer (masks `sstatus.SIE`), every allocating part |
| Processes (`kernel/process.c`, `asm/process.S`) | `procs[]`, `current_process`, `sched_context` | `proc_init`, `proc_create`, `scheduler`, `yield`, `forkret`, `swtch` | traps, allocator (stacks) |
| Traps (`kernel/trap.c`, `asm/trap.S`) | frame on the interrupted stack, `sstatus.SIE` | `trap_vector`, `trap_handler`, `handle_timer_interrupt`, `handle_exception` | processes (calls `yield`), M-mode (ecall), UART |
| M-mode timer (`asm/mtrap.S`, `timer.h`) | MTIE, STIP, mtimecmp, mscratch and its stack | `set_timer` ecall, machine timer interrupt | traps |
| Receive queue (`driver/virt_mmio.c`) | rings, `last_used_idx`, buffers | `virt_mmio_net_poll_rx` | device, concurrently |
| Transmit queue (`driver/virt_mmio.c`) | rings, `in_use`, `next_desc`, `last_used_idx` | `virt_mmio_net_tx`, `virt_mmio_net_send` | device, allocator (packets) |
| Discovery (`driver/virt_mmio.c`) | device registers, `net_queues` | `virt_find_all_devices`, `..._virtq_init`, `..._negotiation`, `..._setup_queue` | devices, allocator |
| Page tables (`kernel/mem.c`) | `boot_page_table`, `root_page_table`, `satp` | `map_page`, `va2pa`, `relocate_kernel`, `mem_init` | allocator (tables) |
| Boot (`asm/Start.S`, `kernel/main.c`) | M-mode registers, `stvec`, `sie` | `_start`, `main` | all of the above |
| Device tree (`kernel/dtb.c`) | `struct_ptr`, `addr` | `fdt_traverse`, `dtb_callback`, `parse_dtb_unit_name` | boot |
| Packets (`driver/virt_mmio.c`) | the packet | `build_virtio_net_hdr`, `build_eth_frame`, `build_arp_response` | transmit queue |
| UART (`kernel/uart.c`) | FIFO, LSR | `uart_init`, `uart_putc`, `uart_puts`, `print_hex64`, `uart_dec64` | transmitter, concurrently; traps |

What is hard here: the timer may interrupt any unmasked instruction and switch
stacks; `swtch` leaves and re-enters the scheduler's loop in its middle; SIE is
global and not part of a context; the links of the free list lie in memory that
its owners overwrite; the device changes the rings while the driver reads them;
16-bit indices wrap; initialisation can fail half way while another device that
was set up through the same `net_queues` is live. `PROJECT.json` lists these
hazards at their lines, with the properties that cover them.

## 2. Modules

| Module | Models | Notes |
|---|---|---|
| `PageHeap` | contract of `mem_alloc`/`mem_free` (`mem.h:45-50`) | abstract |
| `PageAlloc` | the allocator, one step per call | list order, counter, rounding, high-half aliases |
| `PageLinks` | the allocator, one step per memory access | masking, preemption, owners that overwrite links |
| `PageAllocProofs` | theorems about `PageAlloc` | TLAPS |
| `RoundRobin` | contract of the process subsystem | abstract |
| `Sched` | processes, scheduler, `swtch`, traps, timer | one step per store that another party can see |
| `NetRx` | receive queue and device | |
| `NetRxWeak` | the same poll with loads performed early | |
| `NetTx` | transmit queue and device | |
| `Packet` | the packet that `virt_mmio_net_tx` builds | parts in their places |
| `VirtioInit` | scan, queue memory, negotiation | several devices |
| `PageTable` | `map_page`, `va2pa`, the hardware's walk | operators |
| `Fdt` | the walk over the device tree | bytes |
| `Boot` | `_start` to the scheduler | extends `PageTable` and `Fdt` |
| `DeviceTree` | what the walk should find | from the tree, not its bytes |
| `Trap` | trap vectors by the instruction, handlers, console | |
| `TrapConsole` | what the console should show | from the text and the traps |
| `TrapProofs` | theorems about the vectors of `Trap` | TLAPS |
| `NetTxProofs` | theorems about `NetTx` | TLAPS |
| `NetRxProofs` | theorems about `NetRx` | TLAPS |
| `VirtioInitProofs` | theorems about `VirtioInit` | TLAPS |
| `SchedProofs` | theorems about the timer and the context switch of `Sched` | TLAPS |
| `RoundRobinProofs` | `Sched` implements `RoundRobin` | TLAPS |
| `BootProofs` | theorems about `Boot` and `PageTable` | TLAPS |
| `MC*` | instances for TLC | |

Refinements: `PageLinks` implements `PageAlloc` (`CallsAtomic`, TLC), which
implements `PageHeap` (`HeapContract`, TLC and TLAPS); `Sched` implements
`RoundRobin` (`RoundRobinContract`, TLC and TLAPS).

### How state and actions correspond to the code

**PageAlloc.** A page is a frame number, the free list a sequence of frames. One
action per path of `mem_alloc` (`AllocZero`, `AllocTooMany`, `AllocOne`,
`AllocRun`, `AllocFragmented`) and of `mem_free` (`FreeIgnored`, `FreePage`).
`held` and `ret` are ghosts: what callers own and what the last call returned.
`FreePage` requires the page to be held: `mem.h:48-49` asks that of callers.

**PageLinks.** `next[f]` is the first word of page `f`. Each client has a `pc`
and locals; a tick (`Preempt`) may come between any two steps while `sie` is set.
A process that runs for the first time starts masked, one that was preempted is
unmasked by `sret`. The counting loop of the run search is one step, because it
only reads and is masked. When a call returns, the owner's pages are
overwritten, so a link left in them is never relied on.

**Sched.** `pc`, `stk` and `reg` are the hart; `swtch` is two steps, save and
load. `trap_vector` pushes `pc` and `reg` as a frame on the current stack and
clears `sie`; `TrapReturn` restores them and sets `sie`. The machine timer
interrupt can happen at any time while MTIE is set. `WindowTicks` says whether a
tick may hit the scheduler between the store to `current_process` and the end of
`swtch`; see section 5. `work` stands for what a task does between ticks.
`proc_create` publishes the slot before the context, as the code does.

**NetRx, NetTx.** The rings, indices and the driver's local copies are as in the
code, at the granularity of the accesses the device can see. A frame is its
arrival number and length. The device is external: it takes offered descriptors,
returns them in any order on the receive side, writes the element before the
index, and may return a descriptor out of range on either queue. The length it
reports for a frame counts the virtio-net header, as the driver expects, or does
not, as `virt_mmio.h:189` has it, and can then be less than a header. In `NetTx`
the packet is built part by part (`Packet`), each written over what was there; a
byte is the part it comes from and its place in it. A buffer of the ring holds
the number of the call and whether its bytes are `data` or `packet`. The search
for a descriptor is one step; nothing else writes `in_use`. `virtq_init` is the
initialisation for another device, which starts the queue afresh but for
`in_use`. The ghost `lost` collects the descriptors whose completion named none
(`virt_mmio.c:362` then frees nothing).

**VirtioInit.** A device is its registers. Feature words and status are sets of
bits. Allocation may fail at each call. The receive buffers become available in a
step of its own after both queues (`virt_mmio.c:207-211`). Of a descriptor only
its buffer is kept, not its flags. The device may refuse FEATURES_OK. A
device reset keeps the selected feature word, the least favourable choice.

**PageTable, Boot.** An address is that of a page, three table indices; of an entry
there are validity, leaf or not, and the page it points to. `map_page` takes the
memory and the free list and gives new ones, or a write through NULL, which stops
the boot: no vector is set yet. The hardware's walk is external. A boot is a
sequence of steps, one for each part of `_start`, `relocate_kernel`, `mem_init` and
`main`, one for each MMIO page that is mapped, and one for each token of the device
tree; a page that was not cleared holds stray entries. The driver and `proc_create`
appear as takers of pages, which they overwrite; the scan for devices may take pages
any number of times and need not return, since it polls the devices it finds. From
`intr_on` on the timer may interrupt.

**Fdt.** The tree is laid out as bytes by `Block`, which follows the format, not
the code; `fdt_traverse` works on the bytes alone. A 32-bit number is the
sequence of its four bytes. `DeviceTree` says from the tree itself what the
callback should be called with.

**Trap.** `trap_vector` and `mtrap_vector` are sequences of instructions that each
load, store, or move between registers and control registers. The interrupted
program is `uart_puts`, with its values in the registers a compiler may choose; a
fault at any of its instructions stands for other code that faults. `trap_handler`
is one step that fixes what will be printed, then a poll of LSR and a write to THR
for every character; caller-saved registers are arbitrary when it returns. The
machine timer may interrupt between any two instructions outside M-mode. Of
messages, the numbers and line ends are kept, the wording is not. `yield` is a step
that leaves everything alone: switching is the subject of `Sched`, which takes
saving and restoring as one step each, as `TrapTransparent` justifies.

## 3. Runs

| Run | Instance | Result |
|---|---|---|
| `page_alloc` | 5 frames of 4 bytes, sizes 0..21, every address | passes, 7 thousand states |
| `page_links` | 3 frames, 2 clients, requests of 0..3 pages | passes, 96 thousand |
| `sched` | 3 slots, 4 `proc_create`, 0..3 pages for stacks | passes, 263 thousand |
| `sched_window` | 2 slots, ticks in the window | **violation** |
| `net_rx` | 2 descriptors, indices modulo 4 | passes, 288 thousand |
| `net_rx_weak` | the same, early loads | **violation** |
| `net_tx` | 3 descriptors, indices modulo 6, too long data and lost descriptors included | passes, 70 thousand |
| `net_tx_refused` | the same | **violation** |
| `net_tx_packet` | data that fits | **violation** |
| `virtio_init` | 2 slots, every answer of the devices | passes, 653 thousand |
| `boot` | heaps of 0..7 pages, 2 virtio slots, 86 device trees | passes, 19 thousand |
| `trap` | 2 characters, 2 ticks, FIFO of 2, registers of 8 bits | passes, 370 thousand |

Why the bounds are enough for the cases of interest:

* five frames allow runs at either end, in the middle, scattered over the list,
  and a heap that is fragmented though enough pages are free; three suffice in
  `page_links` for a run of two whose pages are not neighbours on the list;
* with three slots and four creations a table that is full, memory that runs out
  at any creation, and passes that start, continue and end at different slots
  all occur;
* index moduli of two queue lengths make every index wrap several times, and the
  position in the ring independent of the position in the index;
* 14 packets let `net_tx` use each descriptor and wrap each index twice and then
  run out of memory, with no, some or all descriptors lost on the way and the
  queue initialised again between any two calls;
* frames of 0, 2 and 3 units with a header of 3 and a limit of 5 make the reported
  length less than the header, equal to it, within the limit and beyond it;
* two slots are one device that is live or has failed anywhere, and a second one;
* the two sets of tables take fewer than 7 pages, so memory runs out at each of
  the allocations of `map_page` and `mem_init`, and nowhere. The small heaps are
  hypothetical, the linker script leaves thousands of pages;
* the device trees have names and values of every length modulo four, with and
  without `@`, empty values, nested and sibling nodes, an unknown token and a
  wrong magic number;
* with two ticks one may come at any instruction of the trap that serves the
  other, or after it; a FIFO of two is the smallest with which no character is
  lost, namely one of the interrupted `uart_putc` and one of the handler. The
  real one has 16.

## 4. Properties

* Allocator: `HeapPartition` (no page shared or lost), `CountExact`,
  `HeapContract`, `CallsAtomic`, `MaskRestored`, `MaskedCallReturns`.
* Processes: `OwnStack`, `SwitchesToScheduler`, `ResumedUnmasked`,
  `PreemptedAlone` (at most one process is suspended in a trap), `TimerAlive`,
  `NobodyStranded`, `RoundRobinContract`, `AllFinish`.
* Receive: `FramesInOrder`, `BufferIsDrivers`, `RingsExact`, `FrameLenExact` (the
  length reported is the frame's if the device counts the header, and wraps exactly
  if it reports less than a header), `PollReturns`.
* Transmit: `PacketBuilt` (the three headers and the data are whole and in their
  places, although the parts overlap while it is built), `SentInOrder`,
  `OnlyLostInUse` (a call that returned leaves nothing in flight, and in use only
  descriptors whose completion did not name them), `FittingReturns`, `TxReturns`,
  `TransmitsPacket`.
* Discovery: `AcceptedOffered`, `OwnRings`, `ServesLiveDevice`,
  `LiveUndisturbed`, `ScanReturns`.
* Boot: `KernelMapped` (what the kernel uses is mapped before, across and after
  the switch of `satp`), `MapsExact` (and nothing else is), `TablesOwned` (no
  table is free or in other hands), `LostOnlyIfSmall`, `VectorsSet`, `FdtExact`,
  `BootEnds`.
* Traps and console: `TrapTransparent` (the interrupted code does not notice),
  `FrameExact`, `ConsoleExact` (no character lost, doubled or moved),
  `PrintsAll`.

`PageAlloc` has a type invariant, too. For every property of a passing run
the module also holds a faulty variant of a definition (`..._NoMask`,
`..._PastEnd`) under which TLC finds the property violated.

### Fairness

* `Boot`: weak fairness of the steps of the boot, ticks and the scan for devices
  excepted: the poll in it waits for a frame (`virt_mmio.c:267`), and `BootEnds`
  allows the boot to stay there.
* `Trap`: weak fairness of instructions and of the UART's transmitter; none of
  the timer and of faults.
* `PageLinks`: weak fairness of the steps inside a call of the running client:
  the hart keeps executing.
* `Sched`: weak fairness of instructions, and strong fairness per stack for
  instructions outside the handler. A tick may precede any one instruction, but
  `set_timer(10000000)` (`trap.c:111`) puts the next one far away, so whoever is
  given the hart again and again does execute. The steps of the trap handler do
  not count as progress of the process below it.
* `NetRx`: weak fairness of the driver; none of the device, so `PollReturns`
  speaks of polls with an entry in the ring.
* `NetTx`: weak fairness of driver and device: a device that never completes
  would make the wait endless by itself.
* `VirtioInit`: weak fairness of every step but the poll, which waits for a frame
  that need not come; `ScanReturns` allows the scan to stay there.

## 5. What the violations show

1. `sched_window`: `scheduler` sets `current_process` (`process.c:100`) before
   `swtch` has saved the scheduler and loaded the process. A tick in between lets
   `yield` save the scheduler's own frame as the context of the process and load
   a `sched_context` that is zero or stale. The `sched` run excludes ticks in
   this window, so its results hold as long as none falls in it; everywhere
   else ticks are unrestricted.
2. `net_rx_weak`: no fence orders the load of `used.idx` (`virt_mmio.c:273`) and
   the loads of the element; with early loads a stale element is processed.
3. `net_tx_refused`: data longer than a buffer is not submitted, nor is any data
   when no descriptor is free, and `virt_mmio_net_tx` waits for its completion for
   ever.
4. `net_tx_packet`: the packet is built and then the raw data is sent
   (`virt_mmio.c:351`).

Seen on the way and not the subject of a run:

* `trap.c:110` says 1,000,000 cycles where the code sets 10,000,000;
* `virtq_desc` (`virt_mmio.h:154`) has `id` before `flags`, the layout of a packed
  ring, where the driver otherwise uses split rings, whose `flags` come first: the
  flag that makes receive buffers writable is then not where such a device looks for
  it, and the models claim nothing about it; `VIRTIO_NET_F_MAC` is defined as bit 15
  (`virt_mmio.h:68`), which is not its number in the virtio specification;
* `virt_mmio.h:189` says the length of a used element excludes the virtio-net
  header, the code subtracts it (`virt_mmio.c:292`) without a test. `net_rx` has
  both readings: with the one of the header file every frame is reported short by
  the header, or, if it is shorter than that, with a length near 2^32;
* a receive entry with a descriptor out of range is never consumed, so each later
  poll meets it again; the packet of `virt_mmio_net_tx` is never freed;
* a transmit descriptor whose completion is out of range stays in use for good
  (`virt_mmio.c:362`), also for the next device, as `..._virtq_init` does not clear
  `in_use`;
* the 'Example ARP response' (`virt_mmio.c:348`) is built under the Ethernet type of
  IP, so that `virt_mmio_net_poll_rx` at the other end would not hand it to
  `parse_arp`; its sender address is byte-reversed, since `ntohl` is applied to an
  address that is in network order already; `num_buffers` of the virtio header is
  left as the page had it;
* the kernel goes on running at low addresses: `la` is relative to the pc, so the
  jump that `Start.S:73-74` and `mem.c:125-126` describe as one to the high half is
  not;
* `parse_dtb_unit_name` shifts before it sees that a character is not a digit
  (`@1,0` gives 0x10); `string_comp_l` takes a prefix for the whole;
* `va2pa` takes a gigapage leaf for a table; nothing calls it;
* the slot of `regs[0]` in the trap frame is never written, and `dump_registers`
  prints it as `zero`;
* a process that starts after a preemption is masked to its end (`forkret` does not
  unmask): only one process at a time is preempted. `ConsoleExact` profits from
  that, since each suspended `uart_putc` needs a place in the FIFO.

## 6. Proofs

`PageAllocProofs` proves, for every page size, heap layout, set of sizes and set
of addresses (assumed to be natural numbers, the page size not zero):

* `TypeCorrect`, `PartitionHolds`, `CountHolds`: `Spec => []TypeOK`,
  `[]HeapPartition`, `[]CountExact`;
* `ImplementsHeap`: `Spec => HeapContract`, that is, `PageAlloc` implements
  `PageHeap`.

The inductive invariant is `Inv == TypeOK /\ HeapPartition /\ CountExact`; no
conjunct is inductive alone. `AllocOne` takes the head of the list after a test
of the counter, so it needs `CountExact`; `CountExact` after `AllocRun` needs
that the list has no repetitions, so that `n` nodes inside the run are the `n`
pages of the run. The argument:

1. `RankBijective`: ranks in a finite set of positions are a bijection;
   `UnlinkKeeps` and `OutsideCount` derive from it what unlinking keeps and how
   long the result is.
2. `CountFindsRun`: in a list without repetitions the scan counts `n` exactly
   when the whole run is free. This makes `mem_alloc`'s test correct in both
   directions, and gives the step to `PageHeap`.
3. `TailKeeps`, `PushKeeps`: the single-page paths.
4. `InitInv`, and one lemma per action (`AllocOneStep`, `AllocRunStep`,
   `FreePageStep`, `RefuseStep`), each showing that the invariant is kept and
   that the step is one of `PageHeap`; `StepLemma` puts them together.

`NetTxProofs` proves, for every queue size, index width, set of lengths and
buffer size, that `SentInOrder` (`TransmitsInOrder`) and `OnlyLostInUse`
(`CallsLeaveOnlyLost`) hold in every interleaving with the device, with completions
out of range and initialisations in between. The inductive invariant `IInv` says
where the one descriptor in flight is: nothing is in flight and all indices agree,
or it is filled, on offer, taken, in the used ring, or counted there. It is needed
because the wait of `virt_mmio_net_tx` only compares indices: that the entry it
then finds is its own, or names none, follows from all four of them.
`PacketIsBuilt` proves `PacketBuilt` for data of every length, also beyond the
65535 bytes that `build_eth_frame` can count: each of the writes says for every
byte whether it is its own.

`NetRxProofs` proves `FramesInOrder` (`FramesAreInOrder`), `BufferIsDrivers`
(`BufferIsOwn`), `RingsExact` (`RingsAreExact`) and `FrameLenExact`
(`FrameLengths`), for every queue size, every index width that is a multiple of it,
and every length of frames, reported with the header or without it. Of the caller's
limit it assumes that it is at least the header and fits the 32-bit type: the only
caller passes 2048 (`virt_mmio.c:439`). The inductive invariant `RxInv` sees each
ring through a window that starts at the reader's index: the descriptors on offer,
taken, returned and in hand are all different and `Size` together (`Counted`,
`Distinct`), and the returned elements carry consecutive frames up to the first bad
entry (`Numbered`). One group of lemmas (`LoadWindow` to `PublishWindow`) says what
each step does to the windows, and is the only place where indices wrap.

`VirtioInitProofs` proves `AcceptedOffered` (`FeaturesAccepted`), `OwnRings`
(`RingsAreOwn`), `ServesLiveDevice` (`ServedDeviceIsLive`) and the action property
`LiveUndisturbed` (`LiveDevicesUndisturbed`) for every number of slots and queue
size. `VInv` says which queues of `net_queues` are prepared, which of them the
device already has and what its status is at each line (`PreparedRings`,
`Scanned`, `Negotiated`). That nothing live is overwritten follows from the order
of allocations: what a ready queue works on is older than what
`virt_mmio_net_virtq_init` still writes, the available receive buffers included.

`SchedProofs` proves, for every table size and number of tasks, first `TimerAlive`
(`TimerNeverDies`), ticks in the switch window included. `TInv` adds the types
that frames and contexts need, and that MTIE and STIP differ at every step after
the first `set_timer`. Then, under `~ WindowTicks` (without which the first of
them is false, section 5), `SwitchesToScheduler` (`ReturnsToScheduler`), `OwnStack`
(`RunsOnOwnStack`), `ResumedUnmasked` (`ResumesUnmasked`) and `PreemptedAlone`
(`PreemptsOne`). None of them is inductive, as each depends on what was saved when
and under which mask. `SInv` adds to `TInv` and the states of slots:

* `OnBoot`, `OnTask`: what `current_process` and `sched_context` are at each place
  of the scheduler and of a process. The place is that of the interrupted code
  when the handler is on top of it;
* `Saves`: what the context and the frame of a process that waits look like;
* `Masks`: while a process is suspended in a trap everybody else is masked, so
  there is no second one;
* `Rets`: `yield` returns to the handler only if it was called from there.

One lemma for each group of places (`InMain`, `InTask`, `InYield`, `ToMain`) says
what `SInv` gives there; `MainKeeps`, `StackKeeps` and `SavesKept` say which parts
a step cannot disturb. The steps are taken in groups, `MainSteps`, `TrapSteps`,
`YieldSteps` and `ProcessSteps`, which `StepSwitch` puts together.

`RoundRobinProofs` goes on from there, under the same assumption, and proves that
`Sched` implements `RoundRobin` (`ImplementsRoundRobin`) and `NobodyStranded`
(`NobodyIsStranded`), for every table size, number of tasks and amount of work.
`RInv` adds to `SInv` who may be RUNNING (`Running`), what a pass that has found
nobody has seen (`Pass`), and which slots can have been dispatched since a process
began to wait, before and behind the slot that the pass comes to next (`Rounds`).
`StepImplements` then maps each step to one of `RoundRobin`, or to none.

`BootProofs` proves `KernelMapped` (`KernelStaysMapped`), `MapsExact`
(`NothingElseMapped`), `TablesOwned` (`TablesAreOwned`), `LostOnlyIfSmall`
(`LostIfSmall`) and `VectorsSet` (`VectorsAreSet`) for every heap size, number of
virtio slots, set of table indices that holds those in use, and device tree. `PInv`
follows the pages: the free list is always the heap from some page on, so that the
three tables of each root are neighbours, and `Built` gives every entry of them
after so many calls of `map_page`. The lemmas `Follows`, `Exhausted` and
`Allocates` say what one level of `map_page` does, `MapFirst` and `MapMore` what a
whole call does to a table that is being built; there is one lemma for each step of
the boot (`PClearBss` to `PAllocate`), which `PNext` puts together. `KernelWalk` and
`MmioWalk` then follow the hardware's walk through a table that is built,
`ThreeTables` and `Pointers` find its pages and links. For the vectors a small
invariant of its own, `VInv`, says behind which statement of `main` they are set.

`TrapProofs` proves `TrapTransparent` (`TrapsLeaveNoTrace`) and `FrameExact`
(`FramesAreExact`) for every text that `uart_puts` prints and every sequence of
ticks, faults and traps to M-mode. What a register holds after `sret` was put into
a frame some thirty instructions earlier, so `XInv` says before each instruction of
the two vectors which registers are saved by then (`EntryAt`) and which are
restored. In M-mode there are two sets of registers, those the hart has and those
it will have after `mret`; `XInv` speaks of the latter, so that an interrupt of
M-mode between two instructions of `trap_vector` changes nothing it says.

Only model-checked:

* all liveness (fairness and ENABLED are outside what the prover handles);
* `FdtExact` and `ConsoleExact`, which compare what recursive definitions compute
  for data of any length: this takes induction over data;
* `PageLinks`, and that it implements `PageAlloc`.

## 7. Not modelled

* Never called: the receive side of the UART (`uart_getc`, `uart_gets`),
  `uart_dec`, `parse`, `string_comp`, `string_set`, `h2i`, `align_offset`,
  `mem_compare`, `wait_cycles`.
* Printing without other effect: wording, `dump_registers` beyond the frame it
  reads, `print_mac`, `print_ip`, `parse_arp`, `uart_b2x`, `uart_puts_fixed`, process names.
* Never reached: software and external interrupts in S-mode, which `sie` does not
  enable; `m_panic`, to which `Trap` has no step: any other cause in M-mode would
  be a deadlock, and there is none.
* What the headers of a packet say, and the flags of descriptors: the driver does
  not act on either.
* Below the model: permission bits of page table entries, except that a leaf has
  one; accessed and dirty bits, taken to be set by the hardware; the TLB, which
  `sfence.vma` empties at each switch; the value of `mtimecmp`.

----------------------------- MODULE BootProofs ----------------------------
(***************************************************************************)
(* Proofs about Boot: for every size of the heap, every number of virtio   *)
(* slots and every device tree, S-mode always runs on a complete table of  *)
(* its own, the boot is lost only on a heap that is too small, and a trap  *)
(* finds its vector.                                                       *)
(*                                                                         *)
(* The invariant follows the pages.  The heap is taken from the front, so  *)
(* the free list is always the rest of it from some page on, and the three *)
(* tables of each of the two page tables are neighbours: first             *)
(* boot_page_table and the first two pages of the heap, then the next      *)
(* three.  Built says what all their entries are after so many calls of    *)
(* map_page.                                                               *)
(***************************************************************************)
EXTENDS Boot, FiniteSetTheorems, TLAPS

\* boot_page_table and, from 1 on, the pages of the heap.
Page(k) == <<BASE, 0, k + 1>>
Size == Cardinality(heap)

\* The pages of a heap of n from page j + 1 on.
From(n, j) == [k \in 1 .. (n - j) |-> Page(j + k)]

\* The first j pages of the heap are taken.
FreeFrom(j) == j <= Size /\ free = From(Size, j)

\* What is still to be mapped after UART0 and d slots.
Rest(d) == [k \in 1 .. (VIRTIO_SLOTS - d) |-> VIRT_MMIO(d + k)]

\* boot_page_table and a heap of n pages.
PagesTo(n) == {Page(k) : k \in 0 .. n}

Addresses == Nat \X Nat \X Nat
Entries == [v : BOOLEAN, leaf : BOOLEAN, pa : Addresses]
Rows == [Index -> Entries]
Memory(P) == [P -> Rows]

\* The entries of a root table, where e leads to the UART and the slots, of
\* the table below the one in page r, and of the last one when d slots are
\* mapped.
Kernel == Leaf(<<BASE, 0, 0>>)
RootRow(e) ==
  [i \in Index |-> IF i \in {BASE, KERNEL_BASE} THEN Kernel ELSE IF i = 0 THEN e ELSE Invalid]
MidRow(r) == [i \in Index |-> IF i = 128 THEN Table(Page(r + 2)) ELSE Invalid]
LastRow(d) == [i \in Index |-> IF i \in 0 .. d THEN Leaf(<<0, 128, i>>) ELSE Invalid]

\* In the memory m the table in page r and the two after it map UART0 and d
\* slots.
Maps(m, r, d) ==
  /\ m[Page(r)] = RootRow(Table(Page(r + 1)))
  /\ m[Page(r + 1)] = MidRow(r)
  /\ m[Page(r + 2)] = LastRow(d)

Built(r, d) == r + 2 <= Size /\ Maps(mem, r, d)

\* Between the calls of map_page.
Building(r) ==
  /\ root = Page(r)
  /\ \/ todo = Mmio /\ FreeFrom(r) /\ mem[Page(r)] = RootRow(Invalid)
     \/ \E d \in 0 .. VIRTIO_SLOTS : todo = Rest(d) /\ FreeFrom(r + 2) /\ Built(r, d)

HeapShape ==
  /\ Size \in Nat /\ heap = {Page(k) : k \in 1 .. Size}
  /\ mem \in Memory(Pages)

InM ==
  mode = "M" =>
    /\ pc \in {"_start", "relocate_kernel", "map", "m_setup", "mret", "fault"}
    /\ pc = "relocate_kernel" => mem[Page(0)] = Zeros
    /\ pc = "map" => Building(0)
    /\ pc \in {"m_setup", "mret"} => satp = Page(0) /\ Built(0, VIRTIO_SLOTS) /\ FreeFrom(2)
    /\ pc = "fault" => Size < 2

Before == {"mem_init", "map", "hang", "fault"}
After == {"uart_init", "trap_init", "set_timer", "enable_timer_interrupt", "intr_on",
          "fdt_traverse", "walk", "virt_find_all_devices", "proc_create", "scheduler"}

\* S-mode on the first table, and on the second.
OnFirst ==
  /\ satp = Page(0) /\ Built(0, VIRTIO_SLOTS)
  /\ pc = "mem_init" => FreeFrom(2)
  /\ pc = "hang" => Size < 5 /\ FreeFrom(2)
  /\ pc = "map" => 3 <= Size /\ Building(3)
  /\ pc = "fault" => Size < 5 /\ \E j \in 3 .. Size : FreeFrom(j)

OnSecond ==
  /\ satp = Page(3) /\ Built(3, VIRTIO_SLOTS)
  /\ \E j \in 5 .. Size : FreeFrom(j)

InS ==
  mode = "S" => \/ pc \in Before /\ OnFirst
                \/ pc \in After /\ OnSecond

PInv == mode \in {"M", "S"} /\ HeapShape /\ InM /\ InS

-----------------------------------------------------------------------------
(***************************************************************************)
(* Pages, rows and lists                                                   *)
(***************************************************************************)
\* The gigabytes of the kernel, and the entries the tables have.
LEMMA Numbers ==
  /\ BASE = 2 /\ KERNEL_BASE = 258 /\ VIRTIO_SLOTS \in Nat
  /\ 0 \in Index /\ 128 \in Index /\ BASE \in Index /\ KERNEL_BASE \in Index
  /\ \A i \in 0 .. VIRTIO_SLOTS : i \in Index
  BY BootAssumption DEF BASE, KERNEL_BASE, VIRT_OFFSET

\* Pages have different addresses, which have no high alias to strip.
LEMMA PageFacts ==
  /\ \A j, k \in Nat : Page(j) = Page(k) <=> j = k
  /\ \A k \in Nat : Page(k) \in Addresses /\ virt_to_phys(Page(k)) = Page(k)
  /\ boot_page_table = Page(0)
  <1>1. \A j, k \in Nat : Page(j) = Page(k) <=> j = k
    BY DEF Page
  <1>2. \A k \in Nat : Page(k) \in Addresses
    BY DEF Page, Addresses, BASE
  <1>3. \A k \in Nat : virt_to_phys(Page(k)) = Page(k)
    BY Numbers DEF Page, virt_to_phys
  <1>4. boot_page_table = Page(0)
    BY DEF Page, boot_page_table
  <1> QED
    BY <1>1, <1>2, <1>3, <1>4, Zenon

\* The kinds of entries.
LEMMA Kinds ==
  /\ Invalid \in Entries /\ ~ Invalid.v
  /\ \A a \in Addresses : /\ Table(a) \in Entries /\ Table(a).v /\ ~ Table(a).leaf /\ Table(a).pa = a
                          /\ Leaf(a) \in Entries /\ Leaf(a).v /\ Leaf(a).leaf /\ Leaf(a).pa = a
  BY Zenon DEF Invalid, Table, Leaf, NULL, Entries, Addresses

\* What the writes of map_page and mem_init make of the rows.
With(row, i, e) == [row EXCEPT ![i] = e]

\* What memset, the gigapages and the entries map_page writes make of a row.
LEMMA RowWrites ==
  /\ Zeros \in Rows /\ Junk \in Rows
  /\ Gigapages(Zeros) = RootRow(Invalid)
  /\ \A e \in Entries : RootRow(e) \in Rows /\ With(RootRow(Invalid), 0, e) = RootRow(e)
  /\ \A r \in Nat : MidRow(r) \in Rows /\ With(Zeros, 128, Table(Page(r + 2))) = MidRow(r)
  /\ With(Zeros, 0, Leaf(<<0, 128, 0>>)) = LastRow(0)
  /\ \A d \in 0 .. VIRTIO_SLOTS : LastRow(d) \in Rows
  /\ \A d \in 0 .. (VIRTIO_SLOTS - 1) :
       With(LastRow(d), d + 1, Leaf(<<0, 128, d + 1>>)) = LastRow(d + 1)
  <1>1. Zeros \in Rows /\ Junk \in Rows
    <2>1. <<3, 3, 3>> \in Addresses
      BY Zenon DEF Addresses
    <2> QED
      BY <2>1, Kinds, Zenon DEF Zeros, Junk, Rows
  <1>2. Gigapages(Zeros) = RootRow(Invalid)
    BY Numbers, Zenon DEF Gigapages, Zeros, RootRow, Kernel
  <1>3. \A e \in Entries : RootRow(e) \in Rows
    <2>1. Kernel \in Entries
      BY Kinds, Numbers, Zenon DEF Kernel, Addresses
    <2> QED
      BY <2>1, Kinds, Zenon DEF RootRow, Rows
  <1>4. ASSUME NEW e \in Entries
        PROVE  With(RootRow(Invalid), 0, e) = RootRow(e)
    <2>1. 0 \in Index /\ 0 # BASE /\ 0 # KERNEL_BASE
      BY Numbers
    <2> QED
      BY <2>1, Zenon DEF RootRow, With
  <1>5. \A r \in Nat : MidRow(r) \in Rows
    BY Kinds, PageFacts DEF MidRow, Rows
  <1>6. \A r \in Nat : With(Zeros, 128, Table(Page(r + 2))) = MidRow(r)
    BY Numbers, Zenon DEF MidRow, Zeros, With
  <1>7. With(Zeros, 0, Leaf(<<0, 128, 0>>)) = LastRow(0)
    <2>1. \A i : i \in 0 .. 0 <=> i = 0
      OBVIOUS
    <2> QED
      BY <2>1, Numbers, Zenon DEF LastRow, Zeros, With
  <1>8. \A d \in 0 .. VIRTIO_SLOTS : LastRow(d) \in Rows
    <2>1. \A i \in Nat : Leaf(<<0, 128, i>>) \in Entries
      BY Kinds DEF Addresses
    <2> QED
      BY <2>1, Kinds, Numbers DEF LastRow, Rows
  <1>9. \A d \in 0 .. (VIRTIO_SLOTS - 1) :
          With(LastRow(d), d + 1, Leaf(<<0, 128, d + 1>>)) = LastRow(d + 1)
    <2> TAKE d \in 0 .. (VIRTIO_SLOTS - 1)
    <2>1. d + 1 \in Index /\ d + 1 \in 0 .. (d + 1)
      BY Numbers
    <2>2. \A i : i # d + 1 => (i \in 0 .. (d + 1) <=> i \in 0 .. d)
      BY Numbers
    <2> QED
      BY <2>1, <2>2, Zenon DEF LastRow, With
  <1> QED
    BY <1>1, <1>2, <1>3, <1>4, <1>5, <1>6, <1>7, <1>8, <1>9, Zenon

\* Head, Tail and an element put in front, for sequences over any set.
LEMMA Ends ==
  ASSUME NEW S, NEW f \in Seq(S), Len(f) > 0
  PROVE  Head(f) = f[1] /\ Tail(f) = [k \in 1 .. (Len(f) - 1) |-> f[k + 1]]
  <1>1. Tail(f) \in Seq(S) /\ Len(Tail(f)) = Len(f) - 1
    OBVIOUS
  <1>2. \A k \in 1 .. (Len(f) - 1) : Tail(f)[k] = f[k + 1]
    OBVIOUS
  <1>3. ASSUME NEW g \in Seq(S) PROVE g = [k \in 1 .. Len(g) |-> g[k]]
    OBVIOUS
  <1>4. Tail(f) = [k \in 1 .. Len(Tail(f)) |-> Tail(f)[k]]
    BY <1>1, <1>3, Zenon
  <1>5. Head(f) = f[1]
    OBVIOUS
  <1> QED
    BY <1>1, <1>2, <1>4, <1>5, Zenon

\* A free list with no page left is the one of length 0.
LEMMA Empty ==
  ASSUME NEW S, NEW f \in Seq(S)
  PROVE  f = <<>> <=> Len(f) = 0
  OBVIOUS

\* A list with one page put before it.
LEMMA Fronted ==
  ASSUME NEW S, NEW x \in S, NEW f \in Seq(S), NEW g, g = <<x>> \o f
  PROVE  /\ g \in Seq(S) /\ Len(g) = Len(f) + 1 /\ Head(g) = x /\ Tail(g) = f
         /\ \A k \in 1 .. Len(g) : g[k] = IF k = 1 THEN x ELSE f[k - 1]
  <1>1. g \in Seq(S) /\ Len(g) = Len(f) + 1 /\ Len(f) \in Nat
    OBVIOUS
  <1>2. \A k \in 1 .. Len(g) : g[k] = IF k = 1 THEN x ELSE f[k - 1]
    BY <1>1
  <1>3. Head(g) = x
    BY <1>1
  <1>4. Tail(g) = f
    OBVIOUS
  <1> QED
    BY <1>1, <1>2, <1>3, <1>4, Zenon

\* What mem_alloc takes from the rest of the heap, and what it leaves.
LEMMA FreeLists ==
  ASSUME NEW n \in Nat, NEW j \in 0 .. n
  PROVE  /\ From(n, j) \in Seq(Addresses) /\ Len(From(n, j)) = n - j
         /\ From(n, j) = <<>> <=> j = n
         /\ Range(From(n, j)) = {Page(k) : k \in (j + 1) .. n}
         /\ j < n => Head(From(n, j)) = Page(j + 1) /\ Tail(From(n, j)) = From(n, j + 1)
  <1>1. From(n, j) \in Seq(Addresses) /\ Len(From(n, j)) = n - j
    BY PageFacts DEF From
  <1>2. From(n, j) = <<>> <=> j = n
    <2>1. From(n, j) = <<>> <=> Len(From(n, j)) = 0
      BY <1>1, Empty, Zenon
    <2> QED
      BY <1>1, <2>1
  <1>3. Range(From(n, j)) = {Page(k) : k \in (j + 1) .. n}
    <2>1. Range(From(n, j)) = {Page(j + k) : k \in 1 .. (n - j)}
      BY Zenon DEF Range, From
    <2>2. \A k \in 1 .. (n - j) : j + k \in (j + 1) .. n
      OBVIOUS
    <2>3. \A k \in (j + 1) .. n : k - j \in 1 .. (n - j) /\ j + (k - j) = k
      OBVIOUS
    <2>4. Range(From(n, j)) \subseteq {Page(k) : k \in (j + 1) .. n}
      BY <2>1, <2>2, Zenon
    <2>5. {Page(k) : k \in (j + 1) .. n} \subseteq Range(From(n, j))
      BY <2>1, <2>3, Zenon
    <2> QED
      BY <2>4, <2>5, Zenon
  <1>4. ASSUME j < n
        PROVE  Head(From(n, j)) = Page(j + 1) /\ Tail(From(n, j)) = From(n, j + 1)
    <2>1. Len(From(n, j)) > 0 /\ Len(From(n, j)) - 1 = n - (j + 1) /\ 1 \in 1 .. (n - j)
      BY <1>1, <1>4
    <2>2. /\ Head(From(n, j)) = From(n, j)[1]
          /\ Tail(From(n, j)) = [k \in 1 .. (n - (j + 1)) |-> From(n, j)[k + 1]]
      BY <1>1, <2>1, Ends, Zenon
    <2>3. \A k \in 1 .. (n - (j + 1)) : k + 1 \in 1 .. (n - j) /\ j + (k + 1) = (j + 1) + k
      BY <1>4
    <2>4. \A k \in 1 .. (n - (j + 1)) : From(n, j)[k + 1] = Page((j + 1) + k)
      BY <2>3, Zenon DEF From
    <2>5. From(n, j)[1] = Page(j + 1)
      BY <2>1, Zenon DEF From
    <2> QED
      BY <2>2, <2>4, <2>5, Zenon DEF From
  <1> QED
    BY <1>1, <1>2, <1>3, <1>4, Zenon

\* The same for a pages at once.
LEMMA Taken ==
  ASSUME NEW n \in Nat, NEW j \in 0 .. n, NEW a \in 0 .. (n - j)
  PROVE  /\ SubSeq(From(n, j), a + 1, Len(From(n, j))) = From(n, j + a)
         /\ Range(SubSeq(From(n, j), 1, a)) \subseteq {Page(k) : k \in (j + 1) .. n}
  <1>1. From(n, j) \in Seq(Addresses) /\ Len(From(n, j)) = n - j
    BY FreeLists, Zenon
  <1>2. SubSeq(From(n, j), a + 1, n - j) = [k \in 1 .. (n - (j + a)) |-> From(n, j)[k + a]]
    <2>1. SubSeq(From(n, j), a + 1, n - j) =
            [k \in 1 .. ((n - j) - (a + 1) + 1) |-> From(n, j)[k + (a + 1) - 1]]
      BY <1>1
    <2>2. (n - j) - (a + 1) + 1 = n - (j + a)
      OBVIOUS
    <2>3. \A k \in 1 .. (n - (j + a)) : k + (a + 1) - 1 = k + a
      OBVIOUS
    <2> QED
      BY <2>1, <2>2, <2>3, Zenon
  <1>3. \A k \in 1 .. (n - (j + a)) : k + a \in 1 .. (n - j) /\ j + (k + a) = (j + a) + k
    OBVIOUS
  <1>4. \A k \in 1 .. (n - (j + a)) : From(n, j)[k + a] = Page((j + a) + k)
    BY <1>3, Zenon DEF From
  <1>5. SubSeq(From(n, j), a + 1, Len(From(n, j))) = From(n, j + a)
    BY <1>1, <1>2, <1>4, Zenon DEF From
  <1>6. Range(SubSeq(From(n, j), 1, a)) \subseteq {Page(k) : k \in (j + 1) .. n}
    <2>1. DOMAIN SubSeq(From(n, j), 1, a) = 1 .. a
      BY <1>1
    <2>2. \A k \in 1 .. a : SubSeq(From(n, j), 1, a)[k] = From(n, j)[k]
      BY <1>1
    <2>3. \A k \in 1 .. a : k \in 1 .. (n - j) /\ j + k \in (j + 1) .. n
      OBVIOUS
    <2>4. \A k \in 1 .. a : From(n, j)[k] = Page(j + k)
      BY <2>3, Zenon DEF From
    <2> QED
      BY <2>1, <2>2, <2>3, <2>4, Zenon DEF Range
  <1> QED
    BY <1>5, <1>6, Zenon

\* What setup_uart_mapping and setup_virtio_mappings have still to map.
LEMMA MmioLists ==
  /\ Mmio # <<>> /\ Head(Mmio) = UART0 /\ Tail(Mmio) = Rest(0)
  /\ Range(Mmio) = {<<0, 128, i>> : i \in 0 .. VIRTIO_SLOTS}
  /\ \A d \in 0 .. VIRTIO_SLOTS :
       /\ Rest(d) = <<>> <=> d = VIRTIO_SLOTS
       /\ d < VIRTIO_SLOTS => Head(Rest(d)) = <<0, 128, d + 1>> /\ Tail(Rest(d)) = Rest(d + 1)
       /\ Rest(d) # Mmio
  <1>1. \A d \in 0 .. VIRTIO_SLOTS :
          Rest(d) \in Seq(Addresses) /\ Len(Rest(d)) = VIRTIO_SLOTS - d
    BY Numbers DEF Rest, VIRT_MMIO, Addresses
  <1>2. UART0 \in Addresses /\ Rest(0) \in Seq(Addresses) /\ Len(Rest(0)) = VIRTIO_SLOTS
    <2>1. UART0 \in Addresses
      BY DEF UART0, Addresses
    <2>2. 0 \in 0 .. VIRTIO_SLOTS /\ VIRTIO_SLOTS - 0 = VIRTIO_SLOTS
      BY Numbers
    <2> QED
      BY <1>1, <2>1, <2>2, Zenon
  <1>3. Mmio = <<UART0>> \o Rest(0)
    BY Numbers DEF Mmio, Rest, VIRT_MMIO
  <1>4. /\ Mmio \in Seq(Addresses) /\ Len(Mmio) = Len(Rest(0)) + 1
        /\ Head(Mmio) = UART0 /\ Tail(Mmio) = Rest(0)
        /\ \A k \in 1 .. Len(Mmio) : Mmio[k] = IF k = 1 THEN UART0 ELSE Rest(0)[k - 1]
    BY <1>2, <1>3, Fronted
  <1>5. Len(Mmio) = VIRTIO_SLOTS + 1 /\ Mmio # <<>>
    BY <1>2, <1>4, Numbers
  <1>7. ASSUME NEW d \in 0 .. VIRTIO_SLOTS
        PROVE  /\ Rest(d) = <<>> <=> d = VIRTIO_SLOTS
               /\ d < VIRTIO_SLOTS => Head(Rest(d)) = <<0, 128, d + 1>> /\ Tail(Rest(d)) = Rest(d + 1)
               /\ Rest(d) # Mmio
    <2>0. Rest(d) \in Seq(Addresses) /\ Len(Rest(d)) = VIRTIO_SLOTS - d
      BY <1>1, Zenon
    <2>1. Rest(d) = <<>> <=> d = VIRTIO_SLOTS
      <3>1. Rest(d) = <<>> <=> Len(Rest(d)) = 0
        BY <2>0, Empty, Zenon
      <3> QED
        BY <2>0, <3>1, Numbers
    <2>2. Rest(d) # Mmio
      BY <2>0, <1>5, Numbers
    <2>3. ASSUME d < VIRTIO_SLOTS
          PROVE  Head(Rest(d)) = <<0, 128, d + 1>> /\ Tail(Rest(d)) = Rest(d + 1)
      <3>1. Head(Rest(d)) = <<0, 128, d + 1>>
        BY <1>1, <2>3, Numbers DEF Rest, VIRT_MMIO
      <3>2. Tail(Rest(d)) = [k \in 1 .. (VIRTIO_SLOTS - (d + 1)) |-> Rest(d)[k + 1]]
        <4>1. Len(Rest(d)) > 0 /\ Len(Rest(d)) - 1 = VIRTIO_SLOTS - (d + 1)
          BY <2>0, <2>3, Numbers
        <4>2. Tail(Rest(d)) = [k \in 1 .. (Len(Rest(d)) - 1) |-> Rest(d)[k + 1]]
          BY <2>0, <4>1, Ends, Zenon
        <4> QED
          BY <4>1, <4>2, Zenon
      <3>3. \A k \in 1 .. (VIRTIO_SLOTS - (d + 1)) : Rest(d)[k + 1] = VIRT_MMIO((d + 1) + k)
        BY <1>1, <2>3, Numbers DEF Rest, VIRT_MMIO
      <3> QED
        BY <3>1, <3>2, <3>3, Zenon DEF Rest
    <2> QED
      BY <2>1, <2>2, <2>3, Zenon
  <1>8. Range(Mmio) = {<<0, 128, i>> : i \in 0 .. VIRTIO_SLOTS}
    <2>1. DOMAIN Mmio = 1 .. (VIRTIO_SLOTS + 1)
      BY <1>4, <1>5
    <2>2. \A k \in 1 .. (VIRTIO_SLOTS + 1) : Mmio[k] = <<0, 128, k - 1>>
      <3>1. \A k \in 2 .. Len(Mmio) : Rest(0)[k - 1] = <<0, 128, k - 1>>
        BY <1>5, Numbers DEF Rest, VIRT_MMIO
      <3>2. \A k \in 1 .. Len(Mmio) : k = 1 \/ (k # 1 /\ k \in 2 .. Len(Mmio))
        BY <1>5, Numbers
      <3>3. UART0 = <<0, 128, 1 - 1>>
        BY DEF UART0
      <3> QED
        BY <1>4, <1>5, <3>1, <3>2, <3>3, Zenon
    <2>3. \A k \in 1 .. (VIRTIO_SLOTS + 1) : k - 1 \in 0 .. VIRTIO_SLOTS
      BY Numbers
    <2>4. \A i \in 0 .. VIRTIO_SLOTS : i + 1 \in 1 .. (VIRTIO_SLOTS + 1) /\ (i + 1) - 1 = i
      BY Numbers
    <2>5. Range(Mmio) \subseteq {<<0, 128, i>> : i \in 0 .. VIRTIO_SLOTS}
      BY <2>1, <2>2, <2>3, Zenon DEF Range
    <2>6. {<<0, 128, i>> : i \in 0 .. VIRTIO_SLOTS} \subseteq Range(Mmio)
      BY <2>1, <2>2, <2>4, Zenon DEF Range
    <2> QED
      BY <2>5, <2>6, Zenon
  <1> QED
    BY <1>4, <1>5, <1>7, <1>8, Zenon

-----------------------------------------------------------------------------
(***************************************************************************)
(* map_page                                                                *)
(***************************************************************************)
\* A write to entry i of the table in page p.
Put(m, p, i, e) == [m EXCEPT ![p][i] = e]

\* One level down: after a fault, over a valid entry, without memory, and
\* into a new table.
LEMMA Faulted ==
  ASSUME NEW s, NEW level, NEW va, s.fault
  PROVE  NextTable(s, level, va) = s
  BY Zenon DEF NextTable

\* A valid entry is followed to the table it points to.
LEMMA Follows ==
  ASSUME NEW s, NEW level, NEW va, ~ s.fault,
         s.mem[s.pt][PX(level, va)].v, s.mem[s.pt][PX(level, va)].pa \in DOMAIN s.mem
  PROVE  /\ ~ NextTable(s, level, va).fault
         /\ NextTable(s, level, va).mem = s.mem /\ NextTable(s, level, va).free = s.free
         /\ NextTable(s, level, va).pt = s.mem[s.pt][PX(level, va)].pa
  <1>1. NextTable(s, level, va) =
          WalkAt(s.mem, s.free, s.mem[s.pt][PX(level, va)].pa,
                 s.mem[s.pt][PX(level, va)].pa \notin DOMAIN s.mem)
    BY Zenon DEF NextTable
  <1>2. (s.mem[s.pt][PX(level, va)].pa \notin DOMAIN s.mem) = FALSE
    BY Zenon
  <1>3. NextTable(s, level, va) = WalkAt(s.mem, s.free, s.mem[s.pt][PX(level, va)].pa, FALSE)
    BY <1>1, <1>2, Zenon
  <1> QED
    BY <1>3 DEF WalkAt

\* With no page left alloc_page returns 0 and the walk faults on it.
LEMMA Exhausted ==
  ASSUME NEW s, NEW level, NEW va, ~ s.fault, ~ s.mem[s.pt][PX(level, va)].v, s.free = <<>>
  PROVE  /\ NextTable(s, level, va).fault
         /\ NextTable(s, level, va).mem = s.mem /\ NextTable(s, level, va).free = s.free
  <1>1. NextTable(s, level, va) = WalkAt(s.mem, s.free, s.pt, TRUE)
    BY Zenon DEF NextTable
  <1> QED
    BY <1>1 DEF WalkAt

\* Otherwise the first free page is cleared and linked in as the table.
LEMMA Allocates ==
  ASSUME NEW s, NEW level, NEW va, ~ s.fault, ~ s.mem[s.pt][PX(level, va)].v, s.free # <<>>
  PROVE  /\ ~ NextTable(s, level, va).fault
         /\ NextTable(s, level, va).mem =
              Put(memset(s.mem, Head(s.free)), s.pt, PX(level, va), Table(virt_to_phys(Head(s.free))))
         /\ NextTable(s, level, va).free = Tail(s.free)
         /\ NextTable(s, level, va).pt = Head(s.free)
  <1>1. NextTable(s, level, va) =
          WalkAt(Put(memset(s.mem, Head(s.free)), s.pt, PX(level, va),
                     Table(virt_to_phys(Head(s.free)))),
                 Tail(s.free), Head(s.free), FALSE)
    BY Zenon DEF NextTable, Put
  <1> QED
    BY <1>1 DEF WalkAt

\* The last table for va, and the entry in it.
Down(m, f, p, va) == NextTable(NextTable(WalkAt(m, f, p, FALSE), 2, va), 1, va)

\* map_page writes the leaf where the two levels above it lead.
LEMMA MapPage ==
  ASSUME NEW m, NEW f, NEW p, NEW va, NEW pa
  PROVE  /\ Down(m, f, p, va).fault => map_page(m, f, p, va, pa) = Down(m, f, p, va)
         /\ ~ Down(m, f, p, va).fault =>
              map_page(m, f, p, va, pa) =
                WalkAt(Put(Down(m, f, p, va).mem, Down(m, f, p, va).pt, PX(0, va), Leaf(pa)),
                       Down(m, f, p, va).free, Down(m, f, p, va).pt, FALSE)
  BY Zenon DEF map_page, Put, Down

\* Apart from the pages in S, the memories m and w are the same.
Same(P, S, m, w) == \A x \in P : x \notin S => w[x] = m[x]

\* The two writes to memory: an entry of a table, and a cleared page.
LEMMA Writes ==
  ASSUME NEW P, NEW m \in Memory(P), NEW p \in P, NEW i \in Index, NEW e \in Entries
  PROVE  /\ Put(m, p, i, e) \in Memory(P) /\ Put(m, p, i, e)[p] = With(m[p], i, e)
         /\ Same(P, {p}, m, Put(m, p, i, e))
  <1>1. m[p] \in Rows
    BY Zenon DEF Memory
  <1>2. With(m[p], i, e) \in Rows
    BY <1>1, Zenon DEF Rows, With
  <1>3. Put(m, p, i, e) = [m EXCEPT ![p] = With(m[p], i, e)]
    BY Zenon DEF Put, With
  <1>4. Put(m, p, i, e) \in Memory(P)
    BY <1>2, <1>3, Zenon DEF Memory
  <1> QED
    BY <1>3, <1>4, Zenon DEF Memory, Same

\* memset clears one page and leaves the others alone.
LEMMA Clears ==
  ASSUME NEW P, NEW m \in Memory(P), NEW p \in P
  PROVE  /\ memset(m, p) \in Memory(P) /\ memset(m, p)[p] = Zeros
         /\ Same(P, {p}, m, memset(m, p))
  <1>1. memset(m, p) \in Memory(P)
    BY RowWrites, Zenon DEF memset, Memory
  <1> QED
    BY <1>1, Zenon DEF memset, Memory, Same

\* w is m with the page q cleared and linked in, by the entry e, as a table.
Linked(P, m, p, q, i, e, w) ==
  /\ w \in Memory(P) /\ w[q] = Zeros /\ w[p] = With(m[p], i, e)
  /\ Same(P, {p, q}, m, w)

\* A new table q below p: it is empty, and entry i of p leads to it.
LEMMA NewTable ==
  ASSUME NEW P, NEW m \in Memory(P), NEW p \in P, NEW q \in P, p # q, NEW i \in Index,
         NEW e \in Entries
  PROVE  Linked(P, m, p, q, i, e, Put(memset(m, q), p, i, e))
  <1> DEFINE w == Put(memset(m, q), p, i, e)
  <1>1. /\ memset(m, q) \in Memory(P) /\ memset(m, q)[q] = Zeros
        /\ Same(P, {q}, m, memset(m, q))
    BY Clears, Zenon
  <1>2. /\ w \in Memory(P) /\ w[p] = With(memset(m, q)[p], i, e)
        /\ Same(P, {p}, memset(m, q), w)
    BY <1>1, Writes, Zenon
  <1> HIDE DEF w
  <1>3. memset(m, q)[p] = m[p] /\ w[q] = Zeros
    BY <1>1, <1>2, Zenon DEF Same
  <1>4. Same(P, {p, q}, m, w)
    BY <1>1, <1>2, Zenon DEF Same
  <1> QED
    BY <1>2, <1>3, <1>4, Zenon DEF Linked, w

\* The entries that the walk over the tables in pages r to r + 2 reads.
LEMMA RowReads ==
  /\ RootRow(Invalid)[0] = Invalid /\ Zeros[128] = Invalid
  /\ \A e : RootRow(e)[0] = e
  /\ \A r : MidRow(r)[128] = Table(Page(r + 2))
  <1>1. 0 # BASE /\ 0 # KERNEL_BASE
    BY Numbers
  <1> QED
    BY <1>1, Numbers, Zenon DEF RootRow, MidRow, Zeros

\* The table indices of UART0 and of the slots.
LEMMA Levels ==
  ASSUME NEW i
  PROVE  PX(2, <<0, 128, i>>) = 0 /\ PX(1, <<0, 128, i>>) = 128 /\ PX(0, <<0, 128, i>>) = i
  <1>1. 3 - 2 = 1 /\ 3 - 1 = 2 /\ 3 - 0 = 3
    OBVIOUS
  <1> QED
    BY <1>1 DEF PX

\* The first call, for UART0, makes the two tables below the one in page r,
\* or runs out of pages.
MapsFirst(n, r, m, s) ==
  /\ s.mem \in Memory(PagesTo(n)) /\ Same(PagesTo(n), {Page(r), Page(r + 1), Page(r + 2)}, m, s.mem)
  /\ \/ s.fault /\ n < r + 2 /\ \E j \in r .. n : s.free = From(n, j)
     \/ ~ s.fault /\ r + 2 <= n /\ s.free = From(n, r + 2) /\ Maps(s.mem, r, 0)

\* The first map_page takes the two pages behind the root for the lower tables.
LEMMA MapFirst ==
  ASSUME NEW n \in Nat, NEW r \in 0 .. n, NEW m \in Memory(PagesTo(n)),
         m[Page(r)] = RootRow(Invalid)
  PROVE  MapsFirst(n, r, m, map_page(m, From(n, r), Page(r), UART0, UART0))
  <1> SUFFICES ASSUME NEW P, P = {Page(k) : k \in 0 .. n}, m \in Memory(P),
                      NEW s, s = map_page(m, From(n, r), Page(r), UART0, UART0)
               PROVE  /\ s.mem \in Memory(P) /\ Same(P, {Page(r), Page(r + 1), Page(r + 2)}, m, s.mem)
                      /\ \/ s.fault /\ n < r + 2 /\ \E j \in r .. n : s.free = From(n, j)
                         \/ ~ s.fault /\ r + 2 <= n /\ s.free = From(n, r + 2) /\ Maps(s.mem, r, 0)
    BY Zenon DEF MapsFirst, PagesTo
  <1>1. PICK va : va = <<0, 128, 0>>
    BY Zenon
  <1>2. PICK s0 : s0 = WalkAt(m, From(n, r), Page(r), FALSE)
    BY Zenon
  <1>3. PICK s1 : s1 = NextTable(s0, 2, va)
    BY Zenon
  <1>4. PICK s2 : s2 = NextTable(s1, 1, va)
    BY Zenon
  <1>5. /\ s2.fault => s = s2
        /\ ~ s2.fault => s = WalkAt(Put(s2.mem, s2.pt, 0, Leaf(UART0)), s2.free, s2.pt, FALSE)
    <2>1. UART0 = va /\ PX(0, va) = 0
      BY <1>1, Levels, Zenon DEF UART0
    <2> QED
      <3>1. s2 = Down(m, From(n, r), Page(r), va)
        BY <1>2, <1>3, <1>4, Zenon DEF Down
      <3>2. s = map_page(m, From(n, r), Page(r), va, UART0)
        BY <2>1, Zenon
      <3>3. /\ s2.fault => s = s2
            /\ ~ s2.fault => s = WalkAt(Put(s2.mem, s2.pt, PX(0, va), Leaf(UART0)),
                                        s2.free, s2.pt, FALSE)
        BY <3>1, <3>2, MapPage, Zenon
      <3> QED
        BY <2>1, <3>3, Zenon
  <1>6. PX(2, va) = 0 /\ PX(1, va) = 128 /\ Page(r) \in P /\ r \in Nat
    <2>1. r \in Nat
      OBVIOUS
    <2> QED
      BY <1>1, <2>1, Levels, Zenon
  <1>7. /\ ~ s0.fault /\ s0.mem = m /\ s0.pt = Page(r) /\ s0.free = From(n, r)
        /\ ~ s0.mem[s0.pt][PX(2, va)].v
    <2>1. ~ s0.fault /\ s0.mem = m /\ s0.pt = Page(r) /\ s0.free = From(n, r)
      BY <1>2, Zenon DEF WalkAt
    <2> QED
      <3>1. m[Page(r)][0] = Invalid
        BY RowReads, Zenon
      <3>2. s0.mem[s0.pt][PX(2, va)] = Invalid
        BY <1>6, <2>1, <3>1, Zenon
      <3> QED
        BY <2>1, <3>2, Kinds, Zenon
  <1>8. CASE r = n
    <2>1. s0.free = <<>>
      BY <1>7, <1>8, FreeLists, Zenon
    <2>2. s1.fault /\ s1.mem = m /\ s1.free = From(n, r)
      BY <1>3, <1>7, <2>1, Exhausted, Zenon
    <2>3. s = s1
      BY <1>4, <1>5, <2>2, Faulted, Zenon
    <2>4. n < r + 2 /\ r \in r .. n
      BY <1>8
    <2> QED
      BY <2>2, <2>3, <2>4, Zenon DEF Same
  <1>9. CASE r < n
    <2>1. r + 1 \in 0 .. n /\ r + 1 \in Nat /\ r # r + 1
      BY <1>9
    <2>2. /\ From(n, r) # <<>> /\ Head(From(n, r)) = Page(r + 1)
          /\ Tail(From(n, r)) = From(n, r + 1)
      <3>1. r # n
        BY <1>9
      <3> QED
        BY <1>9, <3>1, FreeLists, Zenon
    <2>3. /\ Page(r + 1) \in P /\ Page(r) # Page(r + 1) /\ Page(r + 1) \in Addresses
          /\ virt_to_phys(Page(r + 1)) = Page(r + 1)
      BY <1>6, <2>1, PageFacts, Zenon
    <2>4. PICK w1 : w1 = Put(memset(m, Page(r + 1)), Page(r), 0, Table(Page(r + 1)))
      BY Zenon
    <2>5. ~ s1.fault /\ s1.mem = w1 /\ s1.free = From(n, r + 1) /\ s1.pt = Page(r + 1)
      <3>1. s0.free # <<>> /\ Head(s0.free) = Page(r + 1) /\ Tail(s0.free) = From(n, r + 1)
        BY <1>7, <2>2, Zenon
      <3>2. /\ ~ s1.fault /\ s1.free = Tail(s0.free) /\ s1.pt = Head(s0.free)
            /\ s1.mem = Put(memset(s0.mem, Head(s0.free)), s0.pt, PX(2, va),
                            Table(virt_to_phys(Head(s0.free))))
        BY <1>3, <1>7, <3>1, Allocates, Zenon
      <3> QED
        BY <1>6, <1>7, <2>3, <2>4, <3>1, <3>2, Zenon
    <2>6. /\ w1 \in Memory(P) /\ w1[Page(r + 1)] = Zeros
          /\ w1[Page(r)] = RootRow(Table(Page(r + 1)))
          /\ Same(P, {Page(r), Page(r + 1)}, m, w1)
      <3>1. Table(Page(r + 1)) \in Entries /\ 0 \in Index
        BY <2>3, Kinds, Numbers, Zenon
      <3>2. /\ w1 \in Memory(P) /\ w1[Page(r + 1)] = Zeros
            /\ w1[Page(r)] = With(m[Page(r)], 0, Table(Page(r + 1)))
            /\ Same(P, {Page(r), Page(r + 1)}, m, w1)
        <4>1. Linked(P, m, Page(r), Page(r + 1), 0, Table(Page(r + 1)), w1)
          BY <1>6, <2>3, <2>4, <3>1, NewTable, Zenon
        <4> QED
          BY <4>1, Zenon DEF Linked
      <3> QED
        BY <3>1, <3>2, RowWrites, Zenon
    <2>7. ~ s1.mem[s1.pt][PX(1, va)].v
      BY <1>6, <2>5, <2>6, RowReads, Kinds, Zenon
    <2>8. CASE r + 1 = n
      <3>1. s1.free = <<>>
        BY <2>1, <2>5, <2>8, FreeLists, Zenon
      <3>2. s2.fault /\ s2.mem = w1 /\ s2.free = From(n, r + 1)
        BY <1>4, <2>5, <2>7, <3>1, Exhausted, Zenon
      <3>3. s.mem = w1 /\ s.free = From(n, r + 1) /\ s.fault
        BY <1>5, <3>2, Zenon
      <3>4. n < r + 2 /\ r + 1 \in r .. n
        BY <2>8
      <3> QED
        BY <2>6, <3>3, <3>4, Zenon DEF Same
    <2>9. CASE r + 1 < n
      <3>1. r + 2 \in 0 .. n /\ r + 2 \in Nat /\ r # r + 2 /\ r + 1 # r + 2 /\ (r + 1) + 1 = r + 2
        BY <2>9
      <3>2. /\ From(n, r + 1) # <<>> /\ Head(From(n, r + 1)) = Page(r + 2)
            /\ Tail(From(n, r + 1)) = From(n, r + 2)
        <4>1. r + 1 # n
          BY <2>9
        <4> QED
          BY <2>1, <2>9, <3>1, <4>1, FreeLists, Zenon
      <3>3. /\ Page(r + 2) \in P /\ Page(r) # Page(r + 2) /\ Page(r + 1) # Page(r + 2)
            /\ Page(r + 2) \in Addresses /\ virt_to_phys(Page(r + 2)) = Page(r + 2)
        <4>1. Page(r + 2) \in P
          BY <3>1, Zenon
        <4>2. Page(r) # Page(r + 2) /\ Page(r + 1) # Page(r + 2)
          BY <1>6, <2>1, <3>1, PageFacts
        <4>3. Page(r + 2) \in Addresses /\ virt_to_phys(Page(r + 2)) = Page(r + 2)
          BY <3>1, PageFacts, Zenon
        <4> QED
          BY <4>1, <4>2, <4>3, Zenon
      <3>4. PICK w2 : w2 = Put(memset(w1, Page(r + 2)), Page(r + 1), 128, Table(Page(r + 2)))
        BY Zenon
      <3>5. ~ s2.fault /\ s2.mem = w2 /\ s2.free = From(n, r + 2) /\ s2.pt = Page(r + 2)
        <4>1. s1.free # <<>> /\ Head(s1.free) = Page(r + 2) /\ Tail(s1.free) = From(n, r + 2)
          BY <2>5, <3>2, Zenon
        <4>2. /\ ~ s2.fault /\ s2.free = Tail(s1.free) /\ s2.pt = Head(s1.free)
              /\ s2.mem = Put(memset(s1.mem, Head(s1.free)), s1.pt, PX(1, va),
                              Table(virt_to_phys(Head(s1.free))))
          BY <1>4, <2>5, <2>7, <4>1, Allocates, Zenon
        <4> QED
          BY <1>6, <2>5, <3>3, <3>4, <4>1, <4>2, Zenon
      <3>6. /\ w2 \in Memory(P) /\ w2[Page(r + 2)] = Zeros
            /\ w2[Page(r + 1)] = MidRow(r)
            /\ Same(P, {Page(r + 1), Page(r + 2)}, w1, w2)
        <4>1. Table(Page(r + 2)) \in Entries /\ 128 \in Index
          BY <3>3, Kinds, Numbers, Zenon
        <4>2. /\ w2 \in Memory(P) /\ w2[Page(r + 2)] = Zeros
              /\ w2[Page(r + 1)] = With(w1[Page(r + 1)], 128, Table(Page(r + 2)))
              /\ Same(P, {Page(r + 1), Page(r + 2)}, w1, w2)
          <5>1. Linked(P, w1, Page(r + 1), Page(r + 2), 128, Table(Page(r + 2)), w2)
            BY <2>3, <2>6, <3>3, <3>4, <4>1, NewTable, Zenon
          <5> QED
            BY <5>1, Zenon DEF Linked
        <4> QED
          BY <1>6, <2>6, <4>2, RowWrites, Zenon
      <3>7. PICK w3 : w3 = Put(w2, Page(r + 2), 0, Leaf(UART0))
        BY Zenon
      <3>8. /\ w3 \in Memory(P) /\ w3[Page(r + 2)] = LastRow(0)
            /\ Same(P, {Page(r + 2)}, w2, w3)
        <4>1. Leaf(UART0) \in Entries /\ 0 \in Index
          BY Kinds, Numbers DEF UART0, Addresses
        <4>2. /\ w3 \in Memory(P) /\ w3[Page(r + 2)] = With(w2[Page(r + 2)], 0, Leaf(UART0))
              /\ Same(P, {Page(r + 2)}, w2, w3)
          BY <3>3, <3>6, <3>7, <4>1, Writes
        <4> QED
          BY <3>6, <4>2, RowWrites, Zenon DEF UART0
      <3>9. s.mem = w3 /\ s.free = From(n, r + 2) /\ ~ s.fault
        <4>1. s = WalkAt(w3, From(n, r + 2), Page(r + 2), FALSE)
          BY <1>5, <3>5, <3>7, Zenon
        <4> QED
          BY <4>1 DEF WalkAt
      <3>10. Maps(w3, r, 0)
        <4>1. w3[Page(r)] = w1[Page(r)] /\ w3[Page(r + 1)] = w2[Page(r + 1)]
          BY <1>6, <2>3, <3>3, <3>6, <3>8, Zenon DEF Same
        <4> QED
          BY <2>6, <3>6, <3>8, <4>1, Zenon DEF Maps
      <3>11. Same(P, {Page(r), Page(r + 1), Page(r + 2)}, m, w3)
        BY <2>6, <3>6, <3>8, Zenon DEF Same
      <3>12. r + 2 <= n
        BY <3>1
      <3> QED
        BY <3>8, <3>9, <3>10, <3>11, <3>12, Zenon
    <2>10. r + 1 = n \/ r + 1 < n
      BY <1>9
    <2> QED
      BY <2>8, <2>9, <2>10, Zenon
  <1>10. r = n \/ r < n
    OBVIOUS
  <1> QED
    BY <1>8, <1>9, <1>10, Zenon

\* The later calls, for the slots, follow the tables there are.
MapsMore(n, r, d, m, f, s) ==
  /\ s.mem \in Memory(PagesTo(n)) /\ Same(PagesTo(n), {Page(r + 2)}, m, s.mem)
  /\ ~ s.fault /\ s.free = f /\ Maps(s.mem, r, d + 1)

\* Every further one takes none and only adds a leaf to the last table.
LEMMA MapMore ==
  ASSUME NEW n \in Nat, NEW r \in Nat, r + 2 <= n, NEW m \in Memory(PagesTo(n)), NEW f,
         NEW d \in 0 .. VIRTIO_SLOTS, d < VIRTIO_SLOTS, Maps(m, r, d)
  PROVE  MapsMore(n, r, d, m, f, map_page(m, f, Page(r), <<0, 128, d + 1>>, <<0, 128, d + 1>>))
  <1> SUFFICES ASSUME NEW P, P = {Page(k) : k \in 0 .. n}, m \in Memory(P),
                      NEW s, s = map_page(m, f, Page(r), <<0, 128, d + 1>>, <<0, 128, d + 1>>)
               PROVE  /\ s.mem \in Memory(P) /\ Same(P, {Page(r + 2)}, m, s.mem)
                      /\ ~ s.fault /\ s.free = f /\ Maps(s.mem, r, d + 1)
    BY Zenon DEF MapsMore, PagesTo
  <1>0. PICK va : va = <<0, 128, d + 1>>
    BY Zenon
  <1>1. PICK s0 : s0 = WalkAt(m, f, Page(r), FALSE)
    BY Zenon
  <1>2. PICK s1 : s1 = NextTable(s0, 2, va)
    BY Zenon
  <1>3. PICK s2 : s2 = NextTable(s1, 1, va)
    BY Zenon
  <1>4. PX(2, va) = 0 /\ PX(1, va) = 128 /\ PX(0, va) = d + 1
    BY <1>0, Levels, Zenon
  <1>5. ~ s2.fault => s = WalkAt(Put(s2.mem, s2.pt, d + 1, Leaf(va)), s2.free, s2.pt, FALSE)
    <2>1. s2 = Down(m, f, Page(r), va)
      BY <1>1, <1>2, <1>3, Zenon DEF Down
    <2>2. ~ s2.fault => s = WalkAt(Put(s2.mem, s2.pt, PX(0, va), Leaf(va)), s2.free, s2.pt, FALSE)
      <3>1. s = map_page(m, f, Page(r), va, va)
        BY <1>0, Zenon
      <3> QED
        BY <2>1, <3>1, MapPage, Zenon
    <2> QED
      BY <1>4, <2>2, Zenon
  <1>6. /\ Page(r) \in P /\ Page(r + 1) \in P /\ Page(r + 2) \in P
        /\ Page(r) # Page(r + 2) /\ Page(r + 1) # Page(r + 2)
        /\ Page(r + 1) \in Addresses /\ Page(r + 2) \in Addresses
    <2>1. /\ r \in 0 .. n /\ r + 1 \in 0 .. n /\ r + 2 \in 0 .. n /\ r + 1 \in Nat /\ r + 2 \in Nat
          /\ r # r + 2 /\ r + 1 # r + 2
      OBVIOUS
    <2>2. Page(r) # Page(r + 2) /\ Page(r + 1) # Page(r + 2)
      BY <2>1, PageFacts, Zenon
    <2> QED
      BY <2>1, <2>2, PageFacts, Zenon
  <1>7. DOMAIN m = P
    BY Zenon DEF Memory
  <1>8. ~ s1.fault /\ s1.mem = m /\ s1.free = f /\ s1.pt = Page(r + 1)
    <2>1. ~ s0.fault /\ s0.mem = m /\ s0.free = f /\ s0.pt = Page(r)
      BY <1>1, Zenon DEF WalkAt
    <2>2. m[Page(r)][0] = Table(Page(r + 1))
      BY RowReads, Zenon DEF Maps
    <2>3. s0.mem[s0.pt][PX(2, va)] = Table(Page(r + 1))
      BY <1>4, <2>1, <2>2, Zenon
    <2>4. s0.mem[s0.pt][PX(2, va)].v /\ s0.mem[s0.pt][PX(2, va)].pa = Page(r + 1)
      BY <1>6, <2>3, Kinds, Zenon
    <2>5. s0.mem[s0.pt][PX(2, va)].pa \in DOMAIN s0.mem
      BY <1>6, <1>7, <2>1, <2>4, Zenon
    <2>6. /\ ~ s1.fault /\ s1.mem = s0.mem /\ s1.free = s0.free
          /\ s1.pt = s0.mem[s0.pt][PX(2, va)].pa
      BY <1>2, <2>1, <2>4, <2>5, Follows
    <2> QED
      BY <2>1, <2>4, <2>6, Zenon
  <1>9. ~ s2.fault /\ s2.mem = m /\ s2.free = f /\ s2.pt = Page(r + 2)
    <2>1. m[Page(r + 1)][128] = Table(Page(r + 2))
      BY RowReads, Zenon DEF Maps
    <2>2. s1.mem[s1.pt][PX(1, va)] = Table(Page(r + 2))
      BY <1>4, <1>8, <2>1, Zenon
    <2>3. s1.mem[s1.pt][PX(1, va)].v /\ s1.mem[s1.pt][PX(1, va)].pa = Page(r + 2)
      BY <1>6, <2>2, Kinds, Zenon
    <2>4. s1.mem[s1.pt][PX(1, va)].pa \in DOMAIN s1.mem
      BY <1>6, <1>7, <1>8, <2>3, Zenon
    <2>5. /\ ~ s2.fault /\ s2.mem = s1.mem /\ s2.free = s1.free
          /\ s2.pt = s1.mem[s1.pt][PX(1, va)].pa
      BY <1>3, <1>8, <2>3, <2>4, Follows
    <2> QED
      BY <1>8, <2>3, <2>5, Zenon
  <1>10. PICK w : w = Put(m, Page(r + 2), d + 1, Leaf(va))
    BY Zenon
  <1>11. s.mem = w /\ s.free = f /\ ~ s.fault
    <2>1. s = WalkAt(w, f, Page(r + 2), FALSE)
      BY <1>5, <1>9, <1>10, Zenon
    <2> QED
      BY <2>1 DEF WalkAt
  <1>12. /\ w \in Memory(P) /\ Same(P, {Page(r + 2)}, m, w)
         /\ w[Page(r + 2)] = With(m[Page(r + 2)], d + 1, Leaf(va))
    <2>1. d + 1 \in Index /\ va \in Addresses
      BY <1>0, Numbers DEF Addresses
    <2>2. Leaf(va) \in Entries
      BY <2>1, Kinds, Zenon
    <2> QED
      BY <1>6, <1>10, <2>1, <2>2, Writes
  <1>13. Maps(w, r, d + 1)
    <2>1. d \in 0 .. (VIRTIO_SLOTS - 1)
      BY Numbers
    <2>2. w[Page(r + 2)] = LastRow(d + 1)
      BY <1>0, <1>12, <2>1, RowWrites, Zenon DEF Maps
    <2>3. w[Page(r)] = m[Page(r)] /\ w[Page(r + 1)] = m[Page(r + 1)]
      BY <1>6, <1>12, Zenon DEF Same
    <2> QED
      BY <2>2, <2>3, Zenon DEF Maps
  <1> QED
    BY <1>11, <1>12, <1>13, Zenon

-----------------------------------------------------------------------------
(***************************************************************************)
(* The invariant                                                           *)
(***************************************************************************)
\* The image of a heap of n pages, and how many there are.
LEMMA HeapSize ==
  ASSUME NEW n \in Nat
  PROVE  /\ HeapPages(n) = From(n, 0)
         /\ Range(HeapPages(n)) = {Page(k) : k \in 1 .. n}
         /\ Cardinality({Page(k) : k \in 1 .. n}) = n
  <1>1. n - 0 = n /\ 0 \in 0 .. n /\ 0 + 1 = 1 /\ \A k \in 1 .. n : 0 + k = k
    OBVIOUS
  <1>2. HeapPages(n) = From(n, 0)
    BY <1>1, Zenon DEF HeapPages, From, Page
  <1>3. Range(HeapPages(n)) = {Page(k) : k \in 1 .. n}
    <2>1. Range(From(n, 0)) = {Page(k) : k \in (0 + 1) .. n}
      BY <1>1, FreeLists, Zenon
    <2> QED
      BY <1>1, <1>2, <2>1, Zenon
  <1>4. Cardinality({Page(k) : k \in 1 .. n}) = n
    <2> DEFINE f == [k \in 1 .. n |-> Page(k)]
               T == {Page(k) : k \in 1 .. n}
    <2>1. \A j, k \in 1 .. n : Page(j) = Page(k) => j = k
      BY PageFacts
    <2>2. f \in Bijection(1 .. n, T)
      BY <2>1, Zenon DEF Bijection, Injection, Surjection, IsInjective
    <2>3. ExistsBijection(1 .. n, T)
      BY <2>2, Zenon DEF ExistsBijection
    <2>4. IsFiniteSet(1 .. n) /\ Cardinality(1 .. n) = n
      BY FS_Interval
    <2> QED
      BY <2>3, <2>4, FS_Bijection, Zenon
  <1> QED
    BY <1>2, <1>3, <1>4, Zenon

\* The pages are boot_page_table and those of the heap.
LEMMA PagesAre ==
  ASSUME HeapShape
  PROVE  Size \in Nat /\ Pages = PagesTo(Size)
  <1>1. Size \in Nat /\ heap = {Page(k) : k \in 1 .. Size}
    BY Zenon DEF HeapShape
  <1>2. \A k : k \in 0 .. Size <=> k = 0 \/ k \in 1 .. Size
    BY <1>1
  <1>3. boot_page_table = Page(0)
    BY PageFacts, Zenon
  <1>4. Pages = {Page(k) : k \in 1 .. Size} \cup {Page(0)}
    BY <1>1, <1>3, Zenon DEF Pages
  <1>5. \A x : x \in {Page(k) : k \in 0 .. Size} <=> x = Page(0) \/ x \in {Page(k) : k \in 1 .. Size}
    BY <1>2, Zenon
  <1> QED
    BY <1>1, <1>4, <1>5, Zenon DEF PagesTo

\* The pages of the heap, and boot_page_table, are all in the model's memory.
LEMMA PageIn ==
  ASSUME HeapShape, NEW k \in 0 .. Size
  PROVE  Page(k) \in Pages
  BY PagesAre, Zenon DEF PagesTo

\* The invariant holds at _start.
LEMMA PInit == Init => PInv
  <1> SUFFICES ASSUME Init PROVE PInv
    OBVIOUS
  <1>1. PICK n \in HeapSizes : heap = Range(HeapPages(n))
    BY Zenon DEF Init
  <1>2. n \in Nat
    BY BootAssumption, Zenon
  <1>3. Size = n /\ heap = {Page(k) : k \in 1 .. n}
    BY <1>1, <1>2, HeapSize, Zenon DEF Size
  <1>4. mem \in Memory(Pages)
    BY RowWrites, Zenon DEF Init, Memory, Pages
  <1>5. HeapShape
    BY <1>2, <1>3, <1>4, Zenon DEF HeapShape
  <1>6. mode = "M" /\ pc = "_start"
    BY Zenon DEF Init
  <1>7. InM /\ InS
    BY <1>6, Zenon DEF InM, InS
  <1> QED
    BY <1>5, <1>6, <1>7, Zenon DEF PInv

\* Steps that leave the memory alone.
LEMMA HeapStays ==
  ASSUME heap' = heap
  PROVE  Size' = Size /\ Pages' = Pages
  BY Zenon DEF Size, Pages

\* No step moves the heap, so its shape stays.
LEMMA ShapeStays ==
  ASSUME HeapShape, heap' = heap, mem' \in Memory(Pages)
  PROVE  HeapShape'
  BY HeapStays, Zenon DEF HeapShape

\* Tables whose rows stay are still built,
LEMMA BuiltStays ==
  ASSUME heap' = heap, NEW r, NEW d, Built(r, d), Maps(mem', r, d)
  PROVE  Built(r, d)'
  BY HeapStays, Zenon DEF Built, Maps

\* and a free list nobody takes from is the same rest of the heap.
LEMMA FreeStays ==
  ASSUME heap' = heap, NEW j, FreeFrom(j), free' = free
  PROVE  FreeFrom(j)'
  BY HeapStays, Zenon DEF FreeFrom

\* What a memory that differs only behind them leaves of the first tables.
LEMMA MapsStays ==
  ASSUME HeapShape, NEW w, NEW S, Same(Pages, S, mem, w), NEW r \in Nat, NEW d, Built(r, d),
         Page(r) \notin S, Page(r + 1) \notin S, Page(r + 2) \notin S
  PROVE  Maps(w, r, d)
  <1>1. Size \in Nat /\ r + 2 <= Size /\ Maps(mem, r, d)
    BY PagesAre, Zenon DEF Built
  <1>2. r \in 0 .. Size /\ r + 1 \in 0 .. Size /\ r + 2 \in 0 .. Size
    BY <1>1
  <1>3. Page(r) \in Pages /\ Page(r + 1) \in Pages /\ Page(r + 2) \in Pages
    BY <1>2, PageIn, Zenon
  <1>4. w[Page(r)] = mem[Page(r)] /\ w[Page(r + 1)] = mem[Page(r + 1)] /\ w[Page(r + 2)] = mem[Page(r + 2)]
    BY <1>3, Zenon DEF Same
  <1> QED
    BY <1>1, <1>4, Zenon DEF Maps

\* One map_page of the table in page r.
LEMMA MapStep ==
  ASSUME HeapShape, NEW r \in Nat, Building(r), MapNext
  PROVE  /\ HeapShape' /\ Same(Pages, {Page(r), Page(r + 1), Page(r + 2)}, mem, mem')
         /\ \/ pc' = "map" /\ Building(r)'
            \/ pc' = "fault" /\ Size < r + 2 /\ \E j \in r .. Size : FreeFrom(j)'
  <1>1. Size \in Nat /\ Pages = PagesTo(Size) /\ mem \in Memory(Pages)
    BY PagesAre, Zenon DEF HeapShape
  <1>2. PICK s : s = map_page(mem, free, root, Head(todo), Head(todo))
    BY Zenon
  <1>3. /\ mem' = s.mem /\ free' = s.free /\ todo' = Tail(todo) /\ todo # <<>>
        /\ s.fault => pc' = "fault"
        /\ ~ s.fault => pc' = "map"
        /\ heap' = heap /\ root' = root
    BY <1>2, Zenon DEF MapNext
  <1>4. root = Page(r) /\ Size' = Size
    BY <1>3, HeapStays, Zenon DEF Building
  <1>5. CASE todo = Mmio /\ FreeFrom(r) /\ mem[Page(r)] = RootRow(Invalid)
    <2>1. Head(todo) = UART0 /\ Tail(todo) = Rest(0)
      BY <1>5, MmioLists, Zenon
    <2>2. r \in 0 .. Size /\ free = From(Size, r)
      <3>1. r <= Size /\ free = From(Size, r)
        BY <1>5, Zenon DEF FreeFrom
      <3> QED
        BY <1>1, <3>1
    <2>3. s = map_page(mem, From(Size, r), Page(r), UART0, UART0)
      BY <1>2, <1>4, <2>1, <2>2, Zenon
    <2>4. /\ s.mem \in Memory(Pages) /\ Same(Pages, {Page(r), Page(r + 1), Page(r + 2)}, mem, s.mem)
          /\ \/ s.fault /\ Size < r + 2 /\ \E j \in r .. Size : s.free = From(Size, j)
             \/ ~ s.fault /\ r + 2 <= Size /\ s.free = From(Size, r + 2) /\ Maps(s.mem, r, 0)
      <3>1. MapsFirst(Size, r, mem, s)
        BY <1>1, <1>5, <2>2, <2>3, MapFirst, Zenon
      <3> QED
        BY <1>1, <3>1, Zenon DEF MapsFirst
    <2>5. HeapShape'
      BY <1>3, <2>4, ShapeStays, Zenon
    <2>6. CASE s.fault
      <3>1. Size < r + 2 /\ \E j \in r .. Size : free' = From(Size, j)
        BY <1>3, <2>4, <2>6, Zenon
      <3>2. PICK j \in r .. Size : free' = From(Size, j)
        BY <3>1, Zenon
      <3>3. j <= Size
        BY <1>1, <3>2
      <3>4. FreeFrom(j)'
        BY <1>4, <3>2, <3>3, Zenon DEF FreeFrom
      <3> QED
        BY <1>3, <2>4, <2>5, <2>6, <3>1, <3>4, Zenon
    <2>7. CASE ~ s.fault
      <3>1. r + 2 <= Size /\ free' = From(Size, r + 2) /\ Maps(mem', r, 0)
        BY <1>3, <2>4, <2>7, Zenon
      <3>2. FreeFrom(r + 2)' /\ Built(r, 0)'
        BY <1>4, <3>1, Zenon DEF FreeFrom, Built, Maps
      <3>3. 0 \in 0 .. VIRTIO_SLOTS
        BY Numbers
      <3>4. Building(r)'
        BY <1>3, <1>4, <2>1, <3>2, <3>3, Zenon DEF Building
      <3> QED
        BY <1>3, <2>4, <2>5, <2>7, <3>4, Zenon
    <2> QED
      BY <2>6, <2>7, Zenon
  <1>6. ASSUME NEW d \in 0 .. VIRTIO_SLOTS, todo = Rest(d), FreeFrom(r + 2), Built(r, d)
        PROVE  /\ HeapShape' /\ Same(Pages, {Page(r), Page(r + 1), Page(r + 2)}, mem, mem')
               /\ pc' = "map" /\ Building(r)'
    <2>1. d < VIRTIO_SLOTS
      <3>1. d # VIRTIO_SLOTS
        BY <1>3, <1>6, MmioLists, Zenon
      <3> QED
        BY <3>1, Numbers
    <2>2. Head(todo) = <<0, 128, d + 1>> /\ Tail(todo) = Rest(d + 1)
      BY <1>6, <2>1, MmioLists, Zenon
    <2>3. s = map_page(mem, free, Page(r), <<0, 128, d + 1>>, <<0, 128, d + 1>>)
      BY <1>2, <1>4, <2>2, Zenon
    <2>4. r + 2 <= Size /\ Maps(mem, r, d)
      BY <1>6, Zenon DEF Built
    <2>5. /\ s.mem \in Memory(Pages) /\ Same(Pages, {Page(r + 2)}, mem, s.mem)
          /\ ~ s.fault /\ s.free = free /\ Maps(s.mem, r, d + 1)
      <3>1. MapsMore(Size, r, d, mem, free, s)
        BY <1>1, <2>1, <2>3, <2>4, MapMore, Zenon
      <3> QED
        BY <1>1, <3>1, Zenon DEF MapsMore
    <2>6. HeapShape'
      BY <1>3, <2>5, ShapeStays, Zenon
    <2>7. Same(Pages, {Page(r), Page(r + 1), Page(r + 2)}, mem, mem')
      BY <1>3, <2>5, Zenon DEF Same
    <2>8. FreeFrom(r + 2)'
      BY <1>3, <1>6, <2>5, FreeStays, Zenon
    <2>9. Maps(mem', r, d + 1)
      BY <1>3, <2>5, Zenon
    <2>10. Built(r, d + 1)'
      BY <1>4, <2>4, <2>9, Zenon DEF Built, Maps
    <2>11. d + 1 \in 0 .. VIRTIO_SLOTS
      BY <2>1, Numbers
    <2>12. Building(r)'
      BY <1>3, <1>4, <2>2, <2>8, <2>10, <2>11, Zenon DEF Building
    <2> QED
      BY <1>3, <2>5, <2>6, <2>7, <2>12, Zenon
  <1> QED
    BY <1>5, <1>6, Zenon DEF Building

\* Which steps are taken in which mode, and on which table.
LEMMA Labels ==
  /\ {"_start", "relocate_kernel", "m_setup", "mret"} \cap (Before \cup After) = {}
  /\ {"_start", "relocate_kernel", "map", "m_setup", "mret", "fault"} \cap After = {}
  /\ "mem_init" \notin {"_start", "relocate_kernel", "map", "m_setup", "mret", "fault"}
  /\ Before \cap After = {}
  BY DEF Before, After

\* What the invariant says at each of the labels.
LEMMA Where ==
  ASSUME PInv
  PROVE  /\ HeapShape
         /\ pc \in {"_start", "relocate_kernel", "m_setup", "mret"} => mode = "M"
         /\ pc = "mem_init" => mode = "S" /\ OnFirst
         /\ pc = "map" => \/ mode = "M" /\ Building(0)
                          \/ mode = "S" /\ OnFirst
         /\ pc \in After => mode = "S" /\ OnSecond
  <1>1. mode = "M" \/ mode = "S"
    BY Zenon DEF PInv
  <1>2. mode = "M" => /\ pc \in {"_start", "relocate_kernel", "map", "m_setup", "mret", "fault"}
                      /\ pc = "map" => Building(0)
    BY Zenon DEF PInv, InM
  <1>3. mode = "S" => (pc \in Before /\ OnFirst) \/ (pc \in After /\ OnSecond)
    BY Zenon DEF PInv, InS
  <1>4. HeapShape
    BY Zenon DEF PInv
  <1>5. "mem_init" \in Before /\ "map" \in Before
    BY DEF Before
  <1>6. pc \in {"_start", "relocate_kernel", "m_setup", "mret"} => mode = "M"
    BY <1>1, <1>3, Labels, Zenon
  <1>7. pc = "mem_init" => mode = "S" /\ OnFirst
    BY <1>1, <1>2, <1>3, <1>5, Labels, Zenon
  <1>8. pc = "map" => (mode = "M" /\ Building(0)) \/ (mode = "S" /\ OnFirst)
    BY <1>1, <1>2, <1>3, <1>5, Labels, Zenon
  <1>9. pc \in After => mode = "S" /\ OnSecond
    BY <1>1, <1>2, <1>3, Labels, Zenon
  <1> QED
    BY <1>4, <1>6, <1>7, <1>8, <1>9, Zenon

\* To show the invariant in one mode.
LEMMA StillM ==
  ASSUME mode' = "M", HeapShape', InM'
  PROVE  PInv'
  <1>1. "M" # "S"
    OBVIOUS
  <1> QED
    BY <1>1, Zenon DEF PInv, InS

\* To show the invariant after a step in S-mode only its S-mode half is needed.
LEMMA StillS ==
  ASSUME mode' = "S", HeapShape', InS'
  PROVE  PInv'
  <1>1. "M" # "S"
    OBVIOUS
  <1> QED
    BY <1>1, Zenon DEF PInv, InM

\* _start clears boot_page_table.
LEMMA PClearBss == PInv /\ ClearBss => PInv'
  <1> SUFFICES ASSUME PInv, ClearBss PROVE PInv'
    OBVIOUS
  <1>1. /\ pc = "_start" /\ mem' = memset(mem, Page(0)) /\ pc' = "relocate_kernel"
        /\ mode' = mode /\ heap' = heap
    BY PageFacts, Zenon DEF ClearBss
  <1>2. mode' = "M" /\ HeapShape
    BY <1>1, Where, Zenon
  <1>3. mem \in Memory(Pages) /\ Page(0) \in Pages
    BY <1>2, PageFacts, Zenon DEF HeapShape, Pages
  <1>4. mem' \in Memory(Pages) /\ mem'[Page(0)] = Zeros
    BY <1>1, <1>3, Clears, Zenon
  <1>5. HeapShape'
    BY <1>1, <1>2, <1>4, ShapeStays, Zenon
  <1>6. InM'
    BY <1>1, <1>4, Zenon DEF InM
  <1> QED
    BY <1>2, <1>5, <1>6, StillM, Zenon

\* relocate_kernel links the heap and writes the two gigapages.
LEMMA Prelocate_kernel == PInv /\ relocate_kernel => PInv'
  <1> SUFFICES ASSUME PInv, relocate_kernel PROVE PInv'
    OBVIOUS
  <1>1. /\ pc = "relocate_kernel" /\ free' = HeapPages(Size)
        /\ mem' = [mem EXCEPT ![Page(0)] = Gigapages(mem[Page(0)])]
        /\ root' = Page(0) /\ todo' = Mmio /\ pc' = "map" /\ mode' = mode /\ heap' = heap
    BY PageFacts, Zenon DEF relocate_kernel, page_allocator_init, Size
  <1>2. mode' = "M" /\ HeapShape /\ mem[Page(0)] = Zeros
    BY <1>1, Where, Zenon DEF PInv, InM
  <1>3. mem \in Memory(Pages) /\ Page(0) \in Pages /\ Size \in Nat /\ Size' = Size
    BY <1>1, <1>2, PageFacts, HeapStays, Zenon DEF HeapShape, Pages
  <1>4. RootRow(Invalid) \in Rows
    BY RowWrites, Kinds, Zenon
  <1>5. mem' = [mem EXCEPT ![Page(0)] = RootRow(Invalid)]
    BY <1>1, <1>2, RowWrites, Zenon
  <1>6. mem' \in Memory(Pages) /\ mem'[Page(0)] = RootRow(Invalid)
    BY <1>3, <1>4, <1>5, Zenon DEF Memory
  <1>7. HeapShape'
    BY <1>1, <1>2, <1>6, ShapeStays, Zenon
  <1>8. FreeFrom(0)'
    <2>1. 0 <= Size
      BY <1>3
    <2> QED
      BY <1>1, <1>3, <2>1, HeapSize, Zenon DEF FreeFrom
  <1>9. Building(0)'
    BY <1>1, <1>6, <1>8, Zenon DEF Building
  <1>10. InM'
    BY <1>1, <1>9, Zenon DEF InM
  <1> QED
    BY <1>2, <1>7, <1>10, StillM, Zenon

\* One call of map_page, for either of the two tables.
LEMMA PMapNext == PInv /\ MapNext => PInv'
  <1> SUFFICES ASSUME PInv, MapNext PROVE PInv'
    OBVIOUS
  <1>1. pc = "map" /\ mode' = mode /\ heap' = heap /\ satp' = satp
    BY Zenon DEF MapNext
  <1>2. HeapShape /\ Size' = Size /\ Size \in Nat
    BY <1>1, Where, HeapStays, PagesAre, Zenon
  <1>3. CASE mode = "M" /\ Building(0)
    <2>1. /\ HeapShape'
          /\ \/ pc' = "map" /\ Building(0)'
             \/ pc' = "fault" /\ Size < 0 + 2
      <3>1. 0 \in Nat
        OBVIOUS
      <3> QED
        BY <1>2, <1>3, <3>1, MapStep, Zenon
    <2>2. Size < 0 + 2 => Size < 2
      BY <1>2
    <2>3. InM'
      BY <1>2, <2>1, <2>2, Zenon DEF InM
    <2> QED
      BY <1>1, <1>3, <2>1, <2>3, StillM, Zenon
  <1>4. CASE mode = "S" /\ OnFirst
    <2>1. 3 <= Size /\ Building(3) /\ satp = Page(0) /\ Built(0, VIRTIO_SLOTS)
      BY <1>1, <1>4, Zenon DEF OnFirst
    <2>2. /\ HeapShape' /\ Same(Pages, {Page(3), Page(3 + 1), Page(3 + 2)}, mem, mem')
          /\ \/ pc' = "map" /\ Building(3)'
             \/ pc' = "fault" /\ Size < 3 + 2 /\ \E j \in 3 .. Size : FreeFrom(j)'
      <3>1. 3 \in Nat
        OBVIOUS
      <3> QED
        BY <1>2, <2>1, <3>1, MapStep, Zenon
    <2>3. Maps(mem', 0, VIRTIO_SLOTS)
      <3>1. \A k \in {0, 0 + 1, 0 + 2} : Page(k) \notin {Page(3), Page(3 + 1), Page(3 + 2)}
        BY PageFacts
      <3>2. 0 \in Nat
        OBVIOUS
      <3> QED
        BY <1>2, <2>1, <2>2, <3>1, <3>2, MapsStays, Zenon
    <2>4. Built(0, VIRTIO_SLOTS)'
      BY <1>1, <2>1, <2>3, BuiltStays, Zenon
    <2>5. Size < 3 + 2 => Size < 5
      BY <1>2
    <2>6. OnFirst'
      BY <1>1, <1>2, <2>1, <2>2, <2>4, <2>5, Zenon DEF OnFirst
    <2>7. pc' \in Before
      BY <2>2, Zenon DEF Before
    <2>8. InS'
      BY <2>6, <2>7, Zenon DEF InS
    <2> QED
      BY <1>1, <1>4, <2>2, <2>8, StillS, Zenon
  <1> QED
    BY <1>1, <1>3, <1>4, Where, Zenon

\* When nothing is left to be mapped the table is complete.
LEMMA Complete ==
  ASSUME NEW r \in Nat, Building(r), todo = <<>>
  PROVE  Built(r, VIRTIO_SLOTS) /\ FreeFrom(r + 2) /\ virt_to_phys(root) = Page(r)
  <1>1. root = Page(r) /\ todo # Mmio
    BY MmioLists, Zenon DEF Building
  <1>2. PICK d \in 0 .. VIRTIO_SLOTS : todo = Rest(d) /\ FreeFrom(r + 2) /\ Built(r, d)
    BY <1>1, Zenon DEF Building
  <1>3. d = VIRTIO_SLOTS
    BY <1>2, MmioLists, Zenon
  <1> QED
    BY <1>1, <1>2, <1>3, PageFacts, Zenon

\* satp gets a table only when all of its calls are done.
LEMMA PWriteSatp == PInv /\ WriteSatp => PInv'
  <1> SUFFICES ASSUME PInv, WriteSatp PROVE PInv'
    OBVIOUS
  <1>1. /\ pc = "map" /\ todo = <<>> /\ satp' = virt_to_phys(root)
        /\ mode = "M" => pc' = "m_setup"
        /\ mode # "M" => pc' = "uart_init"
        /\ mode' = mode /\ mem' = mem /\ heap' = heap /\ free' = free
    BY Zenon DEF WriteSatp
  <1>2. HeapShape /\ HeapShape' /\ Size' = Size /\ Size \in Nat
    BY <1>1, Where, HeapStays, PagesAre, ShapeStays, Zenon DEF HeapShape
  <1>3. CASE mode = "M" /\ Building(0)
    <2>1. 0 \in Nat /\ 0 + 2 = 2
      OBVIOUS
    <2>2. Built(0, VIRTIO_SLOTS) /\ FreeFrom(2) /\ satp' = Page(0) /\ pc' = "m_setup"
      BY <1>1, <1>3, <2>1, Complete, Zenon
    <2>3. Built(0, VIRTIO_SLOTS)' /\ FreeFrom(2)'
      BY <1>1, <1>2, <2>2, Zenon DEF Built, FreeFrom, Maps
    <2>4. InM'
      BY <2>2, <2>3, Zenon DEF InM
    <2> QED
      BY <1>1, <1>2, <1>3, <2>4, StillM, Zenon
  <1>4. CASE mode = "S" /\ OnFirst
    <2>1. 3 \in Nat /\ 3 + 2 = 5 /\ "S" # "M"
      OBVIOUS
    <2>2. Building(3)
      BY <1>1, <1>4, Zenon DEF OnFirst
    <2>3. Built(3, VIRTIO_SLOTS) /\ FreeFrom(5) /\ satp' = Page(3) /\ pc' = "uart_init"
      BY <1>1, <1>4, <2>1, <2>2, Complete, Zenon
    <2>4. Built(3, VIRTIO_SLOTS)' /\ FreeFrom(5)'
      BY <1>1, <1>2, <2>3, Zenon DEF Built, FreeFrom, Maps
    <2>5. 5 \in 5 .. Size'
      BY <1>2, <2>3 DEF FreeFrom
    <2>6. InS'
      BY <2>3, <2>4, <2>5, Zenon DEF InS, OnSecond, After
    <2> QED
      BY <1>1, <1>2, <1>4, <2>6, StillS, Zenon
  <1> QED
    BY <1>1, <1>3, <1>4, Where, Zenon

\* Where only labels, CSRs and the mode change, the tables stay.
LEMMA TablesStay ==
  ASSUME PInv, UNCHANGED paging
  PROVE  /\ HeapShape' /\ Size' = Size /\ satp' = satp
         /\ \A r, d : Built(r, d) => Built(r, d)'
         /\ \A j : FreeFrom(j) => FreeFrom(j)'
  <1>1. mem' = mem /\ heap' = heap /\ free' = free /\ satp' = satp
    BY Zenon DEF paging
  <1>2. HeapShape /\ HeapShape' /\ Size' = Size
    BY <1>1, Where, HeapStays, ShapeStays, Zenon DEF HeapShape
  <1> QED
    BY <1>1, <1>2, Zenon DEF Built, FreeFrom, Maps

\* The set-up of M-mode leaves the tables alone.
LEMMA PMachineSetup == PInv /\ MachineSetup => PInv'
  <1> SUFFICES ASSUME PInv, MachineSetup PROVE PInv'
    OBVIOUS
  <1>1. pc = "m_setup" /\ pc' = "mret" /\ mode' = mode /\ UNCHANGED paging
    BY Zenon DEF MachineSetup
  <1>2. mode' = "M" /\ satp = Page(0) /\ Built(0, VIRTIO_SLOTS) /\ FreeFrom(2)
    BY <1>1, Where, Zenon DEF PInv, InM
  <1>3. HeapShape' /\ satp' = Page(0) /\ Built(0, VIRTIO_SLOTS)' /\ FreeFrom(2)'
    BY <1>1, <1>2, TablesStay, Zenon
  <1>4. InM'
    BY <1>1, <1>3, Zenon DEF InM
  <1> QED
    BY <1>2, <1>3, <1>4, StillM, Zenon

\* mret enters S-mode on the first table.
LEMMA PMret == PInv /\ Mret => PInv'
  <1> SUFFICES ASSUME PInv, Mret PROVE PInv'
    OBVIOUS
  <1>1. pc = "mret" /\ pc' = "mem_init" /\ mode' = "S" /\ UNCHANGED paging
    BY Zenon DEF Mret
  <1>2. satp = Page(0) /\ Built(0, VIRTIO_SLOTS) /\ FreeFrom(2)
    BY <1>1, Where, Zenon DEF PInv, InM
  <1>3. HeapShape' /\ satp' = Page(0) /\ Built(0, VIRTIO_SLOTS)' /\ FreeFrom(2)'
    BY <1>1, <1>2, TablesStay, Zenon
  <1>4. InS'
    BY <1>1, <1>3, Zenon DEF InS, OnFirst, Before
  <1> QED
    BY <1>1, <1>3, <1>4, StillS, Zenon

\* mem_init takes the page of the second root, or hangs without one.
LEMMA Pmem_init == PInv /\ mem_init => PInv'
  <1> SUFFICES ASSUME PInv, mem_init PROVE PInv'
    OBVIOUS
  <1>1. pc = "mem_init" /\ mode' = mode /\ heap' = heap /\ satp' = satp
    BY Zenon DEF mem_init
  <1>2. mode' = "S" /\ HeapShape /\ satp = Page(0) /\ Built(0, VIRTIO_SLOTS) /\ FreeFrom(2)
    BY <1>1, Where, Zenon DEF OnFirst
  <1>3. /\ Size \in Nat /\ Size' = Size /\ 2 \in 0 .. Size /\ free = From(Size, 2)
        /\ mem \in Memory(Pages)
    <2>1. Size \in Nat /\ Size' = Size /\ mem \in Memory(Pages) /\ 2 <= Size /\ free = From(Size, 2)
      BY <1>1, <1>2, HeapStays, Zenon DEF FreeFrom, HeapShape
    <2> QED
      BY <2>1
  <1>4. CASE free = <<>>
    <2>1. pc' = "hang" /\ mem' = mem /\ free' = free
      BY <1>4, Zenon DEF mem_init
    <2>2. 2 = Size
      BY <1>3, <1>4, FreeLists, Zenon
    <2>3. Size < 5
      BY <2>2
    <2>4. HeapShape' /\ Built(0, VIRTIO_SLOTS)' /\ FreeFrom(2)'
      BY <1>1, <1>2, <1>3, <2>1, ShapeStays, Zenon DEF Built, FreeFrom, Maps
    <2>5. InS'
      BY <1>1, <1>2, <1>3, <2>1, <2>3, <2>4, Zenon DEF InS, OnFirst, Before
    <2> QED
      BY <1>2, <2>4, <2>5, StillS, Zenon
  <1>5. CASE free # <<>>
    <2>1. 2 < Size
      <3>1. 2 # Size
        BY <1>3, <1>5, FreeLists, Zenon
      <3> QED
        BY <1>3, <3>1
    <2>2. Head(free) = Page(3) /\ Tail(free) = From(Size, 3)
      <3>1. 2 + 1 = 3
        OBVIOUS
      <3> QED
        <4>1. /\ Head(From(Size, 2)) = Page(2 + 1)
              /\ Tail(From(Size, 2)) = From(Size, 2 + 1)
          BY <1>3, <2>1, FreeLists, Zenon
        <4> QED
          BY <1>3, <3>1, <4>1, Zenon
    <2>3. /\ root' = Page(3) /\ free' = From(Size, 3) /\ todo' = Mmio /\ pc' = "map"
          /\ mem' = [memset(mem, Page(3)) EXCEPT ![Page(3)] = Gigapages(@)]
      BY <1>5, <2>2, Zenon DEF mem_init, RestAfter
    <2>4. Page(3) \in Pages /\ 3 <= Size
      <3>1. 3 \in 0 .. Size /\ 3 <= Size
        BY <1>3, <2>1
      <3> QED
        BY <1>2, <3>1, PageIn, Zenon
    <2>5. /\ memset(mem, Page(3)) \in Memory(Pages) /\ memset(mem, Page(3))[Page(3)] = Zeros
          /\ Same(Pages, {Page(3)}, mem, memset(mem, Page(3)))
      BY <1>3, <2>4, Clears, Zenon
    <2>6. mem' = [memset(mem, Page(3)) EXCEPT ![Page(3)] = RootRow(Invalid)]
      BY <2>3, <2>5, RowWrites, Zenon
    <2>7. RootRow(Invalid) \in Rows
      BY RowWrites, Kinds, Zenon
    <2>8. mem' \in Memory(Pages) /\ mem'[Page(3)] = RootRow(Invalid)
      BY <2>4, <2>5, <2>6, <2>7, Zenon DEF Memory
    <2>9. Same(Pages, {Page(3)}, mem, mem')
      <3>1. Same(Pages, {Page(3)}, memset(mem, Page(3)), mem')
        BY <2>5, <2>6, Zenon DEF Memory, Same
      <3> QED
        BY <2>5, <3>1, Zenon DEF Same
    <2>10. Maps(mem', 0, VIRTIO_SLOTS)
      <3>1. \A k \in {0, 0 + 1, 0 + 2} : Page(k) \notin {Page(3)}
        BY PageFacts
      <3>2. 0 \in Nat
        OBVIOUS
      <3> QED
        BY <1>2, <2>9, <3>1, <3>2, MapsStays, Zenon
    <2>11. Built(0, VIRTIO_SLOTS)'
      BY <1>1, <1>2, <2>10, BuiltStays, Zenon
    <2>12. HeapShape'
      BY <1>1, <1>2, <2>8, ShapeStays, Zenon
    <2>13. Building(3)'
      BY <1>3, <2>3, <2>4, <2>8, Zenon DEF Building, FreeFrom
    <2>14. InS'
      BY <1>1, <1>2, <1>3, <2>3, <2>4, <2>11, <2>13, Zenon DEF InS, OnFirst, Before
    <2> QED
      BY <1>2, <2>12, <2>14, StillS, Zenon
  <1> QED
    BY <1>4, <1>5, Zenon

\* The statements of main follow each other, and none comes back to uart_init.
LEMMA NextStatement ==
  ASSUME NEW step, step \in After, step # "scheduler", Statement(step)
  PROVE  pc = step /\ pc' \in After /\ (step = "uart_init" => pc' = "trap_init")
  <1>1. PICK k : k = CHOOSE i \in DOMAIN Main : Main[i] = step
    BY Zenon
  <1>2. pc = step /\ pc' = Main[1 + k]
    BY <1>1, Zenon DEF Statement
  <1>3. DOMAIN Main = 1 .. 10
    BY DEF Main
  <1>4. \E i \in 1 .. 10 : Main[i] = step
    BY DEF Main, After
  <1>5. k \in 1 .. 10 /\ Main[k] = step
    BY <1>1, <1>3, <1>4, Zenon
  <1>6. k \in 1 .. 9
    BY <1>5 DEF Main
  <1>7. Main[1 + k] \in After /\ (Main[k] = "uart_init" => Main[1 + k] = "trap_init")
    BY <1>6 DEF Main, After
  <1> QED
    BY <1>2, <1>5, <1>7, Zenon

\* A statement of main that does not allocate.
LEMMA PStatement ==
  ASSUME PInv, NEW step \in After, step # "scheduler", Statement(step), mem' = mem, free' = free
  PROVE  PInv'
  <1>1. pc \in After /\ pc' \in After
    BY NextStatement, Zenon
  <1>2. mode' = mode /\ UNCHANGED paging
    BY Zenon DEF Statement, paging
  <1>3. mode' = "S" /\ satp = Page(3) /\ Built(3, VIRTIO_SLOTS)
    BY <1>1, <1>2, Where, Zenon DEF OnSecond
  <1>4. PICK j \in 5 .. Size : FreeFrom(j)
    BY <1>1, Where, Zenon DEF OnSecond
  <1>5. /\ HeapShape' /\ Size' = Size /\ satp' = Page(3) /\ Built(3, VIRTIO_SLOTS)'
        /\ FreeFrom(j)'
    BY <1>2, <1>3, <1>4, TablesStay, Zenon
  <1>6. OnSecond'
    BY <1>5, Zenon DEF OnSecond
  <1>7. InS'
    BY <1>1, <1>6, Zenon DEF InS
  <1> QED
    BY <1>3, <1>5, <1>7, StillS, Zenon

\* The calls of main that take no page.
LEMMA PMain ==
  ASSUME PInv,
         uart_init \/ trap_init \/ set_timer \/ enable_timer_interrupt \/ intr_on
           \/ fdt_traverse \/ WalkReturns
  PROVE  PInv'
  <1>1. \A step \in {"uart_init", "trap_init", "set_timer", "enable_timer_interrupt", "intr_on",
                     "fdt_traverse", "walk"} : step \in After /\ step # "scheduler"
    BY Zenon DEF After
  <1>2. /\ mem' = mem /\ free' = free
        /\ \E step \in {"uart_init", "trap_init", "set_timer", "enable_timer_interrupt",
                        "intr_on", "fdt_traverse", "walk"} : Statement(step)
    BY Zenon DEF uart_init, trap_init, set_timer, enable_timer_interrupt, intr_on, fdt_traverse,
                 WalkReturns
  <1> QED
    BY <1>1, <1>2, PStatement, Zenon

\* What the driver and proc_create take lies behind the tables in use.
LEMMA PAllocate ==
  ASSUME PInv, NEW n \in Nat, Allocate(n)
  PROVE  PInv'
  <1>1. /\ "virt_find_all_devices" \in After /\ "virt_find_all_devices" # "scheduler"
        /\ "proc_create" \in After /\ "proc_create" # "scheduler"
    BY Zenon DEF After
  <1>2. pc \in After /\ pc' \in After
    <2>1. CASE Scanning
      BY <1>1, <2>1, Zenon DEF Scanning
    <2>2. CASE ~ Scanning
      BY <1>1, <2>2, NextStatement, Zenon DEF Allocate
    <2> QED
      BY <2>1, <2>2, Zenon
  <1>3. mode' = mode /\ heap' = heap /\ satp' = satp
    BY Zenon DEF Allocate, Scanning, Statement
  <1>4. /\ mode' = "S" /\ HeapShape /\ satp' = Page(3) /\ Built(3, VIRTIO_SLOTS)
        /\ \E j \in 5 .. Size : FreeFrom(j)
    BY <1>2, <1>3, Where, Zenon DEF OnSecond
  <1>5. PICK j \in 5 .. Size : FreeFrom(j)
    BY <1>4, Zenon
  <1>6. Size \in Nat /\ Size' = Size /\ mem \in Memory(Pages)
    BY <1>3, <1>4, HeapStays, Zenon DEF HeapShape
  <1>7. j \in 0 .. Size /\ free = From(Size, j)
    <2>1. free = From(Size, j)
      BY <1>5, Zenon DEF FreeFrom
    <2> QED
      BY <1>5, <1>6, <2>1
  <1>8. Len(free) = Size - j
    BY <1>6, <1>7, FreeLists, Zenon
  <1>9. n \in 0 .. (Size - j) /\ j + n \in 5 .. Size /\ j + n <= Size
    <2>1. n <= Len(free)
      BY Zenon DEF Allocate
    <2> QED
      BY <1>5, <1>6, <1>7, <1>8, <2>1
  <1>10. /\ free' = From(Size, j + n)
         /\ Range(SubSeq(free, 1, n)) \subseteq {Page(k) : k \in (j + 1) .. Size}
    BY <1>6, <1>7, <1>9, Taken, Zenon DEF Allocate
  <1>11. FreeFrom(j + n)'
    BY <1>6, <1>9, <1>10, Zenon DEF FreeFrom
  <1>12. PICK S : S = Range(SubSeq(free, 1, n))
    BY Zenon
  <1>13. mem' = [p \in Pages |-> IF p \in S THEN Junk ELSE mem[p]]
    BY <1>6, <1>12, Zenon DEF Allocate, Memory
  <1>14. mem' \in Memory(Pages) /\ Same(Pages, S, mem, mem')
    BY <1>6, <1>13, RowWrites, Zenon DEF Memory, Same
  <1>15. HeapShape'
    BY <1>3, <1>4, <1>14, ShapeStays, Zenon
  <1>16. Maps(mem', 3, VIRTIO_SLOTS)
    <2>1. \A k \in (j + 1) .. Size : k \in Nat /\ k # 3 /\ k # 3 + 1 /\ k # 3 + 2
      BY <1>5, <1>6
    <2>2. 3 \in Nat /\ 3 + 1 \in Nat /\ 3 + 2 \in Nat
      OBVIOUS
    <2>3. \A k \in (j + 1) .. Size : Page(k) # Page(3) /\ Page(k) # Page(3 + 1) /\ Page(k) # Page(3 + 2)
      BY <2>1, <2>2, PageFacts, Zenon
    <2>4. Page(3) \notin S /\ Page(3 + 1) \notin S /\ Page(3 + 2) \notin S
      BY <1>10, <1>12, <2>3, Zenon
    <2> QED
      BY <1>4, <1>14, <2>2, <2>4, MapsStays, Zenon
  <1>17. Built(3, VIRTIO_SLOTS)'
    BY <1>3, <1>4, <1>16, BuiltStays, Zenon
  <1>18. OnSecond'
    BY <1>4, <1>6, <1>9, <1>11, <1>17, Zenon DEF OnSecond
  <1>19. InS'
    BY <1>2, <1>18, Zenon DEF InS
  <1> QED
    BY <1>4, <1>15, <1>19, StillS, Zenon

\* The timer, the walk over the device tree and the end of the boot.
LEMMA PIdle ==
  ASSUME PInv, UNCHANGED <<pc, mode, paging>>
  PROVE  PInv'
  <1>1. pc' = pc /\ mode' = mode /\ root' = root /\ todo' = todo /\ mem' = mem /\ heap' = heap /\ free' = free /\ satp' = satp
    BY Zenon DEF paging
  <1>2. Size' = Size /\ Pages' = Pages
    BY <1>1, HeapStays, Zenon
  <1>3. HeapShape' <=> HeapShape
    BY <1>1, <1>2, Zenon DEF HeapShape
  <1>4. (\A r, d : Built(r, d)' <=> Built(r, d)) /\ (\A j : FreeFrom(j)' <=> FreeFrom(j))
    BY <1>1, <1>2, Zenon DEF Built, Maps, FreeFrom
  <1>5. \A r : Building(r)' <=> Building(r)
    BY <1>1, <1>4, Zenon DEF Building
  <1>6. InM' <=> InM
    BY <1>1, <1>2, <1>4, <1>5, Zenon DEF InM
  <1>7. (OnFirst' <=> OnFirst) /\ (OnSecond' <=> OnSecond)
    BY <1>1, <1>2, <1>4, <1>5, Zenon DEF OnFirst, OnSecond
  <1>8. InS' <=> InS
    BY <1>1, <1>7, Zenon DEF InS
  <1> QED
    BY <1>1, <1>3, <1>6, <1>8, Zenon DEF PInv

\* Every step keeps the invariant.
LEMMA PNext == PInv /\ [Next]_vars => PInv'
  <1> SUFFICES ASSUME PInv, [Next]_vars PROVE PInv'
    OBVIOUS
  <1>1. CASE BootStep
    <2>1. CASE ClearBss \/ relocate_kernel \/ MapNext \/ WriteSatp \/ MachineSetup \/ Mret \/ mem_init
      BY <2>1, PClearBss, Prelocate_kernel, PMapNext, PWriteSatp, PMachineSetup, PMret, Pmem_init,
         Zenon
    <2>2. CASE uart_init \/ trap_init \/ set_timer \/ enable_timer_interrupt \/ intr_on
                 \/ fdt_traverse \/ WalkReturns
      BY <2>2, PMain, Zenon
    <2>3. CASE Walk
      BY <2>3, PIdle, Zenon DEF Walk
    <2>4. CASE \E n \in 0 .. Cardinality(heap) : Allocate(n)
      <3>1. PICK n \in 0 .. Cardinality(heap) : Allocate(n)
        BY <2>4, Zenon
      <3>2. n \in Nat
        <4>1. Size \in Nat
          BY Zenon DEF PInv, HeapShape
        <4> QED
          BY <4>1 DEF Size
      <3> QED
        BY <3>1, <3>2, PAllocate, Zenon
    <2> QED
      BY <1>1, <2>1, <2>2, <2>3, <2>4, Zenon DEF BootStep
  <1>2. CASE MachineTimer \/ SupervisorTimer
    BY <1>2, PIdle, Zenon DEF MachineTimer, SupervisorTimer
  <1>3. CASE UNCHANGED vars
    BY <1>3, PIdle, Zenon DEF vars
  <1> QED
    BY <1>1, <1>2, <1>3, Zenon DEF Next, Stopped

\* What the tables and the free list are at every moment of the boot: relocate_kernel
\* and mem_init take the pages in the order page_allocator_init links them.
THEOREM TablesFollowed == Spec => []PInv
  BY PInit, PNext, PTL DEF Spec

-----------------------------------------------------------------------------
(***************************************************************************)
(* The table in use                                                        *)
(***************************************************************************)
\* S-mode runs on three pages that are not free.
LEMMA InUse ==
  ASSUME PInv, mode = "S"
  PROVE  \E r \in Nat : /\ satp = Page(r) /\ Built(r, VIRTIO_SLOTS)
                        /\ \E j \in (r + 2) .. Size : FreeFrom(j)
  <1>1. Size \in Nat
    BY Zenon DEF PInv, HeapShape
  <1>2. CASE pc \in Before /\ OnFirst
    <2>1. pc = "mem_init" \/ pc = "map" \/ pc = "hang" \/ pc = "fault"
      BY <1>2, Zenon DEF Before
    <2>2. FreeFrom(2) \/ (\E j \in 3 .. Size : FreeFrom(j)) \/ Building(3)
      BY <1>2, <2>1, Zenon DEF OnFirst
    <2>3. Building(3) => FreeFrom(3) \/ FreeFrom(3 + 2)
      BY Zenon DEF Building
    <2>4. \A j \in {2, 3, 3 + 2} : FreeFrom(j) => j \in (0 + 2) .. Size
      BY <1>1 DEF FreeFrom
    <2>5. \A j \in 3 .. Size : j \in (0 + 2) .. Size
      BY <1>1
    <2>6. \E j \in (0 + 2) .. Size : FreeFrom(j)
      BY <2>2, <2>3, <2>4, <2>5, Zenon
    <2>7. 0 \in Nat
      OBVIOUS
    <2> QED
      BY <1>2, <2>6, <2>7, Zenon DEF OnFirst
  <1>3. CASE pc \in After /\ OnSecond
    <2>1. 3 \in Nat /\ 3 + 2 = 5
      OBVIOUS
    <2> QED
      BY <1>3, <2>1, Zenon DEF OnSecond
  <1> QED
    BY <1>2, <1>3, Zenon DEF PInv, InS

\* The walk of the hardware through the gigabytes of the kernel.
KernelAt(m, r, g, a, b) == Translate(m, Page(r), <<g, a, b>>) = <<BASE, a, b>>

\* The walk of an address of the kernel ends at its gigapage.
LEMMA KernelWalk ==
  ASSUME NEW m, NEW r \in Nat, NEW d, Maps(m, r, d), NEW g \in {BASE, KERNEL_BASE}, NEW a, NEW b
  PROVE  KernelAt(m, r, g, a, b)
  <1> USE DEF KernelAt
  <1>1. m[Page(r)][g] = Kernel
    <2>1. g \in Index
      BY Numbers, Zenon
    <2>2. m[Page(r)] = RootRow(Table(Page(r + 1)))
      BY Zenon DEF Maps
    <2> QED
      BY <2>1, <2>2, Zenon DEF RootRow
  <1>2. Kernel.v /\ Kernel.leaf /\ Kernel.pa = <<BASE, 0, 0>>
    <2>1. <<BASE, 0, 0>> \in Addresses
      BY Numbers, Zenon DEF Addresses
    <2> QED
      BY <2>1, Kinds, Zenon DEF Kernel
  <1>3. PICK va : va = <<g, a, b>>
    BY Zenon
  <1>4. va[1] = g /\ va[2] = a /\ va[3] = b
    BY <1>3, Zenon
  <1>5. Translate(m, Page(r), va) = <<Kernel.pa[1], va[2], va[3]>>
    <2>1. m[Page(r)][va[1]] = Kernel
      BY <1>1, <1>4, Zenon
    <2> QED
      BY <1>2, <2>1, Zenon DEF Translate
  <1>6. Kernel.pa[1] = BASE
    BY <1>2
  <1> QED
    BY <1>3, <1>4, <1>5, <1>6, Zenon

\* Outside them the walk, and va2pa, find UART0 and the slots and nothing else.
Walked(m, r, x, y, z) ==
  IF x = 0 /\ y = 128 /\ z \in 0 .. VIRTIO_SLOTS
  THEN /\ Translate(m, Page(r), <<x, y, z>>) = <<x, y, z>>
       /\ va2pa(m, Page(r), <<x, y, z>>) = <<x, y, z>>
  ELSE /\ Translate(m, Page(r), <<x, y, z>>) = Unmapped
       /\ va2pa(m, Page(r), <<x, y, z>>) = NULL

\* The walk of any other address ends at UART0, at a slot, or nowhere.
LEMMA MmioWalk ==
  ASSUME NEW P, NEW m \in Memory(P), NEW r \in Nat, Page(r + 1) \in P, Page(r + 2) \in P,
         Maps(m, r, VIRTIO_SLOTS),
         NEW x \in Index \ {BASE, KERNEL_BASE}, NEW y \in Index, NEW z \in Index
  PROVE  Walked(m, r, x, y, z)
  <1> USE DEF Walked
  <1>1. PICK va : va = <<x, y, z>>
    BY Zenon
  <1>2. /\ va[1] = x /\ va[2] = y /\ va[3] = z
        /\ PX(2, va) = x /\ PX(1, va) = y /\ PX(0, va) = z
    <2>1. 3 - 2 = 1 /\ 3 - 1 = 2 /\ 3 - 0 = 3
      OBVIOUS
    <2>2. va[1] = x /\ va[2] = y /\ va[3] = z
      BY <1>1, Zenon
    <2> QED
      BY <2>1, <2>2, Zenon DEF PX
  <1>3. DOMAIN m = P
    BY Zenon DEF Memory
  <1>4. PICK e2, e1, e0 : /\ e2 = m[Page(r)][x] /\ e1 = m[e2.pa][y] /\ e0 = m[e1.pa][z]
    OBVIOUS
  <1>5. Translate(m, Page(r), va) =
          IF ~ e2.v THEN Unmapped
          ELSE IF e2.leaf THEN <<e2.pa[1], y, z>>
          ELSE IF e2.pa \notin P \/ ~ e1.v THEN Unmapped
          ELSE IF e1.leaf THEN <<e1.pa[1], e1.pa[2], z>>
          ELSE IF e1.pa \notin P \/ ~ e0.v \/ ~ e0.leaf THEN Unmapped
          ELSE e0.pa
    BY <1>2, <1>3, <1>4, Zenon DEF Translate
  <1>6. va2pa(m, Page(r), va) = IF e2.v /\ e1.v /\ e0.v THEN e0.pa ELSE NULL
    BY <1>2, <1>4, Zenon DEF va2pa
  <1>7. Page(r + 1) \in Addresses /\ Page(r + 2) \in Addresses
    <2>1. r + 1 \in Nat /\ r + 2 \in Nat
      OBVIOUS
    <2> QED
      BY <2>1, PageFacts, Zenon
  <1>8. e2 = IF x = 0 THEN Table(Page(r + 1)) ELSE Invalid
    <2>1. m[Page(r)] = RootRow(Table(Page(r + 1)))
      BY Zenon DEF Maps
    <2> QED
      BY <1>4, <2>1, Zenon DEF RootRow
  <1>9. CASE x # 0
    <2>1. ~ e2.v
      BY <1>8, <1>9, Kinds, Zenon
    <2> QED
      BY <1>1, <1>5, <1>6, <1>9, <2>1, Zenon
  <1>10. CASE x = 0
    <2>1. e2.v /\ ~ e2.leaf /\ e2.pa = Page(r + 1)
      BY <1>7, <1>8, <1>10, Kinds, Zenon
    <2>2. e1 = IF y = 128 THEN Table(Page(r + 2)) ELSE Invalid
      <3>1. m[Page(r + 1)] = MidRow(r)
        BY Zenon DEF Maps
      <3> QED
        <4>1. e1 = MidRow(r)[y]
          BY <1>4, <2>1, <3>1, Zenon
        <4> QED
          BY <4>1, Zenon DEF MidRow
    <2>3. CASE y # 128
      <3>1. ~ e1.v
        BY <2>2, <2>3, Kinds, Zenon
      <3> QED
        BY <1>1, <1>5, <1>6, <2>1, <2>3, <3>1, Zenon
    <2>4. CASE y = 128
      <3>1. e1.v /\ ~ e1.leaf /\ e1.pa = Page(r + 2)
        BY <1>7, <2>2, <2>4, Kinds, Zenon
      <3>2. e0 = IF z \in 0 .. VIRTIO_SLOTS THEN Leaf(<<0, 128, z>>) ELSE Invalid
        <4>1. m[Page(r + 2)] = LastRow(VIRTIO_SLOTS)
          BY Zenon DEF Maps
        <4> QED
          BY <1>4, <3>1, <4>1, Zenon DEF LastRow
      <3>3. CASE z \notin 0 .. VIRTIO_SLOTS
        <4>1. ~ e0.v
          BY <3>2, <3>3, Kinds, Zenon
        <4> QED
          BY <1>1, <1>5, <1>6, <2>1, <3>1, <3>3, <4>1, Zenon
      <3>4. CASE z \in 0 .. VIRTIO_SLOTS
        <4>1. <<0, 128, z>> \in Addresses
          BY <3>4, Numbers DEF Addresses
        <4>2. e0.v /\ e0.leaf /\ e0.pa = <<0, 128, z>>
          BY <3>2, <3>4, <4>1, Kinds, Zenon
        <4> QED
          BY <1>1, <1>5, <1>6, <1>10, <2>1, <2>4, <3>1, <3>4, <4>2, Zenon
      <3> QED
        BY <3>3, <3>4, Zenon
    <2> QED
      BY <2>3, <2>4, Zenon
  <1> QED
    BY <1>9, <1>10, Zenon

\* The three tables of a built page table are pages of the model's memory.
LEMMA TablesIn ==
  ASSUME PInv, NEW r \in Nat, Built(r, VIRTIO_SLOTS)
  PROVE  /\ mem \in Memory(Pages) /\ Maps(mem, r, VIRTIO_SLOTS)
         /\ Page(r) \in Pages /\ Page(r + 1) \in Pages /\ Page(r + 2) \in Pages
  <1>1. HeapShape /\ r + 2 <= Size /\ Maps(mem, r, VIRTIO_SLOTS) /\ mem \in Memory(Pages)
    BY Zenon DEF PInv, Built, HeapShape
  <1>2. Size \in Nat
    BY <1>1, PagesAre, Zenon
  <1>3. r \in 0 .. Size /\ r + 1 \in 0 .. Size /\ r + 2 \in 0 .. Size
    BY <1>1, <1>2
  <1> QED
    BY <1>1, <1>3, PageIn, Zenon

(***************************************************************************)
(* In S-mode the kernel is always mapped at its low and its high           *)
(* addresses, and the UART and the slots at their own, before, across and  *)
(* after the switch of satp in mem_init.                                   *)
(***************************************************************************)
THEOREM KernelStaysMapped == Spec => []KernelMapped
  <1>1. PInv => KernelMapped
    <2> SUFFICES ASSUME PInv, mode = "S"
                 PROVE  /\ \A p \in Pages \cup {Image} :
                             /\ Translate(mem, satp, p) = p
                             /\ Translate(mem, satp, [p EXCEPT ![1] = KERNEL_BASE]) = p
                        /\ Translate(mem, satp, UART0) = UART0
                        /\ \A slot \in 1 .. VIRTIO_SLOTS :
                             Translate(mem, satp, VIRT_MMIO(slot)) = VIRT_MMIO(slot)
      BY Zenon DEF KernelMapped
    <2>1. PICK r \in Nat : satp = Page(r) /\ Built(r, VIRTIO_SLOTS)
      BY InUse, Zenon
    <2>2. /\ mem \in Memory(Pages) /\ Maps(mem, r, VIRTIO_SLOTS)
          /\ Page(r + 1) \in Pages /\ Page(r + 2) \in Pages
      BY <2>1, TablesIn, Zenon
    <2>3. ASSUME NEW p \in Pages \cup {Image}
          PROVE  /\ Translate(mem, satp, p) = p
                 /\ Translate(mem, satp, [p EXCEPT ![1] = KERNEL_BASE]) = p
      <3>1. \E x : p = <<BASE, 0, x>>
        <4>1. Pages = {Page(k) : k \in 0 .. Size}
          BY PagesAre, Zenon DEF PInv, PagesTo
        <4> QED
          BY <4>1, Zenon DEF Image, Page
      <3>2. PICK x : p = <<BASE, 0, x>>
        BY <3>1, Zenon
      <3>3. [p EXCEPT ![1] = KERNEL_BASE] = <<KERNEL_BASE, 0, x>>
        BY <3>2
      <3>4. /\ Translate(mem, Page(r), <<BASE, 0, x>>) = <<BASE, 0, x>>
            /\ Translate(mem, Page(r), <<KERNEL_BASE, 0, x>>) = <<BASE, 0, x>>
        <4>1. BASE \in {BASE, KERNEL_BASE} /\ KERNEL_BASE \in {BASE, KERNEL_BASE}
          BY Zenon
        <4>2. KernelAt(mem, r, BASE, 0, x) /\ KernelAt(mem, r, KERNEL_BASE, 0, x)
          BY <2>2, <4>1, KernelWalk, Zenon
        <4> QED
          BY <4>2, Zenon DEF KernelAt
      <3> QED
        BY <2>1, <3>2, <3>3, <3>4, Zenon
    <2>4. ASSUME NEW z \in 0 .. VIRTIO_SLOTS
          PROVE  Translate(mem, satp, <<0, 128, z>>) = <<0, 128, z>>
      <3>1. 0 \in Index \ {BASE, KERNEL_BASE} /\ 128 \in Index /\ z \in Index
        BY Numbers
      <3> QED
        <4>1. Walked(mem, r, 0, 128, z)
          BY <2>2, <3>1, MmioWalk, Zenon
        <4> QED
          BY <2>1, <4>1, Zenon DEF Walked
    <2>5. 0 \in 0 .. VIRTIO_SLOTS /\ \A slot \in 1 .. VIRTIO_SLOTS : slot \in 0 .. VIRTIO_SLOTS
      BY Numbers
    <2> QED
      BY <2>3, <2>4, <2>5, Zenon DEF UART0, VIRT_MMIO
  <1> QED
    BY <1>1, TablesFollowed, PTL

(***************************************************************************)
(* Outside the gigabytes of the kernel the table in use maps the UART and  *)
(* the slots and nothing else, and va2pa agrees with the hardware.         *)
(***************************************************************************)
THEOREM NothingElseMapped == Spec => []MapsExact
  <1>1. PInv => MapsExact
    <2> SUFFICES ASSUME PInv, mode = "S",
                        NEW va \in (Index \ {BASE, KERNEL_BASE}) \X Index \X Index
                 PROVE  /\ Translate(mem, satp, va) = IF va \in Range(Mmio) THEN va ELSE Unmapped
                        /\ va2pa(mem, satp, va) = IF Translate(mem, satp, va) = Unmapped
                                                  THEN NULL ELSE Translate(mem, satp, va)
      BY Zenon DEF MapsExact
    <2>1. PICK r \in Nat : satp = Page(r) /\ Built(r, VIRTIO_SLOTS)
      BY InUse, Zenon
    <2>2. /\ mem \in Memory(Pages) /\ Maps(mem, r, VIRTIO_SLOTS)
          /\ Page(r + 1) \in Pages /\ Page(r + 2) \in Pages
      BY <2>1, TablesIn, Zenon
    <2>3. PICK x \in Index \ {BASE, KERNEL_BASE}, y \in Index, z \in Index : va = <<x, y, z>>
      OBVIOUS
    <2>4. va \in Range(Mmio) <=> x = 0 /\ y = 128 /\ z \in 0 .. VIRTIO_SLOTS
      <3>1. Range(Mmio) = {<<0, 128, i>> : i \in 0 .. VIRTIO_SLOTS}
        BY MmioLists, Zenon
      <3> QED
        BY <2>3, <3>1
    <2>5. va # Unmapped
      BY <2>3, Zenon DEF Unmapped
    <2>6. IF va \in Range(Mmio)
          THEN Translate(mem, satp, va) = va /\ va2pa(mem, satp, va) = va
          ELSE Translate(mem, satp, va) = Unmapped /\ va2pa(mem, satp, va) = NULL
      <3>1. Walked(mem, r, x, y, z)
        BY <2>2, MmioWalk, Zenon
      <3> QED
        BY <2>1, <2>3, <2>4, <3>1, Zenon DEF Walked
    <2> QED
      BY <2>5, <2>6, Zenon
  <1> QED
    BY <1>1, TablesFollowed, PTL

\* The entries that lead to tables.
Points(m, p, i) == m[p][i].v /\ ~ m[p][i].leaf

Leads(m, r, i) ==
  /\ Points(m, Page(r), i) <=> i = 0
  /\ i = 0 => m[Page(r)][i].pa = Page(r + 1)
  /\ Points(m, Page(r + 1), i) <=> i = 128
  /\ i = 128 => m[Page(r + 1)][i].pa = Page(r + 2)
  /\ ~ Points(m, Page(r + 2), i)

\* Where the entries of the three tables point.
LEMMA Pointers ==
  ASSUME NEW m, NEW r \in Nat, Maps(m, r, VIRTIO_SLOTS), NEW i \in Index
  PROVE  Leads(m, r, i)
  <1>1. Page(r + 1) \in Addresses /\ Page(r + 2) \in Addresses
    <2>1. r + 1 \in Nat /\ r + 2 \in Nat
      OBVIOUS
    <2> QED
      BY <2>1, PageFacts, Zenon
  <1>2. /\ Table(Page(r + 1)).v /\ ~ Table(Page(r + 1)).leaf /\ Table(Page(r + 1)).pa = Page(r + 1)
        /\ Table(Page(r + 2)).v /\ ~ Table(Page(r + 2)).leaf /\ Table(Page(r + 2)).pa = Page(r + 2)
        /\ ~ Invalid.v
    BY <1>1, Kinds, Zenon
  <1>3. Kernel.v /\ Kernel.leaf
    <2>1. <<BASE, 0, 0>> \in Addresses
      BY Numbers, Zenon DEF Addresses
    <2> QED
      BY <2>1, Kinds, Zenon DEF Kernel
  <1>4. 0 # BASE /\ 0 # KERNEL_BASE
    BY Numbers
  <1>5. m[Page(r)][i] = IF i \in {BASE, KERNEL_BASE} THEN Kernel
                        ELSE IF i = 0 THEN Table(Page(r + 1)) ELSE Invalid
    <2>1. m[Page(r)] = RootRow(Table(Page(r + 1)))
      BY Zenon DEF Maps
    <2> QED
      BY <2>1, Zenon DEF RootRow
  <1>6. /\ m[Page(r)][i].v /\ ~ m[Page(r)][i].leaf <=> i = 0
        /\ i = 0 => m[Page(r)][i].pa = Page(r + 1)
    BY <1>2, <1>3, <1>4, <1>5, Zenon
  <1>7. m[Page(r + 1)][i] = IF i = 128 THEN Table(Page(r + 2)) ELSE Invalid
    <2>1. m[Page(r + 1)] = MidRow(r)
      BY Zenon DEF Maps
    <2> QED
      BY <2>1, Zenon DEF MidRow
  <1>8. /\ m[Page(r + 1)][i].v /\ ~ m[Page(r + 1)][i].leaf <=> i = 128
        /\ i = 128 => m[Page(r + 1)][i].pa = Page(r + 2)
    BY <1>2, <1>7, Zenon
  <1>9. ~ (m[Page(r + 2)][i].v /\ ~ m[Page(r + 2)][i].leaf)
    <2>1. m[Page(r + 2)][i] = IF i \in 0 .. VIRTIO_SLOTS THEN Leaf(<<0, 128, i>>) ELSE Invalid
      <3>1. m[Page(r + 2)] = LastRow(VIRTIO_SLOTS)
        BY Zenon DEF Maps
      <3> QED
        BY <3>1, Zenon DEF LastRow
    <2>2. i \in 0 .. VIRTIO_SLOTS => <<0, 128, i>> \in Addresses
      BY Numbers DEF Addresses
    <2>3. i \in 0 .. VIRTIO_SLOTS => Leaf(<<0, 128, i>>).leaf
      BY <2>2, Kinds, Zenon
    <2> QED
      BY <1>2, <2>1, <2>3, Zenon
  <1> QED
    BY <1>6, <1>8, <1>9, Zenon DEF Leads, Points

\* The tables reached from a root are the three of them.
LEMMA ThreeTables ==
  ASSUME NEW m, NEW r \in Nat, Maps(m, r, VIRTIO_SLOTS)
  PROVE  TablesOf(m, Page(r)) = {Page(r), Page(r + 1), Page(r + 2)}
  <1>1. 0 \in Index /\ 128 \in Index
    BY Numbers, Zenon
  <1>0. \A i \in Index : Leads(m, r, i)
    BY Pointers, Zenon
  <1>2. {j \in Index : m[Page(r)][j].v /\ ~ m[Page(r)][j].leaf} = {0}
    <2>1. \A j \in Index : m[Page(r)][j].v /\ ~ m[Page(r)][j].leaf <=> j = 0
      BY <1>0, Zenon DEF Leads, Points
    <2>2. \A x : x \in {j \in Index : m[Page(r)][j].v /\ ~ m[Page(r)][j].leaf} <=> x = 0
      BY <1>1, <2>1, Zenon
    <2> QED
      BY <2>2, Zenon
  <1>3. Children(m, Page(r)) = {Page(r + 1)}
    <2>1. m[Page(r)][0].pa = Page(r + 1)
      BY <1>0, <1>1, Zenon DEF Leads
    <2>2. Children(m, Page(r)) = {m[Page(r)][i].pa : i \in {0}}
      BY <1>2, Zenon DEF Children
    <2> QED
      BY <2>1, <2>2, Zenon
  <1>4. {j \in Index : m[Page(r + 1)][j].v /\ ~ m[Page(r + 1)][j].leaf} = {128}
    <2>1. PICK mega : mega = 128
      BY Zenon
    <2>2. \A j \in Index : m[Page(r + 1)][j].v /\ ~ m[Page(r + 1)][j].leaf <=> j = mega
      BY <1>0, <2>1, Zenon DEF Leads, Points
    <2>3. mega \in Index
      BY <1>1, <2>1, Zenon
    <2>4. \A x : x \in {j \in Index : m[Page(r + 1)][j].v /\ ~ m[Page(r + 1)][j].leaf} <=> x = mega
      BY <2>2, <2>3, Zenon
    <2>5. {j \in Index : m[Page(r + 1)][j].v /\ ~ m[Page(r + 1)][j].leaf} = {mega}
      BY <2>4, Zenon
    <2> QED
      BY <2>1, <2>5, Zenon
  <1>5. Children(m, Page(r + 1)) = {Page(r + 2)}
    <2>1. m[Page(r + 1)][128].pa = Page(r + 2)
      BY <1>0, <1>1, Zenon DEF Leads
    <2>2. Children(m, Page(r + 1)) = {m[Page(r + 1)][i].pa : i \in {128}}
      BY <1>4, Zenon DEF Children
    <2> QED
      BY <2>1, <2>2, Zenon
  <1>6. UNION {Children(m, p) : p \in {Page(r + 1)}} = {Page(r + 2)}
    BY <1>5, Zenon
  <1>7. TablesOf(m, Page(r)) = {Page(r)} \cup {Page(r + 1)} \cup {Page(r + 2)}
    BY <1>3, <1>6, Zenon DEF TablesOf
  <1> QED
    BY <1>7, Zenon

\* Sets of two and of three.
LEMMA TwoThree ==
  /\ \A a, b : a # b => Cardinality({a, b}) = 2
  /\ \A a, b, c : a # b /\ a # c /\ b # c => Cardinality({a, b, c}) = 3
  <1>1. ASSUME NEW a, NEW b, a # b
        PROVE  IsFiniteSet({a, b}) /\ Cardinality({a, b}) = 2
    <2>1. IsFiniteSet({a}) /\ Cardinality({a}) = 1 /\ {a, b} = {a} \cup {b} /\ b \notin {a}
      BY <1>1, FS_Singleton, Zenon
    <2>2. IsFiniteSet({a} \cup {b}) /\ Cardinality({a} \cup {b}) = Cardinality({a}) + 1
      BY <2>1, FS_AddElement, Zenon
    <2> QED
      BY <2>1, <2>2
  <1>2. ASSUME NEW a, NEW b, NEW c, a # b, a # c, b # c
        PROVE  Cardinality({a, b, c}) = 3
    <2>1. /\ IsFiniteSet({a, b}) /\ Cardinality({a, b}) = 2
          /\ {a, b, c} = {a, b} \cup {c} /\ c \notin {a, b}
      BY <1>1, <1>2, Zenon
    <2>2. Cardinality({a, b} \cup {c}) = Cardinality({a, b}) + 1
      BY <2>1, FS_AddElement, Zenon
    <2> QED
      BY <2>1, <2>2
  <1> QED
    BY <1>1, <1>2, Zenon

(***************************************************************************)
(* The tables in use are never on the free list, so what proc_create and   *)
(* the driver allocate and overwrite is not one of them, and one entry     *)
(* leads to each but the root.                                             *)
(***************************************************************************)
THEOREM TablesAreOwned == Spec => []TablesOwned
  <1>1. PInv => TablesOwned
    <2> DEFINE tables == TablesOf(mem, satp)
               Links == {l \in tables \X Index : mem[l[1]][l[2]].v /\ ~ mem[l[1]][l[2]].leaf}
    <2> SUFFICES ASSUME PInv, mode = "S"
                 PROVE  /\ tables \subseteq Pages \ Range(free)
                        /\ Cardinality(Links) = Cardinality(tables) - 1
      BY Zenon DEF TablesOwned
    <2>1. PICK r \in Nat : /\ satp = Page(r) /\ Built(r, VIRTIO_SLOTS)
                           /\ \E j \in (r + 2) .. Size : FreeFrom(j)
      BY InUse, Zenon
    <2>2. /\ Maps(mem, r, VIRTIO_SLOTS)
          /\ Page(r) \in Pages /\ Page(r + 1) \in Pages /\ Page(r + 2) \in Pages
      BY <2>1, TablesIn, Zenon
    <2>3. tables = {Page(r), Page(r + 1), Page(r + 2)}
      BY <2>1, <2>2, ThreeTables, Zenon
    <2>4. Page(r) # Page(r + 1) /\ Page(r) # Page(r + 2) /\ Page(r + 1) # Page(r + 2)
      BY PageFacts
    <2>5. Page(r) \notin Range(free) /\ Page(r + 1) \notin Range(free) /\ Page(r + 2) \notin Range(free)
      <3>1. PICK j \in (r + 2) .. Size : FreeFrom(j)
        BY <2>1, Zenon
      <3>2. Size \in Nat
        BY Zenon DEF PInv, HeapShape
      <3>3. j \in 0 .. Size
        BY <3>1, <3>2
      <3>4. Range(free) = {Page(k) : k \in (j + 1) .. Size}
        BY <3>1, <3>2, <3>3, FreeLists, Zenon DEF FreeFrom
      <3>5. \A k \in (j + 1) .. Size : Page(k) # Page(r) /\ Page(k) # Page(r + 1) /\ Page(k) # Page(r + 2)
        <4>1. \A k \in (j + 1) .. Size : k \in Nat /\ k # r /\ k # r + 1 /\ k # r + 2
          BY <3>1, <3>2
        <4> QED
          BY <4>1, PageFacts
      <3> QED
        BY <3>4, <3>5, Zenon
    <2>6. Links = {<<Page(r), 0>>, <<Page(r + 1), 128>>}
      <3>1. \A i \in Index : Leads(mem, r, i)
        BY <2>2, Pointers, Zenon
      <3>2. 0 \in Index /\ 128 \in Index
        BY Numbers, Zenon
      <3>3. ASSUME NEW l, l \in Links
            PROVE  l \in {<<Page(r), 0>>, <<Page(r + 1), 128>>}
        <4>1. PICK p \in {Page(r), Page(r + 1), Page(r + 2)}, i \in Index : l = <<p, i>>
          BY <2>3, <3>3
        <4>2. l[1] = p /\ l[2] = i
          BY <4>1, Zenon
        <4>3. Points(mem, p, i) /\ Leads(mem, r, i)
          BY <3>1, <3>3, <4>2, Zenon DEF Points
        <4> QED
          BY <4>1, <4>3, Zenon DEF Leads
      <3>4. ASSUME NEW p \in tables, NEW i \in Index, Points(mem, p, i)
            PROVE  <<p, i>> \in Links
        <4>1. <<p, i>>[1] = p /\ <<p, i>>[2] = i /\ <<p, i>> \in tables \X Index
          OBVIOUS
        <4> QED
          BY <3>4, <4>1, Zenon DEF Points
      <3>5. Points(mem, Page(r), 0) /\ Points(mem, Page(r + 1), 128)
        BY <3>1, <3>2, Zenon DEF Leads
      <3>6. <<Page(r), 0>> \in Links /\ <<Page(r + 1), 128>> \in Links
        <4>1. Page(r) \in tables /\ Page(r + 1) \in tables
          BY <2>3, Zenon
        <4> HIDE DEF tables, Links
        <4> QED
          BY <3>2, <3>4, <3>5, <4>1, Zenon
      <3> HIDE DEF Links
      <3> QED
        BY <3>3, <3>6, Zenon
    <2>7. Cardinality(Links) = 2
      <3>1. <<Page(r), 0>> # <<Page(r + 1), 128>>
        BY <2>4, Zenon
      <3> HIDE DEF Links
      <3> QED
        BY <2>6, <3>1, TwoThree, Zenon
    <2>8. Cardinality(tables) = 3
      <3> HIDE DEF tables
      <3> QED
        BY <2>3, <2>4, TwoThree, Zenon
    <2>9. tables \subseteq Pages \ Range(free)
      BY <2>2, <2>3, <2>5, Zenon
    <2> HIDE DEF tables, Links
    <2> QED
      BY <2>7, <2>8, <2>9
  <1> QED
    BY <1>1, TablesFollowed, PTL

-----------------------------------------------------------------------------
(***************************************************************************)
(* A boot that is lost, and the vectors                                    *)
(***************************************************************************)
\* Two sets of tables, and a root.
LEMMA NeededIs == Needed = 5
  <1> DEFINE gigas == {Mmio[k][1] : k \in DOMAIN Mmio}
             megas == {<<Mmio[k][1], Mmio[k][2]>> : k \in DOMAIN Mmio}
  <1>1. \A k \in DOMAIN Mmio : Mmio[k][1] = 0 /\ Mmio[k][2] = 128
    <2> SUFFICES ASSUME NEW k \in DOMAIN Mmio PROVE Mmio[k][1] = 0 /\ Mmio[k][2] = 128
      BY Zenon
    <2>1. Mmio[k] \in Range(Mmio)
      BY Zenon DEF Range
    <2>2. PICK i : Mmio[k] = <<0, 128, i>>
      BY <2>1, MmioLists, Zenon
    <2> QED
      BY <2>2
  <1>2. \E k : k \in DOMAIN Mmio
    <2>1. 0 \in 0 .. VIRTIO_SLOTS
      BY Numbers
    <2>2. <<0, 128, 0>> \in Range(Mmio)
      BY <2>1, MmioLists, Zenon
    <2> QED
      BY <2>2, Zenon DEF Range
  <1>3. gigas = {0} /\ megas = {<<0, 128>>}
    <2>1. PICK giga, mega : giga = 0 /\ mega = 128
      OBVIOUS
    <2>2. \A k \in DOMAIN Mmio : Mmio[k][1] = giga /\ <<Mmio[k][1], Mmio[k][2]>> = <<giga, mega>>
      BY <1>1, <2>1, Zenon
    <2>3. PICK k \in DOMAIN Mmio : TRUE
      BY <1>2, Zenon
    <2>4. \A x : x \in gigas <=> x = giga
      BY <2>2, <2>3, Zenon
    <2>5. \A x : x \in megas <=> x = <<giga, mega>>
      BY <2>2, <2>3, Zenon
    <2> HIDE DEF gigas, megas
    <2>6. gigas = {giga} /\ megas = {<<giga, mega>>}
      BY <2>4, <2>5, Zenon
    <2> QED
      BY <2>1, <2>6, Zenon
  <1>4. Cardinality(gigas) = 1 /\ Cardinality(megas) = 1
    BY <1>3, FS_Singleton, Zenon
  <1>5. Needed = 2 * (Cardinality(gigas) + Cardinality(megas)) + 1
    BY Zenon DEF Needed
  <1> HIDE DEF gigas, megas
  <1> QED
    BY <1>4, <1>5

(***************************************************************************)
(* The boot is lost, by main's return or a store through NULL in map_page, *)
(* only on a heap of fewer than five pages.                                *)
(***************************************************************************)
THEOREM LostIfSmall == Spec => []LostOnlyIfSmall
  <1>1. PInv => LostOnlyIfSmall
    <2> SUFFICES ASSUME PInv, pc \in {"fault", "hang"} PROVE Size < 5
      BY NeededIs, Zenon DEF LostOnlyIfSmall, Size
    <2>1. Size \in Nat
      BY Zenon DEF PInv, HeapShape
    <2>2. CASE mode = "M"
      <3>1. pc = "fault"
        BY <2>2, Zenon DEF PInv, InM
      <3>2. Size < 2
        BY <2>2, <3>1, Zenon DEF PInv, InM
      <3> QED
        BY <2>1, <3>2
    <2>3. CASE mode = "S"
      <3>1. pc \notin After
        BY Zenon DEF After
      <3>2. OnFirst
        BY <2>3, <3>1, Zenon DEF PInv, InS
      <3> QED
        BY <3>2, Zenon DEF OnFirst
    <2> QED
      BY <2>2, <2>3, Zenon DEF PInv
  <1> QED
    BY <1>1, TablesFollowed, PTL

\* The M-mode CSRs are set before mret, stvec before anything of main that
\* follows trap_init, and only then may SIE be.
Late == After \ {"uart_init", "trap_init"}

VInv ==
  /\ mode = "S" \/ pc = "mret" => m_ready
  /\ sie => stvec
  /\ pc \in Late => stvec

\* Every step of the boot keeps the vectors ahead of the interrupts.
LEMMA VNext == VInv /\ [Next]_vars => VInv'
  <1> SUFFICES ASSUME VInv, [Next]_vars PROVE VInv'
    OBVIOUS
  <1>1. CASE ClearBss \/ relocate_kernel \/ MapNext \/ WriteSatp \/ mem_init
    <2>1. /\ mode' = mode /\ m_ready' = m_ready /\ stvec' = stvec /\ sie' = sie
          /\ pc' \in {"relocate_kernel", "map", "fault", "m_setup", "uart_init", "hang"}
      BY <1>1, Zenon DEF ClearBss, relocate_kernel, MapNext, WriteSatp, mem_init, traps, timer
    <2>2. pc' # "mret" /\ pc' \notin Late
      BY <2>1, Zenon DEF Late, After
    <2> QED
      BY <2>1, <2>2, Zenon DEF VInv
  <1>2. CASE MachineSetup
    <2>1. m_ready' /\ stvec' = stvec /\ sie' = sie /\ pc' = "mret"
      BY <1>2, Zenon DEF MachineSetup
    <2>2. "mret" \notin Late
      BY Zenon DEF Late, After
    <2> QED
      BY <2>1, <2>2, Zenon DEF VInv
  <1>3. CASE Mret
    <2>1. pc = "mret" /\ m_ready' = m_ready /\ stvec' = stvec /\ sie' = sie /\ pc' = "mem_init"
      BY <1>3, Zenon DEF Mret, traps, timer
    <2>2. "mem_init" \notin Late
      BY DEF Late, After
    <2> QED
      BY <2>1, <2>2, Zenon DEF VInv
  <1>4. ASSUME NEW step \in After, step # "scheduler", Statement(step), stvec => stvec',
               step = "trap_init" => stvec', sie' = sie \/ step = "intr_on"
        PROVE  VInv'
    <2>1. pc = step /\ pc' \in After /\ (step = "uart_init" => pc' = "trap_init")
      BY <1>4, NextStatement, Zenon
    <2>2. mode' = mode /\ m_ready' = m_ready
      BY <1>4, Zenon DEF Statement
    <2>3. pc' # "mret" /\ "trap_init" \notin Late /\ "intr_on" \in Late
      BY <2>1, Zenon DEF Late, After
    <2>4. step \in Late \/ step = "uart_init" \/ step = "trap_init"
      BY <1>4, Zenon DEF Late
    <2>6. pc' \in Late => stvec'
      <3>2. CASE step \in Late
        BY <1>4, <2>1, <3>2, Zenon DEF VInv
      <3>3. CASE step = "uart_init"
        BY <2>1, <2>3, <3>3, Zenon
      <3>4. CASE step = "trap_init"
        BY <1>4, <3>4, Zenon
      <3> QED
        BY <2>4, <3>2, <3>3, <3>4, Zenon
    <2>7. sie' => stvec'
      BY <1>4, <2>1, <2>3, Zenon DEF VInv
    <2> QED
      BY <2>2, <2>3, <2>6, <2>7, Zenon DEF VInv
  <1>5. CASE uart_init \/ trap_init \/ set_timer \/ enable_timer_interrupt \/ intr_on
               \/ fdt_traverse \/ WalkReturns \/ \E n \in 0 .. Cardinality(heap) : Allocate(n)
    <2>1. /\ \A step \in {"uart_init", "set_timer", "enable_timer_interrupt", "fdt_traverse", "walk",
                          "virt_find_all_devices", "proc_create", "trap_init", "intr_on"} :
               step \in After /\ step # "scheduler"
          /\ \A step \in {"uart_init", "set_timer", "enable_timer_interrupt", "fdt_traverse", "walk",
                          "virt_find_all_devices", "proc_create", "intr_on"} : step # "trap_init"
      BY DEF After
    <2>2. CASE trap_init
      <3>1. Statement("trap_init") /\ stvec' /\ sie' = sie
        BY <2>2, Zenon DEF trap_init, timer
      <3> QED
        BY <1>4, <2>1, <3>1, Zenon
    <2>3. CASE intr_on
      <3>1. Statement("intr_on") /\ stvec' = stvec
        BY <2>3, Zenon DEF intr_on
      <3> QED
        BY <1>4, <2>1, <3>1, Zenon
    <2>4. CASE uart_init \/ set_timer \/ enable_timer_interrupt \/ fdt_traverse \/ WalkReturns
                 \/ \E n \in 0 .. Cardinality(heap) : Allocate(n)
      <3>1. stvec' = stvec /\ sie' = sie
        BY <2>4, Zenon DEF uart_init, set_timer, enable_timer_interrupt, fdt_traverse, WalkReturns,
                           Allocate, timer
      <3>2. \E step \in {"uart_init", "set_timer", "enable_timer_interrupt", "fdt_traverse", "walk",
                         "virt_find_all_devices", "proc_create"} : Scanning \/ Statement(step)
        BY <2>4, Zenon DEF uart_init, set_timer, enable_timer_interrupt, fdt_traverse, WalkReturns,
                           Allocate
      <3>3. CASE Scanning
        BY <3>1, <3>3, Zenon DEF Scanning, VInv
      <3>4. CASE ~ Scanning
        BY <1>4, <2>1, <3>1, <3>2, <3>4, Zenon
      <3> QED
        BY <3>3, <3>4, Zenon
    <2> QED
      BY <1>5, <2>2, <2>3, <2>4, Zenon
  <1>6. ASSUME UNCHANGED <<pc, mode, m_ready, stvec, sie>>
        PROVE  VInv'
    BY <1>6, Zenon DEF VInv
  <1>7. CASE Walk \/ MachineTimer \/ SupervisorTimer \/ UNCHANGED vars
    BY <1>6, <1>7, Zenon DEF Walk, MachineTimer, SupervisorTimer, vars, traps, timer
  <1> QED
    BY <1>1, <1>2, <1>3, <1>5, <1>7, Zenon DEF Next, BootStep, Stopped

(***************************************************************************)
(* A trap always finds its vector: M-mode is set up before S-mode runs,    *)
(* and stvec before the timer can reach S-mode.                            *)
(***************************************************************************)
THEOREM VectorsAreSet == Spec => []VectorsSet
  <1>1. Init => VInv
    <2> SUFFICES ASSUME Init PROVE VInv
      OBVIOUS
    <2>1. mode = "M" /\ pc = "_start" /\ ~ sie
      BY Zenon DEF Init
    <2>2. "M" # "S" /\ "_start" # "mret" /\ "_start" \notin Late
      BY Zenon DEF Late, After
    <2> QED
      BY <2>1, <2>2, Zenon DEF VInv
  <1>2. VInv => VectorsSet
    BY Zenon DEF VInv, VectorsSet
  <1> QED
    BY <1>1, <1>2, VNext, PTL DEF Spec
=============================================================================

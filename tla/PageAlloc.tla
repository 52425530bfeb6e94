------------------------------ MODULE PageAlloc ------------------------------
(***************************************************************************)
(* The page allocator of src/kernel/mem.c with each call as one step: a    *)
(* free list of page frames in list order, and the counter                 *)
(* free_page_count.  That the calls really are atomic, although a timer    *)
(* interrupt can switch to another process, is shown by PageLinks, which   *)
(* has the links in memory, the masking and the preemption.                *)
(*                                                                         *)
(* A byte address is an integer; a page is named by its frame number       *)
(* (address \div PageSize), so that "contiguous" is an interval of         *)
(* numbers.                                                                *)
(***************************************************************************)
EXTENDS Integers, Sequences, FiniteSets

CONSTANTS
  PageSize,      \* PAGE_SIZE
  HeapSym,       \* address of the linker symbol __heap_start
  StackLimit,    \* address of the linker symbol __stack_limit
  MaxHeap,       \* MAX_HEAP_SIZE
  VirtOffset,    \* VIRT_OFFSET: distance of the high-half alias of an address
  KernelBase,    \* KERNEL_BASE_VA: the first high-half address
  Sizes,         \* sizes in bytes that callers pass to mem_alloc
  FreeArgs       \* addresses that callers pass to mem_free (NULL is 0)

ASSUME PageSizeAssumption == PageSize \in Nat \ {0}
ASSUME LayoutAssumption ==
  /\ HeapSym \in Nat /\ StackLimit \in Nat /\ MaxHeap \in Nat
  /\ VirtOffset \in Nat /\ KernelBase \in Nat
ASSUME ArgsAssumption == Sizes \subseteq Nat /\ FreeArgs \subseteq Nat

VARIABLES
  free_list,         \* the frames of the free list, head first
  free_page_count,   \* the counter kept beside it
  held,              \* frames the callers own (ghost)
  ret                \* what the last mem_alloc returned (ghost)

vars == <<free_list, free_page_count, held, ret>>

virt_to_phys(addr) == IF addr >= KernelBase THEN addr - VirtOffset ELSE addr

-----------------------------------------------------------------------------
(***************************************************************************)
(* page_allocator_init: the heap runs from __heap_start, rounded up, to    *)
(* MaxHeap bytes further or to the stack, rounded down.  The two bounds    *)
(* are frame numbers.                                                      *)
(***************************************************************************)
heap_start == (virt_to_phys(HeapSym) + PageSize - 1) \div PageSize
heap_end ==
  LET wanted == heap_start * PageSize + MaxHeap
      limit  == virt_to_phys(StackLimit)
  IN  (IF wanted > limit THEN limit ELSE wanted) \div PageSize

HeapFrames == heap_start .. (heap_end - 1)

\* A faulty variant: the loop runs one page past the end.
page_allocator_init_PastEnd ==
  LET frames == IF heap_end > heap_start THEN heap_end - heap_start + 1 ELSE 0
  IN  /\ free_list = [i \in 1 .. frames |-> heap_start + i - 1]
      /\ free_page_count = frames

\* The list is built from the top down, so it starts out in ascending order.
page_allocator_init ==
  LET frames == IF heap_end > heap_start THEN heap_end - heap_start ELSE 0
  IN  /\ free_list = [i \in 1 .. frames |-> heap_start + i - 1]
      /\ free_page_count = frames

RunRet(f, n) == [ok |-> TRUE, frame |-> f, count |-> n]
NullRet(n) == [ok |-> FALSE, frame |-> 0, count |-> n]

Init ==
  /\ page_allocator_init
  /\ held = {}
  /\ ret = NullRet(0)

-----------------------------------------------------------------------------
(***************************************************************************)
(* mem_alloc                                                               *)
(***************************************************************************)

\* Size rounded up to whole pages.  The source adds in 64 bits, so nothing
\* wraps for any 32-bit size.
PagesFor(size) == (size + PageSize - 1) \div PageSize

Run(f, n) == f .. (f + n - 1)

\* The positions of list s whose frames are in R, and the others.
Inside(s, R)  == {i \in 1 .. Len(s) : s[i] \in R}
Outside(s, R) == (1 .. Len(s)) \ Inside(s, R)

\* How many members of the position set P are at most i.
Rank(P, i) == Cardinality({j \in P : j <= i})

\* A faulty variant: the test for the end of the run is off by one, and its
\* last page stays linked.
Unlink_KeepLast(s, R) == SelectSeq(s, LAMBDA f : f \notin R \/ f + 1 \notin R)

\* List s with the frames of R unlinked, the others in the order they had.
Unlink(s, R) ==
  LET keep == Outside(s, R)
  IN  [m \in 1 .. Cardinality(keep) |->
         s[CHOOSE i \in keep : Rank(keep, i) = m]]

\* A faulty variant: a run that ends with the heap is not considered.
StartsRun_NotAtEnd(i, n) ==
  /\ free_list[i] + n < heap_end
  /\ Cardinality(Inside(free_list, Run(free_list[i], n))) = n

\* The list node at position i starts a run of n free frames in the heap.
StartsRun(i, n) ==
  /\ free_list[i] + n <= heap_end
  /\ Cardinality(Inside(free_list, Run(free_list[i], n))) = n

\* size = 0
AllocZero(size) ==
  /\ size = 0
  /\ ret' = NullRet(0)
  /\ UNCHANGED <<free_list, free_page_count, held>>

\* count > free_page_count
AllocTooMany(size) ==
  /\ size # 0
  /\ PagesFor(size) > free_page_count
  /\ ret' = NullRet(PagesFor(size))
  /\ UNCHANGED <<free_list, free_page_count, held>>

\* count == 1: the head of the list.
AllocOne(size) ==
  /\ size # 0
  /\ PagesFor(size) = 1
  /\ 1 <= free_page_count
  /\ free_list' = Tail(free_list)
  /\ free_page_count' = free_page_count - 1
  /\ held' = held \cup {Head(free_list)}
  /\ ret' = RunRet(Head(free_list), 1)

\* Several pages: the first node, in list order, that starts a run.
AllocRun(size) ==
  LET n == PagesFor(size) IN
  /\ size # 0
  /\ n # 1
  /\ n <= free_page_count
  /\ \E i \in 1 .. Len(free_list) :
       /\ StartsRun(i, n)
       /\ \A j \in 1 .. (i - 1) : ~ StartsRun(j, n)
       /\ free_list' = Unlink(free_list, Run(free_list[i], n))
       /\ free_page_count' = free_page_count - n
       /\ held' = held \cup Run(free_list[i], n)
       /\ ret' = RunRet(free_list[i], n)

\* Enough pages, but nowhere in a row.
AllocFragmented(size) ==
  LET n == PagesFor(size) IN
  /\ size # 0
  /\ n # 1
  /\ n <= free_page_count
  /\ \A i \in 1 .. Len(free_list) : ~ StartsRun(i, n)
  /\ ret' = NullRet(n)
  /\ UNCHANGED <<free_list, free_page_count, held>>

mem_alloc(size) ==
  \/ AllocZero(size)
  \/ AllocTooMany(size)
  \/ AllocOne(size)
  \/ AllocRun(size)
  \/ AllocFragmented(size)

-----------------------------------------------------------------------------
(***************************************************************************)
(* mem_free                                                                *)
(***************************************************************************)
Rejected(addr) ==
  LET phys == virt_to_phys(addr) IN
  \/ addr = 0
  \/ phys < heap_start * PageSize
  \/ phys >= heap_end * PageSize
  \/ phys % PageSize # 0

FrameOf(addr) == virt_to_phys(addr) \div PageSize

FreeIgnored(addr) ==
  /\ Rejected(addr)
  /\ UNCHANGED vars

\* A faulty variant: the counter is not adjusted.
FreePage_NoCount(addr) ==
  /\ ~ Rejected(addr)
  /\ FrameOf(addr) \in held
  /\ free_list' = <<FrameOf(addr)>> \o free_list
  /\ held' = held \ {FrameOf(addr)}
  /\ UNCHANGED <<free_page_count, ret>>

\* The caller's side of include/kernel/mem.h:48-49 is the conjunct on held:
\* it frees pages it was given, and each of them once.
FreePage(addr) ==
  /\ ~ Rejected(addr)
  /\ FrameOf(addr) \in held
  /\ free_list' = <<FrameOf(addr)>> \o free_list
  /\ free_page_count' = free_page_count + 1
  /\ held' = held \ {FrameOf(addr)}
  /\ UNCHANGED ret

mem_free(addr) == FreeIgnored(addr) \/ FreePage(addr)

Next ==
  \/ \E size \in Sizes : mem_alloc(size)
  \/ \E addr \in FreeArgs : mem_free(addr)

Spec == Init /\ [][Next]_vars

-----------------------------------------------------------------------------
Listed == {free_list[i] : i \in 1 .. Len(free_list)}

TypeOK ==
  /\ free_list \in Seq(HeapFrames)
  /\ free_page_count \in Nat
  /\ held \subseteq HeapFrames
  /\ ret \in [ok : BOOLEAN, frame : Int, count : Int]

(***************************************************************************)
(* Every frame of the heap is on the free list or in a caller's hands,     *)
(* never both and never twice on the list: no page is handed to two        *)
(* callers and none drops out of the heap, whatever the order of the       *)
(* single- and multi-page calls of mem_alloc and mem_free.                 *)
(***************************************************************************)
HeapPartition ==
  /\ Listed \cup held = HeapFrames
  /\ Listed \cap held = {}
  /\ \A i, j \in 1 .. Len(free_list) : free_list[i] = free_list[j] => i = j

(***************************************************************************)
(* free_page_count is the length of the list.  mem_alloc relies on it:     *)
(* with count = 1 it dereferences free_list after comparing only the       *)
(* counter.                                                                *)
(***************************************************************************)
CountExact == free_page_count = Len(free_list)

(***************************************************************************)
(* The allocator implements its contract: in particular the scan for a run *)
(* misses none, so NULL means that no run of that length is free.          *)
(***************************************************************************)
Heap == INSTANCE PageHeap WITH
  free <- Listed,
  Counts <- {PagesFor(size) : size \in Sizes}

HeapContract == Heap!HeapSpec
=============================================================================

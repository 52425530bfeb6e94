------------------------------ MODULE PageHeap ------------------------------
(***************************************************************************)
(* What the page allocator of src/kernel/mem.c promises its callers        *)
(* (include/kernel/mem.h:45-50): mem_alloc hands out a contiguous run of   *)
(* page frames nobody holds, it returns NULL only for size zero or when no *)
(* such run exists, and mem_free gives one frame back.  There is no free   *)
(* list, no counter and no interrupt here; PageAlloc implements this.      *)
(***************************************************************************)
EXTENDS Integers

CONSTANTS
  HeapFrames,   \* the frames between heap_start and heap_end
  Counts        \* the numbers of frames callers ask for

VARIABLES
  free,   \* frames that may be handed out
  held,   \* frames the callers own
  ret     \* what the last mem_alloc returned, and how much it was asked for

heapVars == <<free, held, ret>>

\* n frames from f on, and NULL for a request of n frames.
RunRet(f, n) == [ok |-> TRUE, frame |-> f, count |-> n]
NullRet(n) == [ok |-> FALSE, frame |-> 0, count |-> n]

\* The frames f, f+1, ..., f+n-1.
Run(f, n) == f .. (f + n - 1)

HeapInit ==
  /\ free = HeapFrames
  /\ held = {}
  /\ ret = NullRet(0)

Take(n) ==
  \E f \in free :
    /\ Run(f, n) \subseteq free
    /\ free' = free \ Run(f, n)
    /\ held' = held \cup Run(f, n)
    /\ ret' = RunRet(f, n)

\* NULL although pages were asked for: there is no run of n free frames.
Refuse(n) ==
  /\ \A f \in free : ~ (Run(f, n) \subseteq free)
  /\ ret' = NullRet(n)
  /\ UNCHANGED <<free, held>>

RefuseZero ==
  /\ ret' = NullRet(0)
  /\ UNCHANGED <<free, held>>

GiveBack(f) ==
  /\ free' = free \cup {f}
  /\ held' = held \ {f}
  /\ UNCHANGED ret

HeapNext ==
  \/ \E n \in Counts : Take(n) \/ Refuse(n)
  \/ RefuseZero
  \/ \E f \in held : GiveBack(f)

HeapSpec == HeapInit /\ [][HeapNext]_heapVars
=============================================================================

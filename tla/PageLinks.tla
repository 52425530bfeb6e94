----------------------------- MODULE PageLinks -----------------------------
(***************************************************************************)
(* The page allocator of src/kernel/mem.c at the level of its memory       *)
(* accesses.  The links of the free list live in the free pages            *)
(* themselves, a call is several steps, its caller can be preempted by the *)
(* timer between any two of them while sstatus.SIE is set, and the owner   *)
(* of a page may overwrite the link that was in it.  PageAlloc is what     *)
(* this is to implement: every call behaves as one step.                   *)
(*                                                                         *)
(* A page is named by its frame number, sizes are in pages.                *)
(***************************************************************************)
EXTENDS Integers, Sequences, FiniteSets, FiniteSetsExt

CONSTANTS
  N,         \* the heap is the frames 1 .. N
  Clients,   \* the processes that call the allocator
  Counts,    \* the numbers of pages they ask for
  Junk       \* what an owner writes over the first word of its page

ASSUME LinksAssumption == N \in Nat \ {0} /\ Counts \subseteq Nat

VARIABLES
  free_list,         \* the head pointer, NULL (0) or a frame
  next,              \* next[f]: the first word of frame f
  free_page_count,
  sie,               \* sstatus.SIE
  running,           \* the client the hart executes
  fresh,             \* clients that have not run yet
  pc, loc,           \* where each client is, and its local variables
  owned,             \* the frames each client holds (ghost)
  ret                \* the result of the last allocation (ghost)

heap == <<free_list, next, free_page_count>>
vars == <<free_list, next, free_page_count, sie, running, fresh, pc, loc, owned, ret>>

NULL == 0
Frames == 1 .. N

\* size: pages asked for; page: page, first or node; link: the frame whose
\* link is looked at, NULL standing for &free_list; status: the saved SIE;
\* entry: SIE when the function was called (ghost).
NoLocals == [size |-> 0, page |-> NULL, link |-> NULL, status |-> FALSE, entry |-> FALSE]

RunRet(f, n) == [ok |-> TRUE, frame |-> f, count |-> n]
NullRet(n) == [ok |-> FALSE, frame |-> 0, count |-> n]

\* The list as it can be walked from h, cut off after N + 1 nodes.
Walk(h) ==
  LET walk[k \in 0 .. N + 1, p \in Frames \cup {NULL, Junk}] ==
        IF k = 0 \/ p = NULL THEN <<>>
        ELSE IF p = Junk THEN <<Junk>>
        ELSE <<p>> \o walk[k - 1, next[p]]
  IN  walk[N + 1, h]

Run(f, n) == f .. (f + n - 1)

Init ==
  /\ free_list = 1
  /\ next = [f \in Frames |-> IF f = N THEN NULL ELSE f + 1]
  /\ free_page_count = N
  /\ running \in Clients
  /\ sie \in BOOLEAN
  /\ fresh = Clients \ {running}
  /\ pc = [c \in Clients |-> "idle"]
  /\ loc = [c \in Clients |-> NoLocals]
  /\ owned = [c \in Clients |-> {}]
  /\ ret = NullRet(0)

-----------------------------------------------------------------------------
At(c, label) == running = c /\ pc[c] = label
Goto(c, label) == pc' = [pc EXCEPT ![c] = label]

\* The steps of a call touch neither the scheduling nor, but for the two
\* masking functions, SIE.
Inside == UNCHANGED <<sie, running, fresh>>

\* A faulty variant: the allocator does not mask interrupts.
allocator_intr_off_NoMask(c) ==
  /\ loc' = [loc EXCEPT ![c].status = sie]
  /\ UNCHANGED sie

allocator_intr_off(c) ==
  /\ loc' = [loc EXCEPT ![c].status = sie]
  /\ sie' = FALSE

IntrOff(c) ==
  \E from \in {<<"a_off", "a_check">>, <<"f_off", "f_link">>} :
    /\ At(c, from[1])
    /\ allocator_intr_off(c)
    /\ Goto(c, from[2])
    /\ UNCHANGED <<heap, running, fresh, owned, ret>>

\* A faulty variant: interrupts are enabled whatever they were before.
allocator_intr_restore_Always(c) == sie' = TRUE

allocator_intr_restore(c) == sie' = IF loc[c].status THEN TRUE ELSE sie

\* The last step of every path that masked; the call returns.  From here on
\* the caller uses its pages ("allocated pages own all 4 KiB",
\* include/kernel/mem.h:37): the links left in them are overwritten.
Return(c) ==
  /\ At(c, "restore")
  /\ allocator_intr_restore(c)
  /\ Goto(c, "idle")
  /\ loc' = [loc EXCEPT ![c] = NoLocals]
  /\ next' = [f \in Frames |-> IF f \in owned[c] THEN Junk ELSE next[f]]
  /\ UNCHANGED <<free_list, free_page_count, running, fresh, owned, ret>>

-----------------------------------------------------------------------------
(***************************************************************************)
(* mem_alloc                                                               *)
(***************************************************************************)
CallAlloc(c, n) ==
  /\ At(c, "idle")
  /\ IF n = 0
     THEN ret' = NullRet(0) /\ UNCHANGED <<pc, loc>>
     ELSE /\ Goto(c, "a_off")
          /\ loc' = [loc EXCEPT ![c] = [NoLocals EXCEPT !.size = n, !.entry = sie]]
          /\ UNCHANGED ret
  /\ UNCHANGED <<heap, owned>> /\ Inside

Check(c) ==
  LET n == loc[c].size IN
  /\ At(c, "a_check")
  /\ \/ /\ n > free_page_count
        /\ ret' = NullRet(n)
        /\ Goto(c, "restore")
        /\ UNCHANGED loc
     \/ /\ n <= free_page_count
        /\ Goto(c, IF n = 1 THEN "a_pop" ELSE "a_try")
        /\ loc' = [loc EXCEPT ![c].page = free_list]
        /\ UNCHANGED ret
  /\ UNCHANGED <<heap, owned>> /\ Inside

\* free_list = page->next
Pop(c) ==
  LET page == loc[c].page IN
  /\ At(c, "a_pop")
  /\ free_list' = next[page]
  /\ owned' = [owned EXCEPT ![c] = @ \cup {page}]
  /\ ret' = RunRet(page, 1)
  /\ Goto(c, "a_dec")
  /\ UNCHANGED <<next, free_page_count, loc>> /\ Inside

\* A faulty variant: a page that starts no run is tried again and again.
Try_NoAdvance(c) ==
  LET first == loc[c].page
      n     == loc[c].size
      found == Cardinality({i \in DOMAIN Walk(free_list) :
                              Walk(free_list)[i] \in Run(first, n)})
  IN
  /\ At(c, "a_try")
  /\ IF first + n > N + 1 \/ found # n
     THEN UNCHANGED <<owned, ret, pc>>
     ELSE /\ owned' = [owned EXCEPT ![c] = @ \cup Run(first, n)]
          /\ ret' = RunRet(first, n)
          /\ Goto(c, "a_unlink")
  /\ UNCHANGED <<heap, loc>> /\ Inside

\* One iteration of the loop over first.  The inner loop, which only counts,
\* is one step.
Try(c) ==
  LET first == loc[c].page
      n     == loc[c].size
      found == Cardinality({i \in DOMAIN Walk(free_list) :
                              Walk(free_list)[i] \in Run(first, n)})
  IN
  /\ At(c, "a_try")
  /\ \/ /\ first = NULL
        /\ ret' = NullRet(n)
        /\ Goto(c, "restore")
        /\ UNCHANGED <<loc, owned>>
     \/ /\ first # NULL
        /\ first + n > N + 1 \/ found # n
        /\ loc' = [loc EXCEPT ![c].page = next[first]]
        /\ UNCHANGED <<pc, owned, ret>>
     \/ /\ first # NULL
        /\ first + n <= N + 1 /\ found = n
        /\ owned' = [owned EXCEPT ![c] = @ \cup Run(first, n)]
        /\ ret' = RunRet(first, n)
        /\ Goto(c, "a_unlink")
        /\ UNCHANGED loc
  /\ UNCHANGED heap /\ Inside

\* *link
Target(link) == IF link = NULL THEN free_list ELSE next[link]

\* One iteration of the loop over link.
Unlink(c) ==
  LET link  == loc[c].link
      page  == Target(link)
      inRun == page \in Run(loc[c].page, loc[c].size)
  IN
  /\ At(c, "a_unlink")
  /\ \/ /\ page = NULL
        /\ Goto(c, "a_dec")
        /\ UNCHANGED <<free_list, next, loc>>
     \/ /\ page # NULL /\ inRun
        /\ IF link = NULL
           THEN free_list' = next[page] /\ UNCHANGED next
           ELSE next' = [next EXCEPT ![link] = next[page]] /\ UNCHANGED free_list
        /\ UNCHANGED <<pc, loc>>
     \/ /\ page # NULL /\ ~ inRun
        /\ loc' = [loc EXCEPT ![c].link = page]
        /\ UNCHANGED <<free_list, next, pc>>
  /\ UNCHANGED <<free_page_count, owned, ret>> /\ Inside

Dec(c) ==
  /\ At(c, "a_dec")
  /\ free_page_count' = free_page_count - loc[c].size
  /\ Goto(c, "restore")
  /\ UNCHANGED <<free_list, next, loc, owned, ret>> /\ Inside

-----------------------------------------------------------------------------
(***************************************************************************)
(* mem_free, of a page the caller owns                                     *)
(***************************************************************************)
CallFree(c, f) ==
  /\ At(c, "idle")
  /\ f \in owned[c]
  /\ Goto(c, "f_off")
  /\ loc' = [loc EXCEPT ![c] = [NoLocals EXCEPT !.page = f, !.entry = sie]]
  /\ UNCHANGED <<heap, owned, ret>> /\ Inside

Link(c) ==
  /\ At(c, "f_link")
  /\ next' = [next EXCEPT ![loc[c].page] = free_list]
  /\ Goto(c, "f_push")
  /\ UNCHANGED <<free_list, free_page_count, loc, owned, ret>> /\ Inside

Push(c) ==
  /\ At(c, "f_push")
  /\ free_list' = loc[c].page
  /\ owned' = [owned EXCEPT ![c] = @ \ {loc[c].page}]
  /\ Goto(c, "f_inc")
  /\ UNCHANGED <<next, free_page_count, loc, ret>> /\ Inside

Inc(c) ==
  /\ At(c, "f_inc")
  /\ free_page_count' = free_page_count + 1
  /\ Goto(c, "restore")
  /\ UNCHANGED <<free_list, next, loc, owned, ret>> /\ Inside

-----------------------------------------------------------------------------
(***************************************************************************)
(* The callers and the timer                                               *)
(***************************************************************************)

\* The boot code unmasks (intr_on); a process does so by being resumed.
intr_on ==
  /\ pc[running] = "idle"
  /\ sie' = TRUE
  /\ UNCHANGED <<heap, running, fresh, pc, loc, owned, ret>>

\* A tick switches to another process.  One that was preempted before comes
\* back through sret, which sets SIE; one that never ran starts with SIE
\* clear, as the trap left it.
Preempt(c) ==
  /\ sie
  /\ c # running
  /\ running' = c
  /\ sie' = (c \notin fresh)
  /\ fresh' = fresh \ {c}
  /\ UNCHANGED <<heap, pc, loc, owned, ret>>

InCall(c) ==
  \/ IntrOff(c) \/ Return(c)
  \/ Check(c) \/ Pop(c) \/ Try(c) \/ Unlink(c) \/ Dec(c)
  \/ Link(c) \/ Push(c) \/ Inc(c)

Next ==
  \/ \E c \in Clients :
       \/ \E n \in Counts : CallAlloc(c, n)
       \/ \E f \in Frames : CallFree(c, f)
       \/ InCall(c)
       \/ Preempt(c)
  \/ intr_on

\* The hart keeps executing instructions.
Spec == Init /\ [][Next]_vars /\ WF_vars(InCall(running))

-----------------------------------------------------------------------------
(***************************************************************************)
(* The refinement.  A call takes effect when it decides (Check, Try), takes*)
(* the head (Pop) or stores the new head (Push); until it has unlinked its *)
(* run and adjusted the counter, the abstract list and count are what they *)
(* are about to be.                                                        *)
(***************************************************************************)
Unlinking == {c \in Clients : pc[c] = "a_unlink"}
Leaving == UNION {Run(loc[c].page, loc[c].size) : c \in Unlinking}

AbsList == SelectSeq(Walk(free_list), LAMBDA f : f \notin Leaving)

AbsCount ==
  free_page_count
    - MapThenSumSet(LAMBDA c : loc[c].size, {c \in Clients : pc[c] \in {"a_unlink", "a_dec"}})
    + Cardinality({c \in Clients : pc[c] = "f_inc"})

Alloc == INSTANCE PageAlloc WITH
  PageSize <- 1, HeapSym <- 1, StackLimit <- N + 1, MaxHeap <- N,
  VirtOffset <- N + 2, KernelBase <- N + 2,
  Sizes <- Counts, FreeArgs <- Frames,
  free_list <- AbsList, free_page_count <- AbsCount,
  held <- UNION {owned[c] : c \in Clients}

(***************************************************************************)
(* Every call takes effect in one step, although the timer preempts its    *)
(* caller and the owners of pages overwrite the links in them ("Mask       *)
(* S-mode interrupts so a timer-driven context switch cannot interrupt a   *)
(* free-list update", src/kernel/mem.c:44-45).                             *)
(***************************************************************************)
CallsAtomic == Alloc!Spec

(***************************************************************************)
(* mem_alloc and mem_free return with SIE as it was when they were called, *)
(* from masked boot code and from a process that runs unmasked, even if    *)
(* the caller was preempted between the call and the masking               *)
(* (allocator_intr_off, allocator_intr_restore).                           *)
(***************************************************************************)
MaskRestored ==
  [][\A c \in Clients : At(c, "restore") /\ pc'[c] = "idle" => sie' = loc[c].entry]_vars

(***************************************************************************)
(* A call that has masked interrupts returns: neither walk of the list     *)
(* runs in a circle, and nothing else gets the hart meanwhile.             *)
(***************************************************************************)
MaskedCallReturns ==
  \A c \in Clients : pc[c] \notin {"idle", "a_off", "f_off"} ~> pc[c] = "idle"
=============================================================================

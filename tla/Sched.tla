------------------------------- MODULE Sched -------------------------------
(***************************************************************************)
(* Processes, the scheduler, the context switch and the timer interrupt on *)
(* the one hart: src/kernel/process.c, src/asm/process.S, src/asm/trap.S,  *)
(* the timer part of src/kernel/trap.c, src/asm/mtrap.S, and main from the *)
(* arming of the timer on.                                                 *)
(*                                                                         *)
(* The hart is somewhere in the code (pc), on some stack (stk), with some  *)
(* live registers (reg).  swtch saves and loads these one after the other, *)
(* and a trap pushes them in a frame on the stack it finds.  SIE is a      *)
(* global bit that swtch does not touch.                                   *)
(*                                                                         *)
(* Stack 0 is the boot stack, on which main and the scheduler run; process *)
(* slots, and their stacks, are 1 .. NPROC.                                *)
(***************************************************************************)
EXTENDS Integers, FiniteSets

CONSTANTS
  NPROC,        \* slots of the process table
  Tasks,        \* how many times main calls proc_create
  MaxWork,      \* a task does at most this many steps
  WindowTicks   \* may the timer interrupt the scheduler between the store
                \* to current_process and the end of swtch?

ASSUME SchedAssumption ==
  /\ NPROC \in Nat /\ Tasks \in Nat /\ MaxWork \in Nat
  /\ WindowTicks \in BOOLEAN

VARIABLES
  state,           \* procs[s].state
  current,         \* current_process, 0 for NULL
  context,         \* procs[s].context
  sched_context,
  pc, stk, reg,    \* the hart: where, on which stack, with which registers
  frame,           \* frame[k]: the trap frame last pushed on stack k
  sie,             \* sstatus.SIE
  mtie, stip,      \* the timer is armed (MTIE) / pending for S-mode (STIP)
  made, pages,     \* calls of proc_create done, pages left for stacks
  work,            \* work[s]: what is left to do for the task of s
  passed           \* passed[s]: who was dispatched while s waits (ghost)

procs == <<state, current, context, sched_context>>
hart == <<pc, stk, reg>>
timer == <<mtie, stip>>
env == <<made, pages, work>>
vars == <<procs, hart, frame, sie, timer, env, passed>>

Slots == 1 .. NPROC
Stacks == 0 .. NPROC
NULL == 0
Boot == 0

\* p and ret: the local p of yield (and of proc_create) and where yield
\* returns to; i and found: the locals of scheduler.
NoReg == [p |-> NULL, ret |-> "lost", i |-> 1, found |-> FALSE]

\* A context of all zeros: switching to it jumps to address 0.
Zero == [pc |-> "lost", stk |-> Boot, i |-> 1]

Init ==
  /\ state = [s \in Slots |-> "UNUSED"]
  /\ current = NULL
  /\ context = [s \in Slots |-> Zero]
  /\ sched_context = Zero
  /\ pc = "m_timer" /\ stk = Boot /\ reg = NoReg
  /\ frame = [k \in Stacks |-> [pc |-> "lost", reg |-> NoReg]]
  /\ sie = FALSE
  /\ mtie = FALSE /\ stip = FALSE
  /\ made = 0 /\ pages \in 0 .. NPROC
  /\ work \in [Slots -> 0 .. MaxWork]
  /\ passed = [s \in Slots |-> {}]

\* A step of the instruction stream that only moves on to label.
Goto(label) == pc' = label /\ UNCHANGED stk

-----------------------------------------------------------------------------
(***************************************************************************)
(* The timer.  set_timer's ecall programs mtimecmp, clears STIP and sets   *)
(* MTIE; the machine timer interrupt turns the one into the other.  When   *)
(* it fires is not modelled: it may at any time while it is armed.         *)
(***************************************************************************)
\* A faulty variant: MTIE is not set again.
set_timer_NoArm == mtie' = mtie /\ stip' = FALSE

set_timer == mtie' = TRUE /\ stip' = FALSE

handle_m_interrupt ==
  /\ mtie
  /\ mtie' = FALSE
  /\ stip' = TRUE
  /\ UNCHANGED <<procs, hart, frame, sie, env, passed>>

\* After current_process = p the scheduler is still on its own stack, and
\* p->context is not loaded yet.
InWindow == stk = Boot /\ pc \in {"s_save", "s_load"}

\* The hardware and trap_vector: mask, push the frame, enter the handler.
trap_vector ==
  /\ stip /\ sie /\ pc # "lost"
  /\ WindowTicks \/ ~ InWindow
  /\ sie' = FALSE
  /\ frame' = [frame EXCEPT ![stk] = [pc |-> pc, reg |-> reg]]
  /\ reg' = NoReg
  /\ Goto("t_timer")
  /\ UNCHANGED <<procs, timer, env, passed>>

\* handle_timer_interrupt: set the next tick, then yield.
handle_timer_interrupt ==
  /\ pc = "t_timer"
  /\ set_timer
  /\ reg' = [reg EXCEPT !.ret = "t_ret"]
  /\ Goto("y_read")
  /\ UNCHANGED <<procs, frame, sie, env, passed>>

\* A faulty variant: sstatus is not restored before sret.
TrapReturn_Masked ==
  /\ pc = "t_ret"
  /\ Goto(frame[stk].pc)
  /\ reg' = frame[stk].reg
  /\ UNCHANGED <<procs, frame, sie, timer, env, passed>>

\* The rest of trap_vector.  sret sets SIE from SPIE, which is set: the trap
\* was taken.
TrapReturn ==
  /\ pc = "t_ret"
  /\ Goto(frame[stk].pc)
  /\ reg' = frame[stk].reg
  /\ sie' = TRUE
  /\ UNCHANGED <<procs, frame, timer, env, passed>>

-----------------------------------------------------------------------------
(***************************************************************************)
(* main: set_timer, enable_timer_interrupt and intr_on, proc_init, the     *)
(* calls of proc_create, scheduler.                                        *)
(***************************************************************************)
ArmTimer ==
  /\ pc = "m_timer"
  /\ set_timer
  /\ Goto("m_on")
  /\ UNCHANGED <<procs, reg, frame, sie, env, passed>>

intr_on ==
  /\ pc = "m_on"
  /\ sie' = TRUE
  /\ Goto("m_init")
  /\ UNCHANGED <<procs, reg, frame, timer, env, passed>>

proc_init ==
  /\ pc = "m_init"
  /\ state' = [s \in Slots |-> "UNUSED"]
  /\ context' = [s \in Slots |-> Zero]
  /\ sched_context' = Zero
  /\ current' = NULL
  /\ Goto("m_create")
  /\ UNCHANGED <<reg, frame, sie, timer, env, passed>>

Unused(s) == state[s] = "UNUSED"

\* proc_create up to the stack allocation: the first unused slot, then a
\* page; either may be missing.
ProcAlloc ==
  /\ pc = "m_create" /\ made < Tasks
  /\ \/ /\ pages = 0 \/ \A s \in Slots : ~ Unused(s)
        /\ made' = made + 1
        /\ UNCHANGED <<pc, stk, reg, pages>>
     \/ /\ pages > 0
        /\ \E s \in Slots :
             /\ Unused(s)
             /\ \A t \in Slots : t < s => ~ Unused(t)
             /\ reg' = [reg EXCEPT !.p = s]
        /\ pages' = pages - 1
        /\ Goto("c_state")
        /\ UNCHANGED made
  /\ UNCHANGED <<procs, frame, sie, timer, work, passed>>

\* The process is published as runnable before it has a context.
ProcPublish ==
  /\ pc = "c_state"
  /\ state' = [state EXCEPT ![reg.p] = "RUNNABLE"]
  /\ passed' = [passed EXCEPT ![reg.p] = {}]
  /\ Goto("c_context")
  /\ UNCHANGED <<current, context, sched_context, reg, frame, sie, timer, env>>

\* A faulty variant: the stack pointer is left zero.
ProcContext_NoStack ==
  /\ pc = "c_context"
  /\ context' = [context EXCEPT ![reg.p] = [pc |-> "forkret", stk |-> Boot, i |-> 1]]
  /\ made' = made + 1
  /\ reg' = NoReg
  /\ Goto("m_create")
  /\ UNCHANGED <<state, current, sched_context, frame, sie, timer, pages, work, passed>>

ProcContext ==
  /\ pc = "c_context"
  /\ context' = [context EXCEPT ![reg.p] = [pc |-> "forkret", stk |-> reg.p, i |-> 1]]
  /\ made' = made + 1
  /\ reg' = NoReg
  /\ Goto("m_create")
  /\ UNCHANGED <<state, current, sched_context, frame, sie, timer, pages, work, passed>>

StartScheduler ==
  /\ pc = "m_create" /\ made = Tasks
  /\ Goto("s_top")
  /\ UNCHANGED <<procs, reg, frame, sie, timer, env, passed>>

-----------------------------------------------------------------------------
(***************************************************************************)
(* swtch, in two steps: save what the caller runs on, load the other.      *)
(***************************************************************************)
\* A faulty variant: the callee-saved registers are left out.
Saved_NoRegs(resume) == [pc |-> resume, stk |-> stk, i |-> 1]

Saved(resume) == [pc |-> resume, stk |-> stk, i |-> reg.i]

Load(c) ==
  /\ pc' = c.pc
  /\ stk' = c.stk
  /\ reg' = [NoReg EXCEPT !.i = c.i]

-----------------------------------------------------------------------------
(***************************************************************************)
(* scheduler                                                               *)
(***************************************************************************)
PassBegins ==
  /\ pc = "s_top"
  /\ reg' = [reg EXCEPT !.i = 1, !.found = FALSE]
  /\ Goto("s_test")
  /\ UNCHANGED <<procs, frame, sie, timer, env, passed>>

Skip ==
  /\ pc = "s_test" /\ reg.i <= NPROC
  /\ state[reg.i] # "RUNNABLE"
  /\ reg' = [reg EXCEPT !.i = @ + 1]
  /\ UNCHANGED <<pc, stk, procs, frame, sie, timer, env, passed>>

Pick ==
  /\ pc = "s_test" /\ reg.i <= NPROC
  /\ state[reg.i] = "RUNNABLE"
  /\ state' = [state EXCEPT ![reg.i] = "RUNNING"]
  /\ passed' = [s \in Slots |-> IF s # reg.i /\ state[s] = "RUNNABLE"
                                THEN passed[s] \cup {reg.i} ELSE {}]
  /\ Goto("s_current")
  /\ UNCHANGED <<current, context, sched_context, reg, frame, sie, timer, env>>

SetCurrent ==
  /\ pc = "s_current"
  /\ current' = reg.i
  /\ Goto("s_save")
  /\ UNCHANGED <<state, context, sched_context, reg, frame, sie, timer, env, passed>>

SchedSave ==
  /\ pc = "s_save"
  /\ sched_context' = Saved("s_back")
  /\ Goto("s_load")
  /\ UNCHANGED <<state, current, context, reg, frame, sie, timer, env, passed>>

SchedLoad ==
  /\ pc = "s_load"
  /\ Load(context[reg.i])
  /\ UNCHANGED <<procs, frame, sie, timer, env, passed>>

\* Faulty variants: found is not set; the loop starts over after every
\* process.
SchedBackWith(found, next) ==
  /\ pc = "s_back"
  /\ current' = NULL
  /\ reg' = [reg EXCEPT !.found = found, !.i = next]
  /\ Goto("s_test")
  /\ UNCHANGED <<state, context, sched_context, frame, sie, timer, env, passed>>

SchedBack_NotFound == SchedBackWith(reg.found, reg.i + 1)

SchedBack_StartOver == SchedBackWith(TRUE, 1)

SchedBack ==
  /\ pc = "s_back"
  /\ current' = NULL
  /\ reg' = [reg EXCEPT !.found = TRUE, !.i = @ + 1]
  /\ Goto("s_test")
  /\ UNCHANGED <<state, context, sched_context, frame, sie, timer, env, passed>>

Active == \E s \in Slots : state[s] \notin {"UNUSED", "ZOMBIE"}

\* A faulty variant: the scheduler is never left.
PassEnds_Forever ==
  /\ pc = "s_test" /\ reg.i > NPROC
  /\ Goto("s_top")
  /\ reg' = NoReg
  /\ UNCHANGED <<procs, frame, sie, timer, env, passed>>

\* After a pass: go round again if it found something, leave the scheduler
\* if nobody is active, otherwise wfi, which may return at any time, and go
\* round again.
PassEnds ==
  /\ pc = "s_test" /\ reg.i > NPROC
  /\ Goto(IF reg.found \/ Active THEN "s_top" ELSE "ended")
  /\ reg' = NoReg
  /\ UNCHANGED <<procs, frame, sie, timer, env, passed>>

-----------------------------------------------------------------------------
(***************************************************************************)
(* yield, called by handle_timer_interrupt and at the end of forkret       *)
(***************************************************************************)
YieldRead ==
  /\ pc = "y_read"
  /\ reg' = [reg EXCEPT !.p = current]
  /\ Goto(IF current = NULL THEN reg.ret ELSE "y_state")
  /\ UNCHANGED <<procs, frame, sie, timer, env, passed>>

YieldState ==
  /\ pc = "y_state"
  /\ IF state[reg.p] = "RUNNING"
     THEN /\ state' = [state EXCEPT ![reg.p] = "RUNNABLE"]
          /\ passed' = [passed EXCEPT ![reg.p] = {}]
     ELSE UNCHANGED <<state, passed>>
  /\ Goto("y_clear")
  /\ UNCHANGED <<current, context, sched_context, reg, frame, sie, timer, env>>

YieldClear ==
  /\ pc = "y_clear"
  /\ current' = NULL
  /\ Goto("y_save")
  /\ UNCHANGED <<state, context, sched_context, reg, frame, sie, timer, env, passed>>

YieldSave ==
  /\ pc = "y_save"
  /\ context' = [context EXCEPT ![reg.p] = Saved(reg.ret)]
  /\ Goto("y_load")
  /\ UNCHANGED <<state, current, sched_context, reg, frame, sie, timer, env, passed>>

YieldLoad ==
  /\ pc = "y_load"
  /\ Load(sched_context)
  /\ UNCHANGED <<procs, frame, sie, timer, env, passed>>

-----------------------------------------------------------------------------
(***************************************************************************)
(* forkret and the task it calls                                           *)
(***************************************************************************)
\* A faulty variant: interrupts are enabled, as after any other trap.
forkret_On ==
  /\ pc = "forkret"
  /\ Goto(IF current # NULL THEN "task" ELSE "f_exit")
  /\ sie' = TRUE
  /\ UNCHANGED <<procs, reg, frame, timer, env, passed>>

\* SIE stays as the scheduler had it.
forkret ==
  /\ pc = "forkret"
  /\ Goto(IF current # NULL THEN "task" ELSE "f_exit")
  /\ UNCHANGED <<procs, reg, frame, sie, timer, env, passed>>

\* A step of the task on whose stack the hart is.
TaskStep ==
  /\ pc = "task" /\ work[stk] > 0
  /\ work' = [work EXCEPT ![stk] = @ - 1]
  /\ UNCHANGED <<procs, hart, frame, sie, timer, made, pages, passed>>

TaskReturns ==
  /\ pc = "task" /\ work[stk] = 0
  /\ Goto("f_exit")
  /\ UNCHANGED <<procs, reg, frame, sie, timer, env, passed>>

\* Line 26, where yield would return to, is "f_spin": nothing happens there.
ForkretExit ==
  /\ pc = "f_exit"
  /\ state' = IF current # NULL THEN [state EXCEPT ![current] = "ZOMBIE"] ELSE state
  /\ reg' = [reg EXCEPT !.ret = "f_spin"]
  /\ Goto("y_read")
  /\ UNCHANGED <<current, context, sched_context, frame, sie, timer, env, passed>>

-----------------------------------------------------------------------------
\* main has returned; the hart stays in the loop at the end of Start.S.
Halted == pc = "ended" /\ UNCHANGED vars

Handler == handle_timer_interrupt \/ TrapReturn
yield == YieldRead \/ YieldState \/ YieldClear \/ YieldSave \/ YieldLoad
main == ArmTimer \/ intr_on \/ proc_init \/ ProcAlloc \/ ProcPublish \/ ProcContext
        \/ StartScheduler
scheduler == PassBegins \/ Skip \/ Pick \/ SetCurrent \/ SchedSave \/ SchedLoad
             \/ SchedBack \/ PassEnds
Process == forkret \/ TaskStep \/ TaskReturns \/ ForkretExit

Instruction == Handler \/ yield \/ main \/ scheduler \/ Process

Next == Instruction \/ trap_vector \/ handle_m_interrupt \/ Halted

Spec == Init /\ [][Next]_vars

(***************************************************************************)
(* Fairness.  The hart executes the handler and yield's tail while it is   *)
(* masked (WF).  Elsewhere a tick can come before every single step; but   *)
(* set_timer puts the next one 10,000,000 cycles away, so whoever is given *)
(* the processor over and over does get to execute (SF, per stack).        *)
(***************************************************************************)
InHandler ==
  \/ pc \in {"t_timer", "t_ret"}
  \/ pc \in {"y_read", "y_state", "y_clear", "y_save", "y_load"} /\ reg.ret = "t_ret"

On(k) == stk = k /\ ~ InHandler /\ Instruction

Fairness ==
  /\ WF_vars(Instruction)
  /\ \A k \in Stacks : SF_vars(On(k))

FairSpec == Spec /\ Fairness

-----------------------------------------------------------------------------
\* proc_create has published slot s and not filled in its context yet.
BeingCreated(s) ==
  LET r == IF stk = Boot /\ pc \in {"t_timer", "t_ret", "y_read"}
           THEN [pc |-> frame[Boot].pc, p |-> frame[Boot].reg.p]
           ELSE [pc |-> pc, p |-> reg.p]
  IN  r.pc = "c_context" /\ r.p = s

(***************************************************************************)
(* Every process that waits for the processor has a context that resumes   *)
(* it on its own stack, in forkret or in the trap that preempted it, and   *)
(* the hart is on a process's stack only while that process is the current *)
(* one or is leaving through yield (proc_create, swtch, scheduler, yield). *)
(***************************************************************************)
OwnStack ==
  /\ \A s \in Slots :
       state[s] = "RUNNABLE" /\ stk # s /\ ~ BeingCreated(s)
         => context[s].stk = s /\ context[s].pc \in {"forkret", "t_ret"}
  /\ stk # Boot /\ current # NULL => current = stk
  /\ stk # Boot /\ pc \in {"forkret", "task", "f_exit"} =>
       current = stk /\ state[stk] = "RUNNING"

(***************************************************************************)
(* "Switch context from the current process back to the scheduler"         *)
(* (src/kernel/process.c:140): when yield is about to load sched_context,  *)
(* that is the context the scheduler saved when it dispatched this very    *)
(* process, so that the pass goes on after its slot.                       *)
(***************************************************************************)
SwitchesToScheduler ==
  pc = "y_load" => sched_context = [pc |-> "s_back", stk |-> Boot, i |-> reg.p]

(***************************************************************************)
(* swtch does not save sstatus, and the scheduler may run masked; still a  *)
(* process that has been preempted once executes with interrupts enabled   *)
(* from then on, so that it can be preempted again (trap_vector, sret).    *)
(***************************************************************************)
ResumedUnmasked ==
  pc \in {"task", "f_exit"} /\ frame[stk].pc # "lost" => sie

(***************************************************************************)
(* At most one process at a time is suspended in the middle of a trap: the *)
(* scheduler that a tick leads to runs masked, and so does a process that  *)
(* it starts, from forkret to its end (swtch and forkret leave SIE alone). *)
(* What tasks do in two steps, like uart_putc, is so never cut by more     *)
(* than one other.                                                         *)
(***************************************************************************)
PreemptedAlone ==
  Cardinality({s \in Slots : state[s] = "RUNNABLE" /\ context[s].pc = "t_ret"}) <= 1

(***************************************************************************)
(* The timer never dies: once armed it stays either armed or pending, and  *)
(* never both, through every order of ticks and set_timer (mtrap_vector,   *)
(* handle_timer_interrupt).                                                *)
(***************************************************************************)
TimerAlive == pc # "m_timer" => mtie # stip

\* The scheduler never finds an active process that it cannot run: it does
\* not come to the wfi of src/kernel/process.c:126-127.
NobodyStranded == pc = "s_test" /\ reg.i > NPROC /\ ~ reg.found => ~ Active

(***************************************************************************)
(* Every process that proc_create made finishes and scheduler returns to   *)
(* main, whenever the ticks come.                                          *)
(***************************************************************************)
AllFinish == <>(pc = "ended" /\ \A s \in Slots : state[s] \in {"UNUSED", "ZOMBIE"})

(***************************************************************************)
(* The subsystem implements RoundRobin: one process at a time, progress    *)
(* only by the running one, and nobody dispatched twice while another      *)
(* waits (scheduler's loop, resumed in the middle by swtch).               *)
(***************************************************************************)
RR == INSTANCE RoundRobin

RoundRobinContract == RR!RRSpec
=============================================================================

---------------------------- MODULE SchedProofs ----------------------------
(***************************************************************************)
(* Proofs about Sched, for every number of slots and of tasks.             *)
(*                                                                         *)
(* First the timer, which never dies, with ticks in the switch window,     *)
(* too.  TimerAlive says nothing of the time before the timer is first     *)
(* set, so it holds only if no return address, saved context or frame      *)
(* leads back there.  For this TInv follows where the locals of            *)
(* proc_create, scheduler and yield are used as indices, whatever they     *)
(* were saved in.                                                          *)
(*                                                                         *)
(* Then the switch, with ticks anywhere but in the window: processes run   *)
(* on their own stacks, yield returns to the scheduler that dispatched it, *)
(* a preempted process runs unmasked when it is resumed, and at most one   *)
(* is preempted at a time.  None of these is inductive; SInv is.  It says  *)
(* where the hart can be on each stack and what current_process and the    *)
(* state of the process are there: on the boot stack main and the          *)
(* scheduler, or a handler that interrupted them; on the stack of a        *)
(* process forkret, its task and its yield, or a handler that interrupted  *)
(* those.  The mask ties the stacks together: while a process is suspended *)
(* in a trap nobody else unmasks.                                          *)
(***************************************************************************)
EXTENDS Sched, FiniteSetTheorems, TLAPS

\* Where proc_create and yield use p, and scheduler uses i, as an index.
UsesP == {"c_state", "c_context", "y_state", "y_clear", "y_save", "y_load"}
UsesI == {"s_current", "s_save", "s_load"}

Plain ==
  {"m_on", "m_init", "m_create", "s_top", "s_test", "s_back", "ended",
   "y_read", "t_timer", "t_ret", "forkret", "task", "f_exit", "f_spin", "lost"}

Labels == Plain \cup UsesP \cup UsesI

Returns == {"lost", "t_ret", "f_spin"}
Regs == [p : Stacks, ret : Returns, i : Nat \ {0}, found : BOOLEAN]

\* At label l the locals r index the process table where they have to.
Indexed(l, r) ==
  /\ l \in UsesP => r.p \in Slots
  /\ l \in UsesI => r.i \in Slots

Contexts == [pc : Plain, stk : Stacks, i : Nat \ {0}]

Frames == {f \in [pc : Labels, reg : Regs] : Indexed(f.pc, f.reg)}

\* What is saved, and the place the hart is at.
Typed ==
  /\ pc \in Labels \cup {"m_timer"} /\ stk \in Stacks /\ reg \in Regs
  /\ Indexed(pc, reg)
  /\ current \in Stacks
  /\ context \in [Slots -> Contexts] /\ sched_context \in Contexts
  /\ frame \in [Stacks -> Frames]

Timer ==
  /\ mtie \in BOOLEAN /\ stip \in BOOLEAN
  /\ pc = "m_timer" => ~ sie /\ ~ mtie
  /\ pc # "m_timer" => mtie # stip

TInv == Typed /\ Timer

-----------------------------------------------------------------------------
(***************************************************************************)
(* The timer                                                               *)
(***************************************************************************)
\* The boot stack is no slot, and its number is the null pointer.
LEMMA NotBoot == Boot \notin Slots /\ Stacks = Slots \cup {Boot} /\ NULL = Boot
  BY SchedAssumption DEF Boot, Slots, Stacks, NULL

\* A slot is a number the loop of scheduler goes through.
LEMMA SlotNumbers == \A i \in Nat \ {0} : i <= NPROC <=> i \in Slots
  BY SchedAssumption DEF Slots

\* The empty locals, and a context of zeros, are well formed.
LEMMA Fresh == NoReg \in Regs /\ Zero \in Contexts /\ NoReg.ret = "lost"
  <1>1. NoReg \in Regs
    BY NotBoot DEF NoReg, Regs, Returns
  <1>2. Zero \in Contexts
    BY NotBoot DEF Zero, Contexts, Plain
  <1> QED
    BY <1>1, <1>2, Zenon DEF NoReg

\* What the locals are.
LEMMA Fields ==
  ASSUME NEW r \in Regs
  PROVE  r.p \in Stacks /\ r.ret \in Returns /\ r.i \in Nat \ {0}
  BY Zenon DEF Regs

\* The writes of the scheduler to its locals.
LEMMA LoopLocals ==
  ASSUME NEW r \in Regs, NEW i \in Nat \ {0}, NEW f \in BOOLEAN
  PROVE  /\ [r EXCEPT !.i = i, !.found = f] \in Regs
         /\ [r EXCEPT !.found = f, !.i = i] \in Regs
  <1>1. [r EXCEPT !.i = i] \in Regs
    BY Zenon DEF Regs
  <1>2. [r EXCEPT !.found = f] \in Regs
    BY Zenon DEF Regs
  <1>3. [r EXCEPT !.i = i, !.found = f] = [[r EXCEPT !.i = i] EXCEPT !.found = f]
    OBVIOUS
  <1>4. [r EXCEPT !.found = f, !.i = i] = [[r EXCEPT !.found = f] EXCEPT !.i = i]
    OBVIOUS
  <1>5. \A q \in Regs : [q EXCEPT !.i = i] \in Regs /\ [q EXCEPT !.found = f] \in Regs
    BY Zenon DEF Regs
  <1> QED
    BY <1>1, <1>2, <1>3, <1>4, <1>5, Zenon

\* The locals after swtch has loaded a context.
LEMMA Loaded ==
  ASSUME NEW c \in Contexts
  PROVE  [NoReg EXCEPT !.i = c.i] \in Regs
  <1>1. c.i \in Nat \ {0}
    BY Zenon DEF Contexts
  <1> QED
    BY <1>1, Fresh, Zenon DEF Regs

\* What swtch saves in a context.
LEMMA SavedTyped ==
  ASSUME TInv, NEW l \in Plain
  PROVE  Saved(l) \in Contexts
  <1>1. stk \in Stacks /\ reg \in Regs
    BY Zenon DEF TInv, Typed
  <1>2. reg.i \in Nat \ {0}
    BY <1>1, Fields, Zenon
  <1> QED
    BY <1>1, <1>2, Zenon DEF Saved, Contexts

\* A plain label is a label, where nothing is used as an index.
LEMMA PlainLabels ==
  ASSUME NEW l \in Plain
  PROVE  l \in Labels /\ l \notin UsesP /\ l \notin UsesI /\ l # "m_timer"
  BY Zenon DEF Plain, Labels, UsesP, UsesI

\* The places a step can move to once the timer is set.
LEMMA Moves ==
  ASSUME TInv, pc # "m_timer",
         pc' \in Labels, stk' \in Stacks, reg' \in Regs, Indexed(pc', reg'),
         current' \in Stacks, context' \in [Slots -> Contexts], sched_context' \in Contexts,
         frame' \in [Stacks -> Frames],
         UNCHANGED timer \/ set_timer
  PROVE  TInv'
  <1>1. Typed'
    BY Zenon DEF Typed
  <1>2. pc' # "m_timer"
    BY Zenon DEF Labels, Plain, UsesP, UsesI
  <1>3. Timer'
    BY <1>2, Zenon DEF TInv, Timer, timer, set_timer
  <1> QED
    BY <1>1, <1>3, Zenon DEF TInv

\* A step that stays on its stack and leaves what is saved alone.
LEMMA Advances ==
  ASSUME TInv, pc # "m_timer", UNCHANGED <<stk, procs, frame, timer>>,
         reg' \in Regs, pc' \in Labels, Indexed(pc', reg')
  PROVE  TInv'
  <1>1. /\ stk' \in Stacks /\ current' \in Stacks
        /\ context' \in [Slots -> Contexts] /\ sched_context' \in Contexts
        /\ frame' \in [Stacks -> Frames]
    BY Zenon DEF TInv, Typed, procs
  <1> QED
    BY <1>1, Moves, Zenon

\* The same, to a place where no local is used as an index.
LEMMA Jumps ==
  ASSUME TInv, pc # "m_timer", UNCHANGED <<stk, procs, frame, timer>>,
         reg' \in Regs, pc' \in Plain
  PROVE  TInv'
  <1>1. pc' \in Labels /\ Indexed(pc', reg')
    BY PlainLabels, Zenon DEF Indexed
  <1> QED
    BY <1>1, Advances, Zenon

\* The end of swtch.
LEMMA Loads ==
  ASSUME TInv, pc # "m_timer", NEW c \in Contexts, Load(c), UNCHANGED <<procs, frame, timer>>
  PROVE  TInv'
  <1>1. pc' \in Plain /\ stk' \in Stacks /\ reg' \in Regs
    BY Loaded, Zenon DEF Load, Contexts
  <1>2. pc' \in Labels /\ Indexed(pc', reg')
    BY <1>1, PlainLabels, Zenon DEF Indexed
  <1>3. /\ current' \in Stacks
        /\ context' \in [Slots -> Contexts] /\ sched_context' \in Contexts
        /\ frame' \in [Stacks -> Frames]
    BY Zenon DEF TInv, Typed, procs
  <1> QED
    BY <1>1, <1>2, <1>3, Moves, Zenon

\* The boot begins well formed, with the timer off and interrupts masked.
LEMMA InitTyped == Init => TInv
  <1> SUFFICES ASSUME Init PROVE TInv
    OBVIOUS
  <1>1. [pc |-> "lost", reg |-> NoReg] \in Frames
    BY Fresh, PlainLabels, Zenon DEF Frames, Indexed, Plain
  <1>2. frame \in [Stacks -> Frames]
    BY <1>1, Zenon DEF Init
  <1>3. Indexed(pc, reg)
    BY Zenon DEF Init, Indexed, UsesP, UsesI
  <1>4. context \in [Slots -> Contexts] /\ sched_context \in Contexts
    BY Fresh, Zenon DEF Init
  <1>5. Typed
    BY <1>2, <1>3, <1>4, Fresh, NotBoot, Zenon DEF Init, Typed
  <1>6. Timer
    BY Zenon DEF Init, Timer
  <1> QED
    BY <1>5, <1>6, Zenon DEF TInv

\* Every step keeps saved state well formed, and the timer armed or pending.
LEMMA StepTyped == TInv /\ [Next]_vars => TInv'
  <1> SUFFICES ASSUME TInv, [Next]_vars PROVE TInv'
    OBVIOUS
  <1>0. /\ stk \in Stacks /\ reg \in Regs /\ Indexed(pc, reg) /\ current \in Stacks
        /\ context \in [Slots -> Contexts] /\ sched_context \in Contexts
        /\ frame \in [Stacks -> Frames]
    BY Zenon DEF TInv, Typed
  <1>1. CASE handle_timer_interrupt
    <2>1. /\ pc = "t_timer" /\ pc' \in Plain /\ set_timer /\ UNCHANGED <<stk, procs, frame>>
          /\ reg' = [reg EXCEPT !.ret = "t_ret"]
      BY <1>1, Zenon DEF handle_timer_interrupt, Goto, Plain
    <2>2. reg' \in Regs
      BY <1>0, <2>1, Zenon DEF Regs, Returns
    <2>3. pc' \in Labels /\ Indexed(pc', reg')
      BY <2>1, PlainLabels, Zenon DEF Indexed
    <2> QED
      BY <1>0, <2>1, <2>2, <2>3, Moves, Zenon DEF procs
  <1>2. CASE TrapReturn
    <2>1. /\ pc = "t_ret" /\ pc' = frame[stk].pc /\ reg' = frame[stk].reg
          /\ UNCHANGED <<stk, procs, frame, timer>>
      BY <1>2, Zenon DEF TrapReturn, Goto
    <2>2. reg' \in Regs /\ pc' \in Labels /\ Indexed(pc', reg')
      BY <1>0, <2>1, Zenon DEF Frames
    <2> QED
      BY <2>1, <2>2, Advances, Zenon
  <1>3. CASE intr_on
    <2>1. pc = "m_on" /\ pc' \in Plain /\ UNCHANGED <<stk, procs, frame, timer>>
      BY <1>3, Zenon DEF intr_on, Goto, Plain
    <2>2. reg' \in Regs
      BY <1>0, <1>3, Zenon DEF intr_on
    <2> QED
      BY <2>1, <2>2, Jumps, Zenon
  <1>4. CASE proc_init
    <2>1. /\ pc = "m_init" /\ pc' \in Plain /\ UNCHANGED <<stk, reg, frame, timer>>
          /\ current' = NULL /\ context' = [s \in Slots |-> Zero] /\ sched_context' = Zero
      BY <1>4, Zenon DEF proc_init, Goto, Plain
    <2>2. pc' \in Labels /\ Indexed(pc', reg')
      BY <2>1, PlainLabels, Zenon DEF Indexed
    <2>3. current' \in Stacks /\ context' \in [Slots -> Contexts] /\ sched_context' \in Contexts
      BY <2>1, Fresh, NotBoot, Zenon
    <2> QED
      BY <1>0, <2>1, <2>2, <2>3, Moves, Zenon
  <1>5. CASE ProcAlloc
    <2>1. pc = "m_create" /\ UNCHANGED <<stk, procs, frame, timer>>
      BY <1>5, Zenon DEF ProcAlloc, Goto
    <2>2. CASE UNCHANGED <<pc, reg>>
      BY <1>0, <2>1, <2>2, Jumps, Zenon DEF Plain
    <2>3. ASSUME NEW s \in Slots, reg' = [reg EXCEPT !.p = s], pc' = "c_state"
          PROVE  TInv'
      <3>1. reg' \in Regs /\ reg'.p = s
        BY <1>0, <2>3, NotBoot, Zenon DEF Regs
      <3>2. pc' \in Labels /\ Indexed(pc', reg')
        BY <2>3, <3>1, Zenon DEF Labels, UsesP, UsesI, Indexed
      <3> QED
        BY <2>1, <3>1, <3>2, Advances, Zenon
    <2> QED
      BY <1>5, <2>2, <2>3, Zenon DEF ProcAlloc, Goto
  <1>6. CASE ProcPublish
    <2>1. /\ pc = "c_state" /\ pc' = "c_context"
          /\ UNCHANGED <<stk, reg, current, context, sched_context, frame, timer>>
      BY <1>6, Zenon DEF ProcPublish, Goto
    <2>2. pc' \in Labels /\ Indexed(pc', reg')
      BY <1>0, <2>1, Zenon DEF Labels, UsesP, UsesI, Indexed
    <2> QED
      BY <1>0, <2>1, <2>2, Moves, Zenon
  <1>7. CASE ProcContext
    <2>1. /\ pc = "c_context" /\ pc' \in Plain /\ reg' = NoReg
          /\ UNCHANGED <<stk, current, sched_context, frame, timer>>
          /\ context' = [context EXCEPT ![reg.p] = [pc |-> "forkret", stk |-> reg.p, i |-> 1]]
      BY <1>7, Zenon DEF ProcContext, Goto, Plain
    <2>2. reg' \in Regs /\ pc' \in Labels /\ Indexed(pc', reg')
      BY <2>1, PlainLabels, Fresh, Zenon DEF Indexed
    <2>3. [pc |-> "forkret", stk |-> reg.p, i |-> 1] \in Contexts
      BY <1>0, Fields DEF Contexts, Plain
    <2>4. context' \in [Slots -> Contexts]
      BY <1>0, <2>1, <2>3, Zenon
    <2> QED
      BY <1>0, <2>1, <2>2, <2>4, Moves, Zenon
  <1>8. CASE StartScheduler
    <2>1. pc = "m_create" /\ pc' \in Plain /\ UNCHANGED <<stk, procs, frame, timer>>
      BY <1>8, Zenon DEF StartScheduler, Goto, Plain
    <2>2. reg' \in Regs
      BY <1>0, <1>8, Zenon DEF StartScheduler
    <2> QED
      BY <2>1, <2>2, Jumps, Zenon
  <1>9. CASE PassBegins
    <2>1. pc = "s_top" /\ pc' \in Plain /\ UNCHANGED <<stk, procs, frame, timer>>
      BY <1>9, Zenon DEF PassBegins, Goto, Plain
    <2>2. reg' \in Regs
      <3>1. reg' = [reg EXCEPT !.i = 1, !.found = FALSE]
        BY <1>9, Zenon DEF PassBegins
      <3>2. 1 \in Nat \ {0} /\ FALSE \in BOOLEAN
        OBVIOUS
      <3> QED
        BY <1>0, <3>1, <3>2, LoopLocals, Zenon
    <2> QED
      BY <2>1, <2>2, Jumps, Zenon
  <1>10. CASE Skip
    <2>1. pc = "s_test" /\ pc' \in Plain /\ UNCHANGED <<stk, procs, frame, timer>>
      BY <1>10, Zenon DEF Skip, Goto, Plain
    <2>2. reg' \in Regs
      <3>1. reg.i + 1 \in Nat \ {0}
        BY <1>0, Fields
      <3> QED
        BY <1>0, <3>1, <1>10, Zenon DEF Skip, Regs
    <2> QED
      BY <2>1, <2>2, Jumps, Zenon
  <1>11. CASE Pick
    <2>1. /\ pc = "s_test" /\ reg.i <= NPROC /\ pc' = "s_current"
          /\ UNCHANGED <<stk, reg, current, context, sched_context, frame, timer>>
      BY <1>11, Zenon DEF Pick, Goto
    <2>2. reg.i \in Slots
      BY <1>0, <2>1, Fields, SlotNumbers, Zenon
    <2>3. pc' \in Labels /\ Indexed(pc', reg')
      BY <2>1, <2>2, Zenon DEF Labels, UsesP, UsesI, Indexed
    <2> QED
      BY <1>0, <2>1, <2>3, Moves, Zenon
  <1>12. CASE SetCurrent
    <2>1. /\ pc = "s_current" /\ pc' = "s_save" /\ current' = reg.i
          /\ UNCHANGED <<stk, reg, context, sched_context, frame, timer>>
      BY <1>12, Zenon DEF SetCurrent, Goto
    <2>2. current' \in Stacks
      BY <1>0, <2>1, NotBoot, Zenon DEF Indexed, UsesI
    <2>3. pc' \in Labels /\ Indexed(pc', reg')
      BY <1>0, <2>1, Zenon DEF Labels, UsesP, UsesI, Indexed
    <2> QED
      BY <1>0, <2>1, <2>2, <2>3, Moves, Zenon
  <1>13. CASE SchedSave
    <2>1. /\ pc = "s_save" /\ pc' = "s_load" /\ sched_context' = Saved("s_back")
          /\ UNCHANGED <<stk, reg, current, context, frame, timer>>
      BY <1>13, Zenon DEF SchedSave, Goto
    <2>2. sched_context' \in Contexts
      BY <2>1, SavedTyped, Zenon DEF Plain
    <2>3. pc' \in Labels /\ Indexed(pc', reg')
      BY <1>0, <2>1, Zenon DEF Labels, UsesP, UsesI, Indexed
    <2> QED
      BY <1>0, <2>1, <2>2, <2>3, Moves, Zenon
  <1>14. CASE SchedLoad
    <2>1. context[reg.i] \in Contexts
      BY <1>0, <1>14, Zenon DEF SchedLoad, Indexed, UsesI
    <2> QED
      BY <1>14, <2>1, Loads, Zenon DEF SchedLoad
  <1>15. CASE SchedBack
    <2>1. /\ pc = "s_back" /\ pc' \in Plain /\ current' = NULL
          /\ reg' = [reg EXCEPT !.found = TRUE, !.i = @ + 1]
          /\ UNCHANGED <<stk, context, sched_context, frame, timer>>
      BY <1>15, Zenon DEF SchedBack, Goto, Plain
    <2>2. reg.i + 1 \in Nat \ {0}
      BY <1>0, Fields
    <2>3. reg' \in Regs
      <3>1. reg' = [reg EXCEPT !.found = TRUE, !.i = reg.i + 1]
        BY <2>1, Zenon
      <3> QED
        BY <1>0, <2>2, <3>1, LoopLocals, Zenon
    <2>4. pc' \in Labels /\ Indexed(pc', reg')
      BY <2>1, PlainLabels, Zenon DEF Indexed
    <2> QED
      BY <1>0, <2>1, <2>3, <2>4, NotBoot, Moves, Zenon
  <1>16. CASE PassEnds
    <2>1. pc = "s_test" /\ pc' \in Plain /\ UNCHANGED <<stk, procs, frame, timer>>
      BY <1>16, Zenon DEF PassEnds, Goto, Plain
    <2>2. reg' \in Regs
      BY <1>16, Fresh, Zenon DEF PassEnds
    <2> QED
      BY <2>1, <2>2, Jumps
  <1>17. CASE YieldRead
    <2>1. /\ pc = "y_read" /\ reg' = [reg EXCEPT !.p = current]
          /\ pc' = IF current = NULL THEN reg.ret ELSE "y_state"
          /\ UNCHANGED <<stk, procs, frame, timer>>
      BY <1>17, Zenon DEF YieldRead, Goto
    <2>2. reg' \in Regs /\ reg'.p = current /\ reg.ret \in Returns
      BY <1>0, <2>1, Zenon DEF Regs
    <2>3. CASE current = NULL
      BY <2>1, <2>2, <2>3, Jumps, Zenon DEF Returns, Plain
    <2>4. CASE current # NULL
      <3>1. pc' = "y_state" /\ reg'.p \in Slots
        BY <1>0, <2>1, <2>2, <2>4, NotBoot, Zenon
      <3>2. pc' \in Labels /\ Indexed(pc', reg')
        BY <3>1, Zenon DEF Labels, UsesP, UsesI, Indexed
      <3> QED
        BY <2>1, <2>2, <3>2, Advances, Zenon
    <2> QED
      BY <2>3, <2>4, Zenon
  <1>18. CASE YieldState
    <2>1. /\ pc = "y_state" /\ pc' = "y_clear"
          /\ UNCHANGED <<stk, reg, current, context, sched_context, frame, timer>>
      BY <1>18, Zenon DEF YieldState, Goto
    <2>2. pc' \in Labels /\ Indexed(pc', reg')
      BY <1>0, <2>1, Zenon DEF Labels, UsesP, UsesI, Indexed
    <2> QED
      BY <1>0, <2>1, <2>2, Moves, Zenon
  <1>19. CASE YieldClear
    <2>1. /\ pc = "y_clear" /\ pc' = "y_save" /\ current' = NULL
          /\ UNCHANGED <<stk, reg, context, sched_context, frame, timer>>
      BY <1>19, Zenon DEF YieldClear, Goto
    <2>2. pc' \in Labels /\ Indexed(pc', reg')
      BY <1>0, <2>1, Zenon DEF Labels, UsesP, UsesI, Indexed
    <2> QED
      BY <1>0, <2>1, <2>2, NotBoot, Moves, Zenon
  <1>20. CASE YieldSave
    <2>1. /\ pc = "y_save" /\ pc' = "y_load"
          /\ context' = [context EXCEPT ![reg.p] = Saved(reg.ret)]
          /\ UNCHANGED <<stk, reg, current, sched_context, frame, timer>>
      BY <1>20, Zenon DEF YieldSave, Goto
    <2>2. reg.ret \in Plain
      BY <1>0, Fields, Zenon DEF Returns, Plain
    <2>3. context' \in [Slots -> Contexts]
      BY <1>0, <2>1, <2>2, SavedTyped, Zenon
    <2>4. pc' \in Labels /\ Indexed(pc', reg')
      BY <1>0, <2>1, Zenon DEF Labels, UsesP, UsesI, Indexed
    <2> QED
      BY <1>0, <2>1, <2>3, <2>4, Moves, Zenon
  <1>21. CASE YieldLoad
    BY <1>0, <1>21, Loads, Zenon DEF YieldLoad
  <1>22. CASE forkret
    <2>1. pc = "forkret" /\ pc' \in Plain /\ UNCHANGED <<stk, procs, frame, timer>>
      BY <1>22, Zenon DEF forkret, Goto, Plain
    <2>2. reg' \in Regs
      BY <1>0, <1>22, Zenon DEF forkret
    <2> QED
      BY <2>1, <2>2, Jumps, Zenon
  <1>23. CASE TaskStep
    BY <1>0, <1>23, Jumps, Zenon DEF TaskStep, hart, Plain
  <1>24. CASE TaskReturns
    <2>1. pc = "task" /\ pc' \in Plain /\ UNCHANGED <<stk, procs, frame, timer>>
      BY <1>24, Zenon DEF TaskReturns, Goto, Plain
    <2>2. reg' \in Regs
      BY <1>0, <1>24, Zenon DEF TaskReturns
    <2> QED
      BY <2>1, <2>2, Jumps, Zenon
  <1>25. CASE ForkretExit
    <2>1. /\ pc = "f_exit" /\ pc' \in Plain /\ reg' = [reg EXCEPT !.ret = "f_spin"]
          /\ UNCHANGED <<stk, current, context, sched_context, frame, timer>>
      BY <1>25, Zenon DEF ForkretExit, Goto, Plain
    <2>2. reg' \in Regs
      BY <1>0, <2>1, Zenon DEF Regs, Returns
    <2>3. pc' \in Labels /\ Indexed(pc', reg')
      BY <2>1, PlainLabels, Zenon DEF Indexed
    <2> QED
      BY <1>0, <2>1, <2>2, <2>3, Moves, Zenon
  <1>26. CASE ArmTimer
    <2>1. pc = "m_timer" /\ pc' = "m_on" /\ set_timer /\ UNCHANGED <<stk, reg, procs, frame>>
      BY <1>26, Zenon DEF ArmTimer, Goto
    <2>2. pc' \in Labels /\ Indexed(pc', reg')
      BY <2>1, PlainLabels, Zenon DEF Indexed, Plain
    <2>3. Typed'
      BY <1>0, <2>1, <2>2, Zenon DEF procs, Typed
    <2> QED
      BY <2>1, <2>3, Zenon DEF set_timer, Timer, TInv
  <1>27. CASE trap_vector
    <2>1. pc # "m_timer"
      BY <1>27, Zenon DEF trap_vector, TInv, Timer
    <2>2. [pc |-> pc, reg |-> reg] \in Frames
      BY <1>0, <2>1, Zenon DEF TInv, Typed, Frames
    <2>3. /\ frame' = [frame EXCEPT ![stk] = [pc |-> pc, reg |-> reg]]
          /\ reg' = NoReg /\ pc' \in Plain /\ UNCHANGED <<stk, procs, timer>>
      BY <1>27, Zenon DEF trap_vector, Goto, Plain
    <2>4. frame' \in [Stacks -> Frames]
      BY <1>0, <2>2, <2>3, Zenon
    <2>5. reg' \in Regs /\ pc' \in Labels /\ Indexed(pc', reg')
      BY <2>3, Fresh, PlainLabels, Zenon DEF Indexed
    <2> QED
      BY <1>0, <2>1, <2>3, <2>4, <2>5, Moves, Zenon DEF procs
  <1>28. CASE handle_m_interrupt
    <2>1. Typed'
      BY <1>28, Zenon DEF handle_m_interrupt, procs, hart, TInv, Typed
    <2> QED
      BY <1>28, <2>1, Zenon DEF handle_m_interrupt, hart, TInv, Timer
  <1>29. CASE UNCHANGED vars
    BY <1>29, Zenon DEF vars, procs, hart, timer, TInv, Typed, Timer
  <1> QED
    BY <1>1, <1>2, <1>3, <1>4, <1>5, <1>6, <1>7, <1>8, <1>9, <1>10, <1>11, <1>12, <1>13, <1>14,
       <1>15, <1>16, <1>17, <1>18, <1>19, <1>20, <1>21, <1>22, <1>23, <1>24, <1>25, <1>26, <1>27, <1>28,
       <1>29
       DEF Next, Instruction, Handler, yield, main, scheduler, Process, Halted

(***************************************************************************)
(* The timer is armed or pending, and never both, from set_timer on:       *)
(* whatever the order of ticks, ecalls and switches (mtrap_vector,         *)
(* handle_timer_interrupt), for every number of slots and tasks.           *)
(***************************************************************************)
THEOREM TimerNeverDies == Spec => []TimerAlive
  <1>1. TInv => TimerAlive
    BY Zenon DEF TInv, Timer, TimerAlive
  <1> QED
    BY InitTyped, StepTyped, <1>1, PTL DEF Spec

-----------------------------------------------------------------------------
(***************************************************************************)
(* The switch                                                              *)
(***************************************************************************)
MainCode == {"m_timer", "m_on", "m_init", "m_create", "c_state", "c_context",
             "s_top", "s_test", "s_current", "s_back", "ended"}
Window == {"s_save", "s_load"}
TaskCode == {"forkret", "task", "f_exit"}
Cleared == {"y_save", "y_load"}
Inside == {"y_state", "y_clear"} \cup Cleared
YieldCode == {"y_read"} \cup Inside

\* Where the code is that the handler, if there is one, has interrupted.
At == IF InHandler THEN frame[stk].pc ELSE pc
Locals == IF InHandler THEN frame[stk].reg ELSE reg

OnBoot ==
  stk = Boot =>
    /\ At \in MainCode \cup Window
    /\ InHandler => At \notin Window /\ pc \notin Inside
    /\ current = IF At \in Window THEN Locals.i ELSE NULL
    /\ At \in {"s_current", "s_save", "s_load"} => state[Locals.i] = "RUNNING"
    /\ At = "s_load" => sched_context = [pc |-> "s_back", stk |-> Boot, i |-> Locals.i]
    /\ At = "c_state" => state[Locals.p] = "UNUSED"
    /\ At = "c_context" => state[Locals.p] = "RUNNABLE"
    /\ At \in {"m_timer", "m_on", "m_init"} => \A s \in Slots : state[s] = "UNUSED"

OnTask ==
  stk # Boot =>
    /\ At \in TaskCode \cup YieldCode
    /\ At \in YieldCode => Locals.ret = "f_spin"
    /\ At \in Inside => Locals.p = stk
    /\ InHandler /\ pc \in Inside => reg.p = stk /\ At \notin Cleared
    /\ state[stk] = IF At \in YieldCode THEN "ZOMBIE"
                    ELSE IF InHandler /\ pc \in Inside \ {"y_state"} THEN "RUNNABLE"
                    ELSE "RUNNING"
    /\ current = IF At \in Cleared \/ pc \in Cleared THEN NULL ELSE stk
    /\ InHandler /\ pc = "y_load" => context[stk].pc = "t_ret" /\ context[stk].stk = stk
    /\ sched_context = [pc |-> "s_back", stk |-> Boot, i |-> stk]

\* Slot s is published and has no context yet.
Unfinished(s) == stk = Boot /\ At = "c_context" /\ Locals.p = s

\* What is saved of a process that is not on its stack.
Saves ==
  \A s \in Slots :
    /\ state[s] = "UNUSED" \/ Unfinished(s) => context[s].pc = "lost" /\ frame[s].pc = "lost"
    /\ state[s] \in {"RUNNABLE", "RUNNING"} /\ stk # s /\ ~ Unfinished(s) =>
         /\ context[s].stk = s
         /\ \/ context[s].pc = "forkret" /\ frame[s].pc = "lost"
            \/ context[s].pc = "t_ret" /\ frame[s].pc \in TaskCode

\* s is suspended in a trap.
Suspended(s) == state[s] \in {"RUNNABLE", "RUNNING"} /\ stk # s /\ context[s].pc = "t_ret"

Masks ==
  /\ InHandler => ~ sie /\ \A s \in Slots : ~ Suspended(s)
  /\ \A s \in Slots : Suspended(s) => ~ sie
  /\ \A s, t \in Slots : Suspended(s) /\ Suspended(t) => s = t
  /\ stk # Boot /\ ~ InHandler => sie \/ frame[stk].pc = "lost"

\* The locals say who called yield.
Rets ==
  /\ reg.ret = "t_ret" => InHandler
  /\ \A k \in Stacks : frame[k].reg.ret # "t_ret"

States == [Slots -> {"UNUSED", "RUNNABLE", "RUNNING", "ZOMBIE"}]

SInv ==
  /\ TInv /\ state \in States
  /\ OnBoot /\ OnTask /\ Saves /\ Masks /\ Rets

-----------------------------------------------------------------------------
USE NotBoot

\* In main and the scheduler the hart is on the boot stack.
LEMMA InMain ==
  ASSUME SInv, pc \in MainCode \cup Window
  PROVE  stk = Boot /\ ~ InHandler /\ At = pc /\ Locals = reg
  BY Zenon DEF SInv, OnTask, At, Locals, InHandler, MainCode, Window, TaskCode, Cleared, Inside, YieldCode

\* In forkret and the task it is on the stack of the current process.
LEMMA InTask ==
  ASSUME SInv, pc \in TaskCode
  PROVE  /\ stk \in Slots /\ ~ InHandler /\ At = pc /\ Locals = reg
         /\ state[stk] = "RUNNING" /\ current = stk
  BY Zenon DEF SInv, TInv, Typed, OnBoot, OnTask, At, Locals, InHandler,
         MainCode, Window, TaskCode, Cleared, Inside, YieldCode

\* Past its check yield is on the stack of the process that leaves.
LEMMA InYield ==
  ASSUME SInv, pc \in Inside
  PROVE  stk \in Slots /\ reg.p = stk
  BY Zenon DEF SInv, TInv, Typed, OnBoot, OnTask, At, Locals, InHandler,
         MainCode, Window, TaskCode, Cleared, Inside, YieldCode

\* main and the scheduler are no handlers.
LEMMA ToMain ==
  ASSUME pc' \in MainCode \cup Window
  PROVE  ~ InHandler' /\ At' = pc' /\ Locals' = reg'
  BY Zenon DEF At, Locals, InHandler, MainCode, Window

\* What a step within main and the scheduler has to keep.
LEMMA MainKeeps ==
  ASSUME SInv, TInv', state' \in States,
         pc \in MainCode \cup Window, pc' \in MainCode \cup Window, UNCHANGED <<stk, frame, sie>>,
         reg'.ret # "t_ret", \A s \in Slots : Suspended(s)' => Suspended(s),
         OnBoot', Saves'
  PROVE  SInv'
  <1>1. stk' = Boot /\ ~ InHandler'
    BY InMain, ToMain, Zenon
  <1>2. OnTask' /\ Masks'
    BY <1>1, Zenon DEF SInv, OnTask, Masks
  <1>3. Rets'
    BY Zenon DEF SInv, Rets
  <1> QED
    BY <1>2, <1>3, Zenon DEF SInv

\* What a step within a process, or within a handler, has to keep.
LEMMA StackKeeps ==
  ASSUME SInv, TInv', state' \in States, UNCHANGED <<stk, frame, sie>>,
         InHandler' <=> InHandler, reg'.ret = "t_ret" => InHandler',
         \A s \in Slots : Suspended(s)' => Suspended(s),
         OnBoot', OnTask', Saves'
  PROVE  SInv'
  <1>1. Masks'
    BY Zenon DEF SInv, Masks
  <1>2. Rets'
    BY Zenon DEF SInv, Rets
  <1> QED
    BY <1>1, <1>2, Zenon DEF SInv

\* A process on its own stack that changes no slot but its own.
LEMMA SavesKept ==
  ASSUME SInv, stk \in Slots, UNCHANGED <<stk, frame>>, state'[stk] # "UNUSED",
         \A s \in Slots \ {stk} : state'[s] = state[s] /\ context'[s] = context[s]
  PROVE  Saves' /\ \A s \in Slots : Suspended(s)' => Suspended(s)
  <1>1. \A s \in Slots : ~ Unfinished(s) /\ ~ Unfinished(s)'
    BY Zenon DEF Unfinished
  <1>2. Saves'
    BY <1>1, Zenon DEF SInv, Saves
  <1>3. \A s \in Slots : Suspended(s)' => Suspended(s)
    BY Zenon DEF Suspended
  <1> QED
    BY <1>2, <1>3, Zenon

\* The boot begins in main, with an empty table.
LEMMA InitSwitch == Init => SInv
  <1> SUFFICES ASSUME Init PROVE SInv
    OBVIOUS
  <1>1. stk = Boot /\ ~ InHandler /\ At = "m_timer" /\ Locals = NoReg
    BY Zenon DEF Init, InHandler, At, Locals
  <1>2. OnBoot /\ OnTask
    BY <1>1, Zenon DEF Init, OnBoot, OnTask, MainCode, Window
  <1>3. Saves /\ Masks /\ Rets
    BY <1>1, Zenon DEF Init, Saves, Unfinished, Masks, Suspended, Rets, NoReg, Zero
  <1> QED
    BY <1>2, <1>3, InitTyped, Zenon DEF Init, SInv, States

\* A step of main and the scheduler that leaves the table alone and is not
\* in proc_create between the state and the context of a slot.
LEMMA MainGoes ==
  ASSUME SInv, TInv', pc \in (MainCode \cup Window) \ {"c_context"},
         pc' \in (MainCode \cup Window) \ {"c_context"},
         UNCHANGED <<stk, frame, sie, state, context>>, reg'.ret # "t_ret", OnBoot'
  PROVE  SInv'
  <1>1. stk = Boot /\ At = pc /\ At' = pc' /\ stk' = Boot
    BY InMain, ToMain, Zenon
  <1>2. \A s \in Slots : ~ Unfinished(s) /\ ~ Unfinished(s)'
    BY <1>1, Zenon DEF Unfinished
  <1>3. Saves'
    BY <1>2, Zenon DEF SInv, Saves
  <1>4. \A s \in Slots : Suspended(s)' => Suspended(s)
    BY Zenon DEF Suspended
  <1> QED
    BY <1>3, <1>4, MainKeeps, Zenon DEF SInv

\* In main and the scheduler the return address is not the handler's.
LEMMA MainRet ==
  ASSUME SInv, pc \in MainCode \cup Window
  PROVE  reg \in Regs /\ reg.ret # "t_ret"
  BY InMain, Zenon DEF SInv, TInv, Typed, Rets

\* The steps of main and the scheduler, but the ones that leave the stack
\* or change the mask, keep it.
LEMMA MainSteps ==
  ASSUME SInv, TInv',
         ArmTimer \/ StartScheduler \/ PassBegins \/ Skip \/ PassEnds \/ proc_init
         \/ ProcAlloc \/ ProcPublish \/ ProcContext \/ Pick \/ SetCurrent
         \/ SchedSave \/ SchedBack
  PROVE  SInv'
  <1>1. CASE ArmTimer
    <2>1. /\ pc = "m_timer" /\ pc' = "m_on" /\ UNCHANGED <<stk, frame, sie, state, context, reg, current>>
      BY <1>1, Zenon DEF ArmTimer, Goto, procs
    <2>2. /\ pc \in (MainCode \cup Window) \ {"c_context"}
          /\ pc' \in (MainCode \cup Window) \ {"c_context"}
      BY <2>1, Zenon DEF MainCode, Window
    <2>3. stk = Boot /\ At = pc /\ Locals = reg /\ At' = pc' /\ Locals' = reg' /\ ~ InHandler'
      BY <2>2, InMain, ToMain, Zenon
    <2>4. reg'.ret # "t_ret"
      BY <2>1, <2>2, MainRet, Zenon
    <2>5. OnBoot'
      BY <2>1, <2>3, Zenon DEF SInv, OnBoot, MainCode, Window
    <2> QED
      BY <2>1, <2>2, <2>4, <2>5, MainGoes, Zenon
  <1>2. CASE StartScheduler
    <2>1. /\ pc = "m_create" /\ pc' = "s_top" /\ UNCHANGED <<stk, frame, sie, state, context, reg, current>>
      BY <1>2, Zenon DEF StartScheduler, Goto, procs
    <2>2. /\ pc \in (MainCode \cup Window) \ {"c_context"}
          /\ pc' \in (MainCode \cup Window) \ {"c_context"}
      BY <2>1, Zenon DEF MainCode, Window
    <2>3. stk = Boot /\ At = pc /\ Locals = reg /\ At' = pc' /\ Locals' = reg' /\ ~ InHandler'
      BY <2>2, InMain, ToMain
    <2>4. reg'.ret # "t_ret"
      BY <2>1, <2>2, MainRet, Zenon
    <2>5. OnBoot'
      BY <2>1, <2>3, Zenon DEF SInv, OnBoot, MainCode, Window
    <2> QED
      BY <2>1, <2>2, <2>4, <2>5, MainGoes, Zenon
  <1>3. CASE PassBegins
    <2>1. /\ pc = "s_top" /\ pc' = "s_test" /\ UNCHANGED <<stk, frame, sie, state, context, current>>
          /\ reg' = [reg EXCEPT !.i = 1, !.found = FALSE]
      BY <1>3, Zenon DEF PassBegins, Goto, procs
    <2>2. /\ pc \in (MainCode \cup Window) \ {"c_context"}
          /\ pc' \in (MainCode \cup Window) \ {"c_context"}
      BY <2>1, Zenon DEF MainCode, Window
    <2>3. stk = Boot /\ At = pc /\ Locals = reg /\ At' = pc' /\ Locals' = reg' /\ ~ InHandler'
      BY <2>2, InMain, ToMain
    <2>4. reg'.ret # "t_ret"
      BY <2>1, <2>2, MainRet, Zenon DEF Regs
    <2>5. OnBoot'
      BY <2>1, <2>3, Zenon DEF SInv, OnBoot, MainCode, Window
    <2> QED
      BY <2>1, <2>2, <2>4, <2>5, MainGoes, Zenon
  <1>4. CASE Skip
    <2>1. /\ pc = "s_test" /\ pc' = "s_test" /\ UNCHANGED <<stk, frame, sie, state, context, current>>
          /\ reg' = [reg EXCEPT !.i = @ + 1]
      BY <1>4, Zenon DEF Skip, Goto, procs
    <2>2. /\ pc \in (MainCode \cup Window) \ {"c_context"}
          /\ pc' \in (MainCode \cup Window) \ {"c_context"}
      BY <2>1, Zenon DEF MainCode, Window
    <2>3. stk = Boot /\ At = pc /\ Locals = reg /\ At' = pc' /\ Locals' = reg' /\ ~ InHandler'
      BY <2>2, InMain, ToMain
    <2>4. reg'.ret # "t_ret"
      BY <2>1, <2>2, MainRet, Zenon DEF Regs
    <2>5. OnBoot'
      BY <2>1, <2>3, Zenon DEF SInv, OnBoot, MainCode, Window
    <2> QED
      BY <2>1, <2>2, <2>4, <2>5, MainGoes, Zenon
  <1>5. CASE PassEnds
    <2>1. /\ pc = "s_test" /\ pc' \in {"s_top", "ended"} /\ UNCHANGED <<stk, frame, sie, state, context, current>>
          /\ reg' = NoReg
      BY <1>5, Zenon DEF PassEnds, Goto, procs
    <2>2. /\ pc \in (MainCode \cup Window) \ {"c_context"}
          /\ pc' \in (MainCode \cup Window) \ {"c_context"}
      BY <2>1, Zenon DEF MainCode, Window
    <2>3. stk = Boot /\ At = pc /\ Locals = reg /\ At' = pc' /\ Locals' = reg' /\ ~ InHandler'
      BY <2>2, InMain, ToMain
    <2>4. reg'.ret # "t_ret"
      BY <2>1, Fresh, Zenon
    <2>5. OnBoot'
      BY <2>1, <2>3, Zenon DEF SInv, OnBoot, MainCode, Window
    <2> QED
      BY <2>1, <2>2, <2>4, <2>5, MainGoes, Zenon
  <1>6. CASE proc_init
    <2>1. /\ pc = "m_init" /\ pc' = "m_create" /\ UNCHANGED <<stk, reg, frame, sie>> /\ current' = NULL
          /\ state' = [s \in Slots |-> "UNUSED"] /\ context' = [s \in Slots |-> Zero]
      BY <1>6, Zenon DEF proc_init, Goto
    <2>2. pc \in MainCode \cup Window /\ pc' \in MainCode \cup Window
      BY <2>1, Zenon DEF MainCode
    <2>3. stk = Boot /\ At = pc /\ Locals = reg /\ At' = pc' /\ Locals' = reg' /\ ~ InHandler'
      BY <2>2, InMain, ToMain, Zenon
    <2>4. state' \in States /\ reg'.ret # "t_ret"
      BY <2>1, <2>2, MainRet, Zenon DEF States
    <2>5. OnBoot'
      BY <2>1, <2>3, Zenon DEF OnBoot, MainCode, Window
    <2>6. \A s \in Slots : state[s] = "UNUSED" /\ state'[s] = "UNUSED" /\ context'[s].pc = "lost"
      BY <2>1, <2>3, Zenon DEF SInv, OnBoot, Zero
    <2>7. Saves'
      <3>1. \A s \in Slots : frame'[s].pc = "lost"
        BY <2>1, <2>6, Zenon DEF SInv, Saves
      <3> QED
        BY <2>6, <3>1, Zenon DEF Saves
    <2>8. \A s \in Slots : ~ Suspended(s)'
      BY <2>6, Zenon DEF Suspended
    <2> QED
      BY <2>1, <2>2, <2>4, <2>5, <2>7, <2>8, MainKeeps, Zenon
  <1>7. CASE ProcAlloc
    <2>1. pc = "m_create" /\ UNCHANGED <<stk, frame, sie, state, context, current>>
      BY <1>7, Zenon DEF ProcAlloc, Goto, procs
    <2>2. \/ UNCHANGED <<pc, reg>>
          \/ /\ pc' = "c_state"
             /\ \E s \in Slots : state[s] = "UNUSED" /\ reg' = [reg EXCEPT !.p = s]
      BY <1>7, Zenon DEF ProcAlloc, Goto, Unused
    <2>3. /\ pc \in (MainCode \cup Window) \ {"c_context"}
          /\ pc' \in (MainCode \cup Window) \ {"c_context"}
      BY <2>1, <2>2, Zenon DEF MainCode, Window
    <2>4. stk = Boot /\ At = pc /\ Locals = reg /\ At' = pc' /\ Locals' = reg' /\ ~ InHandler'
      BY <2>3, InMain, ToMain
    <2>5. reg'.ret # "t_ret" /\ (pc' = "c_state" => state[reg'.p] = "UNUSED")
      BY <2>1, <2>2, <2>3, MainRet, Zenon DEF Regs
    <2>6. OnBoot'
      BY <2>1, <2>2, <2>4, <2>5, Zenon DEF SInv, OnBoot, MainCode, Window
    <2> QED
      BY <2>1, <2>3, <2>5, <2>6, MainGoes, Zenon
  <1>8. CASE ProcPublish
    <2>1. /\ pc = "c_state" /\ pc' = "c_context"
          /\ UNCHANGED <<stk, reg, frame, sie, context, current>>
          /\ state' = [state EXCEPT ![reg.p] = "RUNNABLE"]
      BY <1>8, Zenon DEF ProcPublish, Goto
    <2>2. pc \in MainCode \cup Window /\ pc' \in MainCode \cup Window
      BY <2>1, Zenon DEF MainCode
    <2>3. stk = Boot /\ At = pc /\ Locals = reg /\ At' = pc' /\ Locals' = reg' /\ ~ InHandler' /\ stk' = Boot
      BY <2>1, <2>2, InMain, ToMain, Zenon
    <2>4. reg.p \in Slots /\ state \in States
      BY <2>1, Zenon DEF SInv, TInv, Typed, Indexed, UsesP
    <2>5. /\ state' \in States /\ state'[reg.p] = "RUNNABLE"
          /\ \A s \in Slots \ {reg.p} : state'[s] = state[s]
      BY <2>1, <2>4, Zenon DEF States
    <2>6. OnBoot'
      BY <2>1, <2>3, <2>5, Zenon DEF SInv, OnBoot, MainCode, Window
    <2>7. \A s \in Slots : ~ Unfinished(s) /\ (Unfinished(s)' <=> s = reg.p)
      BY <2>1, <2>3, <2>4, Zenon DEF Unfinished
    <2>8. context[reg.p].pc = "lost" /\ frame[reg.p].pc = "lost"
      BY <2>1, <2>3, <2>4, Zenon DEF SInv, OnBoot, Saves
    <2>9. Saves'
      BY <2>1, <2>4, <2>5, <2>7, <2>8, Zenon DEF SInv, Saves
    <2>10. \A s \in Slots : Suspended(s)' => Suspended(s)
      BY <2>1, <2>5, <2>8, Zenon DEF Suspended
    <2> QED
      BY <2>1, <2>2, <2>5, <2>6, <2>9, <2>10, MainRet, MainKeeps, Zenon
  <1>9. CASE ProcContext
    <2>1. /\ pc = "c_context" /\ pc' = "m_create" /\ reg' = NoReg
          /\ UNCHANGED <<stk, frame, sie, state, current>>
          /\ context' = [context EXCEPT ![reg.p] = [pc |-> "forkret", stk |-> reg.p, i |-> 1]]
      BY <1>9, Zenon DEF ProcContext, Goto
    <2>2. pc \in MainCode \cup Window /\ pc' \in MainCode \cup Window
      BY <2>1, Zenon DEF MainCode
    <2>3. stk = Boot /\ At = pc /\ Locals = reg /\ At' = pc' /\ Locals' = reg' /\ ~ InHandler' /\ stk' = Boot
      BY <2>1, <2>2, InMain, ToMain, Zenon
    <2>4. reg.p \in Slots /\ context \in [Slots -> Contexts]
      BY <2>1, Zenon DEF SInv, TInv, Typed, Indexed, UsesP
    <2>5. /\ context'[reg.p].pc = "forkret" /\ context'[reg.p].stk = reg.p
          /\ \A s \in Slots \ {reg.p} : context'[s] = context[s]
      BY <2>1, <2>4, Zenon
    <2>6. OnBoot'
      BY <2>1, <2>3, Zenon DEF SInv, OnBoot, MainCode, Window
    <2>7. \A s \in Slots : ~ Unfinished(s)' /\ (Unfinished(s) <=> s = reg.p)
      BY <2>1, <2>3, <2>4, Zenon DEF Unfinished
    <2>8. state[reg.p] # "UNUSED" /\ frame[reg.p].pc = "lost"
      BY <2>1, <2>3, <2>4, <2>7, Zenon DEF SInv, OnBoot, Saves
    <2>9. Saves'
      BY <2>1, <2>4, <2>5, <2>7, <2>8, Zenon DEF SInv, Saves
    <2>10. \A s \in Slots : Suspended(s)' => Suspended(s)
      BY <2>1, <2>5, Zenon DEF Suspended
    <2> QED
      BY <2>1, <2>2, <2>6, <2>9, <2>10, Fresh, MainKeeps, Zenon DEF SInv
  <1>10. CASE Pick
    <2>1. /\ pc = "s_test" /\ pc' = "s_current" /\ reg.i <= NPROC
          /\ UNCHANGED <<stk, reg, frame, sie, context, current>>
          /\ state[reg.i] = "RUNNABLE" /\ state' = [state EXCEPT ![reg.i] = "RUNNING"]
      BY <1>10, Zenon DEF Pick, Goto
    <2>2. pc \in MainCode \cup Window /\ pc' \in MainCode \cup Window
      BY <2>1, Zenon DEF MainCode
    <2>3. stk = Boot /\ At = pc /\ Locals = reg /\ At' = pc' /\ Locals' = reg' /\ ~ InHandler' /\ stk' = Boot
      BY <2>1, <2>2, InMain, ToMain, Zenon
    <2>4. reg.i \in Slots /\ state \in States
      BY <2>1, <2>2, MainRet, Fields, SlotNumbers, Zenon DEF SInv
    <2>5. /\ state' \in States /\ state'[reg.i] = "RUNNING"
          /\ \A s \in Slots \ {reg.i} : state'[s] = state[s]
      BY <2>1, <2>4, Zenon DEF States
    <2>6. OnBoot'
      BY <2>1, <2>3, <2>5, Zenon DEF SInv, OnBoot, MainCode, Window
    <2>7. \A s \in Slots : ~ Unfinished(s) /\ ~ Unfinished(s)'
      BY <2>1, <2>3, Zenon DEF Unfinished
    <2>8. Saves'
      BY <2>1, <2>4, <2>5, <2>7, Zenon DEF SInv, Saves
    <2>9. \A s \in Slots : Suspended(s)' => Suspended(s)
      BY <2>1, <2>5, Zenon DEF Suspended
    <2> QED
      BY <2>1, <2>2, <2>5, <2>6, <2>8, <2>9, MainRet, MainKeeps, Zenon
  <1>11. CASE SetCurrent
    <2>1. /\ pc = "s_current" /\ pc' = "s_save" /\ UNCHANGED <<stk, frame, sie, state, context, reg>>
          /\ current' = reg.i
      BY <1>11, Zenon DEF SetCurrent, Goto, procs
    <2>2. /\ pc \in (MainCode \cup Window) \ {"c_context"}
          /\ pc' \in (MainCode \cup Window) \ {"c_context"}
      BY <2>1, Zenon DEF MainCode, Window
    <2>3. stk = Boot /\ At = pc /\ Locals = reg /\ At' = pc' /\ Locals' = reg' /\ ~ InHandler'
      BY <2>2, InMain, ToMain
    <2>4. reg'.ret # "t_ret"
      BY <2>1, <2>2, MainRet, Zenon
    <2>5. OnBoot'
      BY <2>1, <2>3, Zenon DEF SInv, OnBoot, MainCode, Window
    <2> QED
      BY <2>1, <2>2, <2>4, <2>5, MainGoes, Zenon
  <1>12. CASE SchedSave
    <2>1. /\ pc = "s_save" /\ pc' = "s_load" /\ UNCHANGED <<stk, frame, sie, state, context, reg, current>>
          /\ sched_context' = [pc |-> "s_back", stk |-> stk, i |-> reg.i]
      BY <1>12, Zenon DEF SchedSave, Goto, procs, Saved
    <2>2. /\ pc \in (MainCode \cup Window) \ {"c_context"}
          /\ pc' \in (MainCode \cup Window) \ {"c_context"}
      BY <2>1, Zenon DEF MainCode, Window
    <2>3. stk = Boot /\ At = pc /\ Locals = reg /\ At' = pc' /\ Locals' = reg' /\ ~ InHandler'
      BY <2>2, InMain, ToMain
    <2>4. reg'.ret # "t_ret"
      BY <2>1, <2>2, MainRet, Zenon
    <2>5. OnBoot'
      BY <2>1, <2>3, Zenon DEF SInv, OnBoot, MainCode, Window
    <2> QED
      BY <2>1, <2>2, <2>4, <2>5, MainGoes, Zenon
  <1>13. CASE SchedBack
    <2>1. /\ pc = "s_back" /\ pc' = "s_test" /\ UNCHANGED <<stk, frame, sie, state, context>>
          /\ current' = NULL /\ reg' = [reg EXCEPT !.found = TRUE, !.i = @ + 1]
      BY <1>13, Zenon DEF SchedBack, Goto, procs
    <2>2. /\ pc \in (MainCode \cup Window) \ {"c_context"}
          /\ pc' \in (MainCode \cup Window) \ {"c_context"}
      BY <2>1, Zenon DEF MainCode, Window
    <2>3. stk = Boot /\ At = pc /\ Locals = reg /\ At' = pc' /\ Locals' = reg' /\ ~ InHandler'
      BY <2>2, InMain, ToMain
    <2>4. reg'.ret # "t_ret"
      BY <2>1, <2>2, MainRet, Zenon DEF Regs
    <2>5. OnBoot'
      BY <2>1, <2>3, Zenon DEF SInv, OnBoot, MainCode, Window
    <2> QED
      BY <2>1, <2>2, <2>4, <2>5, MainGoes, Zenon
  <1> QED
    BY <1>1, <1>2, <1>3, <1>4, <1>5, <1>6, <1>7, <1>8, <1>9, <1>10, <1>11, <1>12, <1>13, Zenon

-----------------------------------------------------------------------------
(***************************************************************************)
(* Steps that change stack or mask                                         *)
(***************************************************************************)
\* The steps that change stack or mask, and the first ones of the handler;
\* a trap in the window is excluded.
LEMMA TrapSteps ==
  ASSUME ~ WindowTicks, SInv, TInv',
         intr_on \/ SchedLoad \/ trap_vector \/ handle_timer_interrupt
         \/ TrapReturn \/ YieldRead
  PROVE  SInv'
  <1>0. TInv'
    OBVIOUS
  <1>1. CASE intr_on
    <2>1. stk = Boot /\ ~ InHandler /\ At = pc /\ Locals = reg
          /\ stk' = Boot /\ ~ InHandler' /\ At' = pc' /\ Locals' = reg'
      BY <1>1, InMain, ToMain, Zenon DEF intr_on, Goto, MainCode
    <2>2. \A s \in Slots : state[s] = "UNUSED"
      BY <1>1, <2>1, Zenon DEF intr_on, SInv, OnBoot
    <2>3. OnBoot' /\ OnTask'
      BY <1>1, <2>1, <2>2, Zenon DEF intr_on, Goto, procs, OnBoot, OnTask, SInv, MainCode, Window
    <2>4. Saves'
      BY <1>1, <2>1, Zenon DEF intr_on, Goto, procs, SInv, Saves, Unfinished
    <2>5. Masks' /\ Rets'
      BY <1>1, <2>1, <2>2, Zenon DEF intr_on, Goto, procs, SInv, Masks, Suspended, Rets
    <2> QED
      BY <1>0, <1>1, <2>3, <2>4, <2>5, Zenon DEF intr_on, procs, SInv
  <1>2. CASE SchedLoad
    <2> DEFINE k == reg.i
    <2>1. stk = Boot /\ ~ InHandler /\ At = pc /\ Locals = reg
      BY <1>2, InMain, Zenon DEF SchedLoad, Window
    <2>2. k \in Slots /\ state[k] = "RUNNING" /\ current = k
          /\ sched_context = [pc |-> "s_back", stk |-> Boot, i |-> k]
      <3>1. pc = "s_load" /\ reg.i \in Slots
        BY <1>2 DEF SchedLoad, SInv, TInv, Typed, Indexed, UsesI
      <3> QED
        BY <2>1, <3>1 DEF SInv, OnBoot, Window
    <2>3. context[k].stk = k /\ (\/ context[k].pc = "forkret" /\ frame[k].pc = "lost"
                                 \/ context[k].pc = "t_ret" /\ frame[k].pc \in TaskCode)
      <3>1. ~ Unfinished(k)
        BY <1>2, <2>1, Zenon DEF SchedLoad, Unfinished
      <3> QED
        BY <2>1, <2>2, <3>1, Zenon DEF SInv, Saves
    <2>4. pc' = context[k].pc /\ stk' = k /\ reg'.ret = "lost" /\ UNCHANGED <<procs, frame, sie>>
      BY <1>2, <2>3, Zenon DEF SchedLoad, Load, NoReg
    <2>5. InHandler' <=> context[k].pc = "t_ret"
      BY <2>3, <2>4, Zenon DEF InHandler
    <2>6. At' \in TaskCode /\ pc' \notin Inside
      BY <2>3, <2>4, <2>5, Zenon DEF At, TaskCode, Inside, Cleared
    <2>7. OnBoot' /\ OnTask'
      BY <2>2, <2>4, <2>6, Zenon DEF procs, OnBoot, OnTask, TaskCode, YieldCode, Inside, Cleared
    <2>8. Saves'
      <3>1. \A s \in Slots : ~ Unfinished(s) /\ ~ Unfinished(s)'
        BY <1>2, <2>1, <2>2, <2>4, Zenon DEF SchedLoad, Unfinished
      <3>2. UNCHANGED <<state, context, frame>>
        BY <2>4, Zenon DEF procs
      <3> QED
        BY <2>1, <2>2, <2>4, <3>1, <3>2, Zenon DEF SInv, Saves
    <2>9. Masks'
      <3>1. \A s \in Slots : Suspended(s)' <=> Suspended(s) /\ s # k
        BY <2>1, <2>2, <2>4, Zenon DEF procs, Suspended
      <3>2. InHandler' <=> Suspended(k)
        BY <2>1, <2>2, <2>5, Zenon DEF Suspended
      <3>3. InHandler' => ~ sie'
        BY <2>2, <2>4, <3>2, Zenon DEF SInv, Masks
      <3>4. InHandler' => \A s \in Slots : ~ Suspended(s)'
        BY <2>2, <3>1, <3>2, Zenon DEF SInv, Masks
      <3>5. ~ InHandler' => frame'[stk'].pc = "lost"
        BY <2>3, <2>4, <2>5, Zenon
      <3> QED
        BY <2>4, <3>1, <3>3, <3>4, <3>5, Zenon DEF SInv, Masks
    <2>10. Rets'
      BY <2>4, Zenon DEF SInv, Rets
    <2> QED
      BY <1>0, <2>4, <2>7, <2>8, <2>9, <2>10, Zenon DEF procs, SInv
  <1>3. CASE trap_vector
    <2>1. ~ InHandler /\ At = pc /\ Locals = reg /\ At \notin Window /\ stk \in Stacks
      BY <1>3, Zenon DEF trap_vector, InWindow, SInv, TInv, Typed, Masks, At, Locals, Window, OnTask,
         TaskCode, YieldCode, Inside, Cleared
    <2>2. frame' = [frame EXCEPT ![stk] = [pc |-> pc, reg |-> reg]] /\ frame \in [Stacks -> Frames]
          /\ UNCHANGED <<procs, stk>> /\ pc' = "t_timer" /\ ~ sie' /\ reg'.ret = "lost"
      BY <1>3, Zenon DEF trap_vector, Goto, NoReg, SInv, TInv, Typed
    <2>3. InHandler' /\ At' = At /\ Locals' = Locals /\ pc' \notin Inside
      BY <2>1, <2>2, Zenon DEF InHandler, At, Locals, Inside, Cleared
    <2>4. OnBoot'
      BY <2>1, <2>2, <2>3, Zenon DEF procs, SInv, OnBoot
    <2>5. OnTask'
      BY <2>1, <2>2, <2>3, Zenon DEF procs, SInv, OnTask, Inside, Cleared
    <2>6. Saves'
      <3>1. stk # Boot => state[stk] # "UNUSED"
        BY Zenon DEF SInv, OnTask
      <3>2. Saves'
        <4>1. \A s \in Slots : Unfinished(s)' <=> Unfinished(s)
          BY <2>2, <2>3, Zenon DEF Unfinished
        <4>2. \A s \in Slots : s # stk => frame'[s] = frame[s]
          BY <2>1, <2>2, Zenon
        <4>3. UNCHANGED <<state, context, stk>>
          BY <2>2, Zenon DEF procs
        <4>4. \A s \in Slots : Unfinished(s) => s # stk
          BY Zenon DEF Unfinished
        <4> QED
          BY <2>1, <3>1, <4>1, <4>2, <4>3, <4>4, Zenon DEF SInv, Saves
      <3> QED
        BY <3>2, Zenon
    <2>7. Masks'
      BY <1>3, <2>2, <2>3, Zenon DEF trap_vector, procs, SInv, Masks, Suspended
    <2>8. Rets'
      BY <2>1, <2>2, <2>3, Zenon DEF SInv, Rets
    <2> QED
      BY <1>0, <2>2, <2>4, <2>5, <2>6, <2>7, <2>8, Zenon DEF procs, SInv
  <1>4. CASE handle_timer_interrupt
    <2>1. InHandler /\ InHandler' /\ pc = "t_timer" /\ pc' = "y_read" /\ UNCHANGED <<procs, stk, frame, sie>>
      BY <1>4, Zenon DEF handle_timer_interrupt, Goto, InHandler, SInv, TInv, Typed, Regs
    <2>2. At' = At /\ Locals' = Locals
      BY <2>1, Zenon DEF At, Locals
    <2>3. OnBoot' /\ OnTask'
      BY <2>1, <2>2, Zenon DEF procs, SInv, OnBoot, OnTask, Inside, Cleared
    <2>4. Saves' /\ \A s \in Slots : Suspended(s)' => Suspended(s)
      BY <2>1, <2>2, Zenon DEF procs, SInv, Saves, Unfinished, Suspended
    <2> QED
      BY <1>0, <2>1, <2>3, <2>4, StackKeeps, Zenon DEF procs, SInv
  <1>5. CASE TrapReturn
    <2>1. InHandler /\ pc = "t_ret" /\ pc' = At /\ reg' = Locals /\ reg'.ret # "t_ret" /\ sie'
          /\ UNCHANGED <<procs, stk, frame>>
      BY <1>5, Zenon DEF TrapReturn, Goto, InHandler, At, Locals, SInv, TInv, Typed, Rets
    <2>2. ~ InHandler' /\ At' = At /\ Locals' = Locals
      BY <2>1, Zenon DEF SInv, OnBoot, OnTask, InHandler, At, Locals, MainCode, Window, TaskCode, YieldCode, Inside, Cleared
    <2>3. OnBoot' /\ OnTask'
      BY <2>1, <2>2, Zenon DEF procs, SInv, OnBoot, OnTask, Inside, Cleared
    <2>4. Saves'
      BY <2>1, <2>2, Zenon DEF procs, SInv, Saves, Unfinished
    <2>5. Masks' /\ Rets'
      BY <2>1, <2>2, Zenon DEF procs, SInv, Masks, Suspended, Rets
    <2> QED
      BY <1>0, <2>1, <2>3, <2>4, <2>5, Zenon DEF procs, SInv
  <1>6. CASE YieldRead
    <2>1. pc = "y_read" /\ reg'.p = current /\ reg'.ret = reg.ret /\ stk \in Stacks
          /\ pc' = (IF current = NULL THEN reg.ret ELSE "y_state") /\ UNCHANGED <<procs, stk, frame, sie>>
      BY <1>6, Zenon DEF YieldRead, Goto, SInv, TInv, Typed, Regs
    <2>2. CASE InHandler
      <3>1. InHandler' /\ At' = At /\ Locals' = Locals /\ reg.ret = "t_ret"
        BY <2>1, <2>2, Zenon DEF InHandler, At, Locals
      <3>2. OnBoot'
        BY <2>1, <2>2, <3>1, Zenon DEF procs, SInv, OnBoot, Inside, Cleared
      <3>3. OnTask'
        BY <2>1, <2>2, <3>1, Zenon DEF procs, SInv, OnTask, Inside, Cleared
      <3>4. Saves' /\ \A s \in Slots : Suspended(s)' => Suspended(s)
        BY <2>1, <3>1, Zenon DEF procs, SInv, Saves, Unfinished, Suspended
      <3> QED
        BY <1>0, <2>1, <2>2, <3>1, <3>2, <3>3, <3>4, StackKeeps, Zenon DEF procs, SInv
    <2>3. CASE ~ InHandler
      <3>1. At = "y_read" /\ Locals = reg
        BY <2>1, <2>3, Zenon DEF At, Locals
      <3>2. stk \in Slots /\ current = stk /\ reg.ret = "f_spin"
        BY <2>1, <3>1, Zenon DEF SInv, OnBoot, OnTask, MainCode, Window, YieldCode, Inside, Cleared
      <3>3. pc' = "y_state" /\ ~ InHandler' /\ At' = "y_state" /\ Locals' = reg'
        BY <2>1, <3>2, Zenon DEF InHandler, At, Locals
      <3>4. OnBoot' /\ OnTask'
        BY <2>1, <3>1, <3>2, <3>3, Zenon DEF procs, SInv, OnBoot, OnTask, YieldCode, Inside, Cleared
      <3>5. Saves' /\ \A s \in Slots : Suspended(s)' => Suspended(s)
        BY <2>1, <3>2, <3>3, Zenon DEF procs, SInv, Saves, Unfinished, Suspended
      <3> QED
        BY <1>0, <2>1, <2>3, <3>2, <3>3, <3>4, <3>5, StackKeeps, Zenon DEF procs, SInv
    <2> QED
      BY <2>2, <2>3, Zenon
  <1> QED
    BY <1>1, <1>2, <1>3, <1>4, <1>5, <1>6, Zenon

-----------------------------------------------------------------------------
(***************************************************************************)
(* yield, and the steps of a process                                       *)
(***************************************************************************)
\* yield past its check.
LEMMA YieldSteps ==
  ASSUME SInv, TInv',
         YieldState \/ YieldClear \/ YieldSave \/ YieldLoad
  PROVE  SInv'
  <1>0. TInv'
    OBVIOUS
  <1>1. CASE YieldState
    <2>1. pc = "y_state" /\ pc' = "y_clear" /\ stk \in Slots /\ reg.p = stk /\ UNCHANGED <<stk, reg, frame, sie>>
      BY <1>1, InYield, Zenon DEF YieldState, Goto, Inside, Cleared
    <2>2. state' \in States /\ UNCHANGED <<current, context, sched_context>>
          /\ state'[stk] = (IF state[stk] = "RUNNING" THEN "RUNNABLE" ELSE state[stk])
          /\ \A s \in Slots \ {stk} : state'[s] = state[s]
      BY <1>1, <2>1, Zenon DEF YieldState, SInv, TInv, Typed, States
    <2>3. InHandler' = InHandler /\ (reg'.ret = "t_ret" => InHandler')
      BY <2>1, Zenon DEF InHandler
    <2>4. Locals' = Locals /\ (InHandler => At' = At /\ reg.ret = "t_ret") /\ (~ InHandler => At = pc /\ At' = pc')
      BY <2>1, <2>3, Zenon DEF InHandler, At, Locals
    <2>5. OnBoot' /\ OnTask'
      <3>1. OnBoot'
        BY <2>1, <2>2, Zenon DEF OnBoot
      <3>2. OnTask'
        BY <2>1, <2>2, <2>3, <2>4, Zenon DEF SInv, OnTask, TaskCode, YieldCode, Inside, Cleared
      <3> QED
        BY <3>1, <3>2, Zenon
    <2>6. Saves' /\ \A s \in Slots : Suspended(s)' => Suspended(s)
      <3>1. state'[stk] # "UNUSED"
        BY <2>1, <2>5, Zenon DEF OnTask
      <3> QED
        BY <2>1, <2>2, <3>1, SavesKept, Zenon
    <2> QED
      BY <1>0, <2>1, <2>2, <2>3, <2>5, <2>6, StackKeeps, Zenon DEF SInv
  <1>2. CASE YieldClear
    <2>1. pc = "y_clear" /\ pc' = "y_save" /\ stk \in Slots /\ reg.p = stk /\ UNCHANGED <<stk, reg, frame, sie>>
      BY <1>2, InYield, Zenon DEF YieldClear, Goto, Inside, Cleared
    <2>2. UNCHANGED <<state, context, sched_context>> /\ current' = NULL
      BY <1>2, <2>1, Zenon DEF YieldClear, SInv, TInv, Typed
    <2>3. InHandler' = InHandler /\ (reg'.ret = "t_ret" => InHandler')
      BY <2>1, Zenon DEF InHandler
    <2>4. Locals' = Locals /\ (InHandler => At' = At /\ reg.ret = "t_ret") /\ (~ InHandler => At = pc /\ At' = pc')
      BY <2>1, <2>3, Zenon DEF InHandler, At, Locals
    <2>5. OnBoot' /\ OnTask'
      <3>1. OnBoot'
        BY <2>1, <2>2, Zenon DEF OnBoot
      <3>2. OnTask'
        BY <2>1, <2>2, <2>3, <2>4, Zenon DEF SInv, OnTask, TaskCode, YieldCode, Inside, Cleared
      <3> QED
        BY <3>1, <3>2
    <2>6. Saves' /\ \A s \in Slots : Suspended(s)' => Suspended(s)
      <3>1. state'[stk] # "UNUSED"
        BY <2>1, <2>5, Zenon DEF OnTask
      <3> QED
        BY <2>1, <2>2, <3>1, SavesKept, Zenon
    <2> QED
      BY <1>0, <2>1, <2>2, <2>3, <2>5, <2>6, StackKeeps, Zenon DEF SInv
  <1>3. CASE YieldSave
    <2>1. pc = "y_save" /\ pc' = "y_load" /\ stk \in Slots /\ reg.p = stk /\ UNCHANGED <<stk, reg, frame, sie>>
      BY <1>3, InYield, Zenon DEF YieldSave, Goto, Inside, Cleared
    <2>2. UNCHANGED <<state, current, sched_context>>
          /\ context'[stk] = Saved(reg.ret) /\ \A s \in Slots \ {stk} : context'[s] = context[s]
      BY <1>3, <2>1, Zenon DEF YieldSave, SInv, TInv, Typed
    <2>3. InHandler' = InHandler /\ (reg'.ret = "t_ret" => InHandler')
      BY <2>1, Zenon DEF InHandler
    <2>4. Locals' = Locals /\ (InHandler => At' = At /\ reg.ret = "t_ret") /\ (~ InHandler => At = pc /\ At' = pc')
      BY <2>1, <2>3, Zenon DEF InHandler, At, Locals
    <2>5. OnBoot' /\ OnTask'
      <3>1. OnBoot'
        BY <2>1, <2>2, Zenon DEF OnBoot
      <3>2. InHandler => context'[stk].pc = "t_ret" /\ context'[stk].stk = stk
        BY <2>2, <2>4 DEF Saved
      <3>3. UNCHANGED <<state, current, sched_context>>
        BY <2>2, Zenon
      <3>4. OnTask'
        BY <2>1, <2>3, <2>4, <3>2, <3>3, Zenon DEF SInv, OnTask, TaskCode, YieldCode, Inside, Cleared
      <3> QED
        BY <3>1, <3>4
    <2>6. Saves' /\ \A s \in Slots : Suspended(s)' => Suspended(s)
      <3>1. state'[stk] # "UNUSED"
        BY <2>1, <2>5, Zenon DEF OnTask
      <3> QED
        BY <2>1, <2>2, <3>1, SavesKept, Zenon
    <2> QED
      BY <1>0, <2>1, <2>2, <2>3, <2>5, <2>6, StackKeeps, Zenon DEF SInv
  <1>4. CASE YieldLoad
    <2>1. pc = "y_load" /\ stk \in Slots /\ sched_context = [pc |-> "s_back", stk |-> Boot, i |-> stk]
          /\ current = NULL
      <3>1. pc = "y_load" /\ stk \in Slots
        BY <1>4, InYield, Zenon DEF YieldLoad, Inside, Cleared
      <3> QED
        BY <3>1, Zenon DEF SInv, OnTask, Cleared
    <2>2. pc' = "s_back" /\ stk' = Boot /\ reg'.ret = "lost" /\ UNCHANGED <<procs, frame, sie>>
      BY <1>4, <2>1, Zenon DEF YieldLoad, Load, NoReg
    <2>3. ~ InHandler' /\ At' = "s_back"
      BY <2>2, Zenon DEF InHandler, At
    <2>4. state[stk] = "ZOMBIE" \/ (/\ InHandler /\ state[stk] = "RUNNABLE" /\ frame[stk].pc \in TaskCode
                                    /\ context[stk].pc = "t_ret" /\ context[stk].stk = stk)
      BY <2>1, Zenon DEF SInv, OnTask, At, TaskCode, YieldCode, Inside, Cleared
    <2>5. OnBoot' /\ OnTask'
      BY <2>1, <2>2, <2>3, Zenon DEF procs, OnBoot, OnTask, MainCode, Window
    <2>6. Saves'
      <3>1. \A s \in Slots : ~ Unfinished(s) /\ ~ Unfinished(s)'
        BY <2>1, <2>3, Zenon DEF Unfinished
      <3>2. UNCHANGED <<state, context, frame>> /\ stk' = Boot
        BY <2>2, Zenon DEF procs
      <3> QED
        BY <2>1, <2>4, <3>1, <3>2, Zenon DEF SInv, Saves
    <2>7. Masks'
      BY <2>1, <2>2, <2>3, <2>4, Zenon DEF procs, SInv, Masks, Suspended
    <2>8. Rets'
      BY <2>2, Zenon DEF SInv, Rets
    <2> QED
      BY <1>0, <2>2, <2>5, <2>6, <2>7, <2>8, Zenon DEF procs, SInv
  <1> QED
    BY <1>1, <1>2, <1>3, <1>4, Zenon

\* forkret and the task.
LEMMA ProcessSteps ==
  ASSUME SInv, TInv',
         forkret \/ TaskReturns \/ ForkretExit
  PROVE  SInv'
  <1>0. TInv'
    OBVIOUS
  <1>1. CASE forkret
    <2>1. stk \in Slots /\ ~ InHandler /\ At = pc /\ Locals = reg /\ current = stk /\ pc \in TaskCode
      BY <1>1, InTask, Zenon DEF forkret, TaskCode
    <2>2. pc' = "task" /\ UNCHANGED <<procs, stk, reg, frame, sie>>
      BY <1>1, <2>1, Zenon DEF forkret, Goto
    <2>3. ~ InHandler' /\ At' = pc' /\ Locals' = reg'
      BY <2>2, Zenon DEF InHandler, At, Locals
    <2>4. OnBoot' /\ OnTask'
      <3>1. OnBoot'
        BY <2>1, <2>2, Zenon DEF OnBoot
      <3>2. OnTask'
        BY <2>1, <2>2, <2>3, Zenon DEF procs, SInv, OnTask, TaskCode, YieldCode, Inside, Cleared
      <3> QED
        BY <3>1, <3>2, Zenon
    <2>5. Saves' /\ \A s \in Slots : Suspended(s)' => Suspended(s)
      <3>1. state'[stk] # "UNUSED"
        BY <2>1, <2>2, <2>4, Zenon DEF OnTask
      <3> QED
        BY <2>1, <2>2, <3>1, SavesKept, Zenon DEF procs
    <2> QED
      BY <1>0, <2>1, <2>2, <2>3, <2>4, <2>5, StackKeeps, Zenon DEF procs, SInv, Rets
  <1>2. CASE TaskReturns
    <2>1. stk \in Slots /\ ~ InHandler /\ At = pc /\ Locals = reg /\ current = stk /\ pc \in TaskCode
      BY <1>2, InTask, Zenon DEF TaskReturns, TaskCode
    <2>2. pc' = "f_exit" /\ UNCHANGED <<procs, stk, reg, frame, sie>>
      BY <1>2, <2>1, Zenon DEF TaskReturns, Goto
    <2>3. ~ InHandler' /\ At' = pc' /\ Locals' = reg'
      BY <2>2, Zenon DEF InHandler, At, Locals
    <2>4. OnBoot' /\ OnTask'
      <3>1. OnBoot'
        BY <2>1, <2>2, Zenon DEF OnBoot
      <3>2. OnTask'
        BY <2>1, <2>2, <2>3, Zenon DEF procs, SInv, OnTask, TaskCode, YieldCode, Inside, Cleared
      <3> QED
        BY <3>1, <3>2
    <2>5. Saves' /\ \A s \in Slots : Suspended(s)' => Suspended(s)
      <3>1. state'[stk] # "UNUSED"
        BY <2>1, <2>2, <2>4, Zenon DEF OnTask
      <3> QED
        BY <2>1, <2>2, <3>1, SavesKept, Zenon DEF procs
    <2> QED
      BY <1>0, <2>1, <2>2, <2>3, <2>4, <2>5, StackKeeps, Zenon DEF procs, SInv, Rets
  <1>3. CASE ForkretExit
    <2>1. stk \in Slots /\ ~ InHandler /\ At = pc /\ Locals = reg /\ current = stk /\ pc \in TaskCode
      BY <1>3, InTask, Zenon DEF ForkretExit, TaskCode
    <2>2. pc' = "y_read" /\ reg'.ret = "f_spin" /\ UNCHANGED <<current, context, sched_context, stk, frame, sie>>
      BY <1>3, Zenon DEF ForkretExit, Goto, SInv, TInv, Typed, Regs
    <2>3. state' \in States /\ state'[stk] = "ZOMBIE" /\ \A s \in Slots \ {stk} : state'[s] = state[s]
      BY <1>3, <2>1, Zenon DEF ForkretExit, SInv, States
    <2>4. ~ InHandler' /\ At' = pc' /\ Locals' = reg'
      BY <2>2, Zenon DEF InHandler, At, Locals
    <2>5. OnBoot' /\ OnTask'
      <3>1. OnBoot'
        BY <2>1, <2>2, Zenon DEF OnBoot
      <3>2. OnTask'
        BY <2>1, <2>2, <2>3, <2>4, Zenon DEF SInv, OnTask, TaskCode, YieldCode, Inside, Cleared
      <3> QED
        BY <3>1, <3>2
    <2>6. Saves' /\ \A s \in Slots : Suspended(s)' => Suspended(s)
      BY <2>1, <2>2, <2>3, SavesKept, Zenon
    <2> QED
      BY <1>0, <2>1, <2>2, <2>3, <2>4, <2>5, <2>6, StackKeeps, Zenon
  <1> QED
    BY <1>1, <1>2, <1>3, Zenon

-----------------------------------------------------------------------------
(***************************************************************************)
(* All steps, and what the invariant gives                                 *)
(***************************************************************************)
\* Every step but a tick in the window keeps it.
LEMMA StepSwitch ==
  ASSUME ~ WindowTicks, SInv, [Next]_vars
  PROVE  SInv'
  <1>0. TInv'
    BY StepTyped, Zenon DEF SInv
  <1>1. CASE UNCHANGED <<procs, hart, frame, sie>>
    <2>1. stk' = stk /\ InHandler' = InHandler /\ At' = At /\ Locals' = Locals
      BY <1>1, Zenon DEF hart, InHandler, At, Locals
    <2>2. OnBoot' /\ OnTask'
      BY <1>1, <2>1, Zenon DEF procs, hart, SInv, OnBoot, OnTask
    <2>3. Saves' /\ \A s \in Slots : Suspended(s)' = Suspended(s)
      BY <1>1, <2>1, Zenon DEF procs, SInv, Saves, Suspended, Unfinished
    <2> QED
      BY <1>0, <1>1, <2>1, <2>2, <2>3, StackKeeps, Zenon DEF procs, hart, SInv, Rets
  <1> QED
    BY <1>0, <1>1, MainSteps, TrapSteps, YieldSteps, ProcessSteps, Zenon
       DEF Next, Instruction, Handler, yield, main, scheduler, Process, TaskStep, handle_m_interrupt,
           Halted, vars

\* Who waits in a trap and is not on its stack is suspended; the one on its
\* stack is then leaving through the handler, and no other is suspended.
LEMMA OnePreempted ==
  ASSUME SInv,
         NEW s \in Slots, state[s] = "RUNNABLE", context[s].pc = "t_ret",
         NEW t \in Slots, state[t] = "RUNNABLE", context[t].pc = "t_ret"
  PROVE  s = t
  <1>1. \A k \in Slots : state[k] = "RUNNABLE" /\ stk = k => InHandler
    BY Zenon DEF SInv, OnTask
  <1> QED
    BY <1>1, Zenon DEF SInv, Masks, Suspended

\* SInv implies what the runs check.
LEMMA Consequences ==
  ASSUME SInv
  PROVE  OwnStack /\ SwitchesToScheduler /\ ResumedUnmasked
  <1>1. OwnStack
    <2>1. \A s \in Slots : state[s] = "RUNNABLE" /\ stk # s /\ ~ BeingCreated(s) =>
                             context[s].stk = s /\ context[s].pc \in {"forkret", "t_ret"}
      <3>1. \A s \in Slots : Unfinished(s) => BeingCreated(s)
        BY Zenon DEF SInv, OnBoot, Unfinished, BeingCreated, At, Locals, InHandler, Inside, Cleared
      <3> QED
        BY <3>1, Zenon DEF SInv, Saves
    <2>2. stk # Boot /\ current # NULL => current = stk
      BY Zenon DEF SInv, OnTask
    <2>3. stk # Boot /\ pc \in {"forkret", "task", "f_exit"} => current = stk /\ state[stk] = "RUNNING"
      BY InTask, Zenon DEF TaskCode
    <2> QED
      BY <2>1, <2>2, <2>3, Zenon DEF OwnStack
  <1>2. SwitchesToScheduler
    BY InYield, Zenon DEF SwitchesToScheduler, SInv, OnTask, Inside, Cleared
  <1>3. ResumedUnmasked
    BY InTask, Zenon DEF ResumedUnmasked, SInv, Masks, TaskCode
  <1> QED
    BY <1>1, <1>2, <1>3, Zenon

\* With no tick in the window, SInv always holds.
LEMMA Switching == ASSUME ~ WindowTicks PROVE Spec => []SInv
  BY InitSwitch, StepSwitch, PTL DEF Spec

(***************************************************************************)
(* With no tick in the switch window, every waiting process has a context  *)
(* that resumes it on its own stack, and a process executes only there and *)
(* only while it is the current one (proc_create, swtch, scheduler),       *)
(* whatever the number of processes.                                       *)
(***************************************************************************)
THEOREM RunsOnOwnStack == ASSUME ~ WindowTicks PROVE Spec => []OwnStack
  BY Switching, Consequences, PTL

(***************************************************************************)
(* With no tick in the switch window, yield loads the context the          *)
(* scheduler saved when it dispatched this very process                    *)
(* (src/kernel/process.c:140): no other order of ticks loses the           *)
(* scheduler.                                                              *)
(***************************************************************************)
THEOREM ReturnsToScheduler == ASSUME ~ WindowTicks PROVE Spec => []SwitchesToScheduler
  BY Switching, Consequences, PTL

(***************************************************************************)
(* With no tick in the switch window, a process that was preempted once    *)
(* executes unmasked from then on, although swtch does not save sstatus    *)
(* (trap_vector, sret).                                                    *)
(***************************************************************************)
THEOREM ResumesUnmasked == ASSUME ~ WindowTicks PROVE Spec => []ResumedUnmasked
  BY Switching, Consequences, PTL

(***************************************************************************)
(* With no tick in the switch window, no two processes are suspended in a  *)
(* trap at the same time: swtch and forkret leave SIE as the trap of the   *)
(* first one set it.                                                       *)
(***************************************************************************)
THEOREM PreemptsOne == ASSUME ~ WindowTicks PROVE Spec => []PreemptedAlone
  <1>1. ASSUME SInv PROVE PreemptedAlone
    <2> DEFINE P == {s \in Slots : state[s] = "RUNNABLE" /\ context[s].pc = "t_ret"}
    <2>1. P = {} \/ \E s \in Slots : P = {s}
      BY <1>1, OnePreempted, Zenon
    <2>2. Cardinality(P) \in {0, 1}
      BY <2>1, FS_EmptySet, FS_Singleton, Zenon
    <2> QED
      BY <2>2 DEF PreemptedAlone
  <1> QED
    BY Switching, <1>1, PTL
=============================================================================

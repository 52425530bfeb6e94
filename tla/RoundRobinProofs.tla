-------------------------- MODULE RoundRobinProofs --------------------------
(***************************************************************************)
(* Proofs about the scheduling of Sched: for every number of slots, tasks  *)
(* and steps, with ticks anywhere but in the switch window, the subsystem  *)
(* implements RoundRobin, and the scheduler never finds an active process  *)
(* that it cannot run.                                                     *)
(*                                                                         *)
(* To the invariant SInv of the context switch RInv adds who may be        *)
(* RUNNING, what a pass without a process means, and the argument for the  *)
(* round: Turn is the slot that the pass comes to next.  Whoever waits     *)
(* before it has begun to wait in this pass, and only slots between the    *)
(* two were dispatched since; whoever waits at or after it has begun in    *)
(* the last pass or earlier, and only slots after it and slots before the  *)
(* turn were.                                                              *)
(***************************************************************************)
EXTENDS SchedProofs

Dispatching == {"s_current", "s_save", "s_load"}

\* Only the process on whose stack the hart is runs, or the one that the
\* scheduler is about to switch to.
Running ==
  \A s \in Slots : state[s] = "RUNNING" =>
    stk = s \/ (stk = Boot /\ At \in Dispatching /\ Locals.i = s)

\* A pass that has found nobody so far has seen nobody that could run; a
\* process gives it back to its own slot.
Pass ==
  /\ stk = Boot /\ At = "s_test" =>
       /\ Locals.i <= NPROC + 1
       /\ ~ Locals.found => \A s \in Slots : s < Locals.i => state[s] # "RUNNABLE"
  /\ stk = Boot /\ At = "s_back" => Locals.i \in Slots

\* The slot that the pass comes to next.
Turn ==
  IF stk # Boot THEN stk + 1
  ELSE IF At \in Dispatching \cup {"s_back"} THEN Locals.i + 1
  ELSE IF At = "s_test" THEN Locals.i ELSE 1

Rounds ==
  \A s, t \in Slots : state[s] = "RUNNABLE" /\ t \in passed[s] =>
    IF s < Turn THEN s < t /\ t < Turn ELSE t < Turn \/ s < t

\* A task that has returned, or was interrupted after that, has done its work.
Worked ==
  /\ work \in [Slots -> Nat] /\ passed \in [Slots -> SUBSET Slots]
  /\ pc = "f_exit" => work[stk] = 0
  /\ \A s \in Slots : frame[s].pc = "f_exit" => work[s] = 0

RInv == SInv /\ Running /\ Pass /\ Rounds /\ Worked

-----------------------------------------------------------------------------
\* The hart stays on the stack of a process; nobody starts to run, and
\* whoever begins to wait was passed by nobody yet.
LEMMA ProcessStays ==
  ASSUME RInv, stk \in Slots, stk' = stk,
         \A s \in Slots : state'[s] = "RUNNING" => state[s] = "RUNNING",
         \A s \in Slots : state'[s] = "RUNNABLE" =>
           passed'[s] = {} \/ (state[s] = "RUNNABLE" /\ passed'[s] = passed[s])
  PROVE  Running' /\ Pass' /\ Rounds'
  <1>1. Running'
    BY NotBoot, Zenon DEF RInv, Running
  <1>2. Pass'
    BY NotBoot, Zenon DEF Pass
  <1>3. Turn' = Turn
    BY NotBoot, Zenon DEF Turn
  <1>4. Rounds'
    BY <1>3, Zenon DEF RInv, Rounds
  <1> QED
    BY <1>1, <1>2, <1>4, Zenon

\* Nothing moves below the handler.
LEMMA NothingMoves ==
  ASSUME RInv, stk' = stk, At' = At, Locals' = Locals, UNCHANGED <<state, passed>>
  PROVE  Running' /\ Pass' /\ Rounds'
  <1>1. Running' /\ Pass'
    BY Zenon DEF RInv, Running, Pass
  <1>2. Turn' = Turn
    BY Zenon DEF Turn
  <1>3. Rounds'
    BY <1>2, Zenon DEF RInv, Rounds
  <1> QED
    BY <1>1, <1>3, Zenon

\* A trap, and the return from it, leaves what it interrupted as it is.
LEMMA TrapMoves ==
  ASSUME RInv, ~ WindowTicks, trap_vector \/ handle_timer_interrupt \/ TrapReturn
  PROVE  stk' = stk /\ At' = At /\ Locals' = Locals /\ UNCHANGED <<state, passed, work>>
  <1> USE DEF RInv, SInv
  <1>0. stk' = stk /\ UNCHANGED <<state, passed, work>>
    BY Zenon DEF trap_vector, handle_timer_interrupt, TrapReturn, Goto, procs, env
  <1>1. CASE trap_vector
    <2>1. ~ InHandler /\ stk \in Stacks /\ frame \in [Stacks -> Frames]
      BY <1>1, Zenon DEF trap_vector, Masks, TInv, Typed
    <2>2. frame'[stk] = [pc |-> pc, reg |-> reg] /\ InHandler'
      BY <1>1, <2>1, Zenon DEF trap_vector, Goto, InHandler
    <2> QED
      BY <1>0, <2>1, <2>2 DEF At, Locals
  <1>2. CASE handle_timer_interrupt
    <2>1. InHandler /\ InHandler' /\ frame' = frame
      BY <1>2, Zenon DEF handle_timer_interrupt, Goto, InHandler, TInv, Typed, Regs
    <2> QED
      BY <1>0, <2>1, Zenon DEF At, Locals
  <1>3. CASE TrapReturn
    <2>1. InHandler /\ pc' = At /\ reg' = Locals
      BY <1>3, Zenon DEF TrapReturn, Goto, InHandler, At, Locals
    <2>2. At \notin {"t_timer", "t_ret"}
      BY Zenon DEF OnBoot, OnTask, MainCode, Window, TaskCode, YieldCode, Inside, Cleared
    <2>3. reg'.ret # "t_ret"
      BY <1>3, Zenon DEF TrapReturn, Rets, TInv, Typed
    <2>4. ~ InHandler'
      BY <2>1, <2>2, <2>3, Zenon DEF InHandler
    <2> QED
      BY <1>0, <2>1, <2>4, Zenon DEF At, Locals
  <1> QED
    BY <1>1, <1>2, <1>3, Zenon

\* The first step of yield: on the boot stack the handler called it, and
\* goes back to its end.
LEMMA YieldReadMoves ==
  ASSUME RInv, YieldRead
  PROVE  Running' /\ Pass' /\ Rounds'
  <1> USE DEF RInv, SInv
  <1>1. pc = "y_read" /\ stk' = stk /\ UNCHANGED <<state, passed, frame>> /\ stk \in Stacks
    BY Zenon DEF YieldRead, Goto, procs, TInv, Typed
  <1>2. CASE stk = Boot
    <2>1. InHandler /\ reg.ret = "t_ret"
      BY <1>1, <1>2, Zenon DEF OnBoot, At, MainCode, Window, InHandler
    <2>2. reg'.ret = "t_ret" /\ pc' \in {"t_ret", "y_state"}
      BY <2>1, Zenon DEF YieldRead, Goto, TInv, Typed, Regs
    <2>3. InHandler'
      BY <2>2, Zenon DEF InHandler
    <2> QED
      BY <1>1, <2>1, <2>3, NothingMoves, Zenon DEF At, Locals
  <1>3. CASE stk \in Slots
    BY <1>1, <1>3, ProcessStays, Zenon
  <1> QED
    BY <1>1, <1>2, <1>3, NotBoot, Zenon

\* yield past its check, and the steps of a process.
LEMMA ProcessMoves ==
  ASSUME RInv, YieldState \/ YieldClear \/ YieldSave \/ forkret \/ TaskStep \/ TaskReturns \/ ForkretExit
  PROVE  Running' /\ Pass' /\ Rounds'
  <1> USE DEF RInv, SInv
  <1>1. CASE YieldState
    <2>1. stk \in Slots /\ reg.p = stk /\ stk' = stk
      BY <1>1, InYield, Zenon DEF YieldState, Goto, Inside
    <2>2. CASE state[stk] = "RUNNING"
      <3>1. state' = [state EXCEPT ![stk] = "RUNNABLE"] /\ passed' = [passed EXCEPT ![stk] = {}]
        BY <1>1, <2>1, <2>2, Zenon DEF YieldState
      <3> QED
        BY <2>1, <3>1, ProcessStays, Zenon DEF States, Worked
    <2>3. CASE state[stk] # "RUNNING"
      <3>1. UNCHANGED <<state, passed>>
        BY <1>1, <2>1, <2>3, Zenon DEF YieldState
      <3> QED
        BY <2>1, <3>1, ProcessStays, Zenon
    <2> QED
      BY <2>2, <2>3, Zenon
  <1>2. CASE YieldClear \/ YieldSave
    <2>1. stk \in Slots /\ stk' = stk /\ UNCHANGED <<state, passed>>
      BY <1>2, InYield, Zenon DEF YieldClear, YieldSave, Goto, Inside, Cleared
    <2> QED
      BY <2>1, ProcessStays, Zenon
  <1>3. CASE forkret \/ TaskStep \/ TaskReturns
    <2>1. stk \in Slots /\ stk' = stk /\ UNCHANGED <<state, passed>>
      BY <1>3, InTask, Zenon DEF forkret, TaskStep, TaskReturns, Goto, TaskCode, procs, hart
    <2> QED
      BY <2>1, ProcessStays, Zenon
  <1>4. CASE ForkretExit
    <2>1. stk \in Slots /\ stk' = stk /\ current = stk
      BY <1>4, InTask, Zenon DEF ForkretExit, Goto, TaskCode
    <2>2. state' = [state EXCEPT ![stk] = "ZOMBIE"] /\ passed' = passed
      BY <1>4, <2>1, NotBoot, Zenon DEF ForkretExit
    <2> QED
      BY <2>1, <2>2, ProcessStays, Zenon DEF States
  <1> QED
    BY <1>1, <1>2, <1>3, <1>4, Zenon

\* The switch to a process, and back to the scheduler.
LEMMA SwitchMoves ==
  ASSUME RInv, SInv', SchedLoad \/ YieldLoad
  PROVE  Running' /\ Pass' /\ Rounds'
  <1> USE DEF RInv, SInv
  <1>1. CASE SchedLoad
    <2>1. stk = Boot /\ At = "s_load" /\ Locals = reg /\ UNCHANGED <<state, passed>>
      BY <1>1, InMain, Zenon DEF SchedLoad, Window, procs
    <2>2. reg.i \in Slots /\ state[reg.i] = "RUNNING"
      <3>1. reg.i \in Slots
        BY <1>1, Zenon DEF SchedLoad, TInv, Typed, Indexed, UsesI
      <3>2. state[reg.i] = "RUNNING"
        BY <2>1, Zenon DEF OnBoot
      <3> QED
        BY <3>1, <3>2, Zenon
    <2>3. context[reg.i].stk = reg.i
      BY <2>1, <2>2, NotBoot, Zenon DEF Saves, Unfinished
    <2>4. stk' = reg.i
      BY <1>1, <2>3, Zenon DEF SchedLoad, Load
    <2>5. Running'
      BY <2>1, <2>4, NotBoot, Zenon DEF Running
    <2>6. Pass'
      BY <2>2, <2>4, NotBoot, Zenon DEF Pass
    <2>7. Turn' = Turn
      BY <2>1, <2>2, <2>4, NotBoot, Zenon DEF Turn, Dispatching
    <2>8. Rounds'
      BY <2>1, <2>7, Zenon DEF Rounds
    <2> QED
      BY <2>5, <2>6, <2>8, Zenon
  <1>2. CASE YieldLoad
    <2>1. stk \in Slots /\ pc = "y_load" /\ UNCHANGED <<state, passed>>
      BY <1>2, InYield, Zenon DEF YieldLoad, Inside, Cleared, procs
    <2>2. sched_context = [pc |-> "s_back", stk |-> Boot, i |-> stk] /\ state[stk] # "RUNNING"
      <3>1. stk # Boot /\ pc \in Inside \ {"y_state"}
        BY <2>1, NotBoot, Zenon DEF Inside, Cleared
      <3>2. InHandler \/ At = pc
        BY Zenon DEF At
      <3> QED
        BY <3>1, <3>2, Zenon DEF OnTask, YieldCode
    <2>3. pc' = "s_back" /\ stk' = Boot /\ reg' = [NoReg EXCEPT !.i = stk]
      BY <1>2, <2>2, Zenon DEF YieldLoad, Load
    <2>4. reg'.i = stk
      BY <2>3, Zenon DEF NoReg
    <2>5. ~ InHandler' /\ At' = "s_back" /\ Locals' = reg'
      BY <2>3, Zenon DEF InHandler, At, Locals
    <2>6. Running'
      BY <2>1, <2>2, NotBoot, Zenon DEF Running
    <2>7. Pass'
      BY <2>1, <2>4, <2>5, Zenon DEF Pass
    <2>8. Turn' = Turn
      BY <2>1, <2>3, <2>4, <2>5, NotBoot DEF Turn
    <2>9. Rounds'
      BY <2>1, <2>8, Zenon DEF Rounds
    <2> QED
      BY <2>6, <2>7, <2>9
  <1> QED
    BY <1>1, <1>2, Zenon

\* main: nobody runs yet, and no turn has been taken.
LEMMA MainMoves ==
  ASSUME RInv, ArmTimer \/ intr_on \/ proc_init \/ ProcAlloc \/ ProcPublish \/ ProcContext \/ StartScheduler
  PROVE  Running' /\ Pass' /\ Rounds'
  <1> USE DEF RInv, SInv
  <1> DEFINE Before == {"m_timer", "m_on", "m_init", "m_create", "c_state", "c_context", "s_top"}
  <1>1. pc \in Before \ {"s_top"} /\ pc' \in Before
    BY Zenon DEF ArmTimer, intr_on, proc_init, ProcAlloc, ProcPublish, ProcContext, StartScheduler, Goto
  <1>2. stk = Boot /\ At = pc /\ Locals = reg /\ At' = pc'
    BY <1>1, InMain, ToMain, Zenon DEF MainCode
  <1>3. stk' = Boot
    BY <1>2, Zenon DEF ArmTimer, intr_on, proc_init, ProcAlloc, ProcPublish, ProcContext, StartScheduler, Goto
  <1>4. Turn = 1 /\ Turn' = 1
    BY <1>1, <1>2, <1>3, Zenon DEF Turn, Dispatching
  <1>5. Pass'
    BY <1>1, <1>2, Zenon DEF Pass
  <1>6. \A s \in Slots : state[s] # "RUNNING"
    BY <1>1, <1>2, NotBoot, Zenon DEF Running, Dispatching
  <1>7. CASE proc_init
    <2>1. \A s \in Slots : state'[s] = "UNUSED"
      BY <1>7, Zenon DEF proc_init
    <2> QED
      BY <1>5, <2>1, Zenon DEF Running, Rounds
  <1>8. CASE ProcPublish
    <2>1. reg.p \in Slots
      BY <1>8, Zenon DEF ProcPublish, TInv, Typed, Indexed, UsesP
    <2>2. /\ state'[reg.p] = "RUNNABLE" /\ passed'[reg.p] = {}
          /\ \A s \in Slots \ {reg.p} : state'[s] = state[s] /\ passed'[s] = passed[s]
      BY <1>8, <2>1, Zenon DEF ProcPublish, States, Worked
    <2>3. Running'
      BY <1>6, <2>2, Zenon DEF Running
    <2>4. Rounds'
      BY <1>4, <2>2, Zenon DEF Rounds
    <2> QED
      BY <1>5, <2>3, <2>4, Zenon
  <1>9. CASE ArmTimer \/ intr_on \/ ProcAlloc \/ ProcContext \/ StartScheduler
    <2>1. UNCHANGED <<state, passed>>
      BY <1>9, Zenon DEF ArmTimer, intr_on, ProcAlloc, ProcContext, StartScheduler, procs
    <2> QED
      BY <1>4, <1>5, <1>6, <2>1, Zenon DEF Running, Rounds
  <1> QED
    BY <1>7, <1>8, <1>9, Zenon

\* The scheduler on its own stack: the turn goes round.
LEMMA SchedulerMoves ==
  ASSUME RInv, PassBegins \/ Skip \/ Pick \/ SetCurrent \/ SchedSave \/ SchedBack \/ PassEnds
  PROVE  Running' /\ Pass' /\ Rounds'
  <1> USE DEF RInv, SInv
  <1> DEFINE Code == {"s_top", "s_test", "s_back", "ended"} \cup Dispatching
  <1>1. pc \in Code /\ pc' \in Code /\ stk' = stk
    BY Zenon DEF PassBegins, Skip, Pick, SetCurrent, SchedSave, SchedBack, PassEnds, Goto, Dispatching
  <1>2. stk = Boot /\ At = pc /\ Locals = reg /\ At' = pc' /\ Locals' = reg'
    BY <1>1, InMain, ToMain, Zenon DEF MainCode, Window, Dispatching
  <1>3. stk' = Boot
    BY <1>1, <1>2, Zenon
  <1>4. reg \in Regs /\ reg.i \in Nat \ {0}
    BY Zenon DEF TInv, Typed, Regs
  <1>5. pc \notin Dispatching => \A s \in Slots : state[s] # "RUNNING"
    BY <1>2, NotBoot, Zenon DEF Running
  <1>6. CASE PassBegins
    <2>1. pc = "s_top" /\ pc' = "s_test" /\ reg'.i = 1 /\ UNCHANGED <<state, passed>>
      BY <1>4, <1>6, Zenon DEF PassBegins, Goto, Regs, procs
    <2>2. Turn = 1 /\ Turn' = 1
      BY <1>2, <1>3, <2>1 DEF Turn, Dispatching
    <2>3. Pass'
      BY <1>2, <2>1, SchedAssumption DEF Pass, Slots
    <2> QED
      BY <1>5, <2>1, <2>2, <2>3, Zenon DEF Running, Rounds, Dispatching
  <1>7. CASE Skip
    <2>1. pc = "s_test" /\ pc' = "s_test" /\ reg'.i = reg.i + 1 /\ reg'.found = reg.found
          /\ UNCHANGED <<state, passed>> /\ reg.i \in Slots /\ state[reg.i] # "RUNNABLE"
      BY <1>4, <1>7, SchedAssumption DEF Skip, Regs, procs, Slots
    <2>2. Turn = reg.i /\ Turn' = reg.i + 1
      BY <1>2, <1>3, <2>1, Zenon DEF Turn, Dispatching
    <2>3. Pass'
      BY <1>2, <2>1, SchedAssumption DEF Pass, Slots
    <2>4. Rounds'
      BY <2>1, <2>2, SchedAssumption DEF Rounds, Slots
    <2> QED
      BY <1>5, <2>1, <2>3, <2>4, Zenon DEF Running, Dispatching
  <1>8. CASE Pick
    <2>1. pc = "s_test" /\ pc' = "s_current" /\ reg' = reg /\ reg.i \in Slots
      BY <1>4, <1>8, SchedAssumption DEF Pick, Goto, Slots
    <2>2. state'[reg.i] = "RUNNING" /\ (\A s \in Slots \ {reg.i} : state'[s] = state[s])
          /\ \A s \in Slots : state'[s] = "RUNNABLE" => s # reg.i /\ passed'[s] = passed[s] \cup {reg.i}
      BY <1>8, <2>1, Zenon DEF Pick, States
    <2>3. Turn = reg.i /\ Turn' = reg.i + 1
      BY <1>2, <1>3, <2>1, Zenon DEF Turn, Dispatching
    <2>4. Running'
      BY <1>2, <1>3, <1>5, <2>1, <2>2, Zenon DEF Running, Dispatching
    <2>5. Rounds'
      <3> SUFFICES ASSUME NEW s \in Slots, NEW t \in Slots, state'[s] = "RUNNABLE", t \in passed'[s]
                   PROVE  IF s < reg.i + 1 THEN s < t /\ t < reg.i + 1 ELSE t < reg.i + 1 \/ s < t
        BY <2>3, Zenon DEF Rounds
      <3>1. s # reg.i /\ state[s] = "RUNNABLE" /\ (t \in passed[s] \/ t = reg.i)
        BY <2>1, <2>2
      <3>2. t \in passed[s] => IF s < reg.i THEN s < t /\ t < reg.i ELSE t < reg.i \/ s < t
        BY <2>3, <3>1, Zenon DEF Rounds
      <3> QED
        BY <2>1, <3>1, <3>2, SchedAssumption DEF Slots
    <2> QED
      BY <1>2, <2>1, <2>4, <2>5, Zenon DEF Pass
  <1>9. CASE SetCurrent \/ SchedSave
    <2>1. pc \in Dispatching /\ pc' \in Dispatching /\ UNCHANGED <<reg, state, passed>>
      BY <1>9, Zenon DEF SetCurrent, SchedSave, Goto, Dispatching
    <2>2. Turn' = Turn
      BY <1>2, <1>3, <2>1, Zenon DEF Turn
    <2> QED
      BY <1>2, <1>3, <2>1, <2>2, Zenon DEF Running, Pass, Rounds, Dispatching
  <1>10. CASE SchedBack
    <2>1. pc = "s_back" /\ pc' = "s_test" /\ reg'.i = reg.i + 1 /\ reg'.found /\ UNCHANGED <<state, passed>>
      BY <1>4, <1>10, Zenon DEF SchedBack, Goto, Regs
    <2>2. reg.i \in Slots
      BY <1>2, <2>1, Zenon DEF Pass
    <2>3. Turn' = Turn
      BY <1>2, <1>3, <2>1, Zenon DEF Turn, Dispatching
    <2>4. Pass'
      BY <1>2, <2>1, <2>2, SchedAssumption DEF Pass, Slots
    <2> QED
      BY <1>5, <2>1, <2>3, <2>4, Zenon DEF Running, Rounds, Dispatching
  <1>11. CASE PassEnds
    <2>1. pc = "s_test" /\ pc' \in {"s_top", "ended"} /\ reg.i > NPROC /\ UNCHANGED <<state, passed>>
      BY <1>11, Zenon DEF PassEnds, Goto, procs
    <2>2. reg.i = NPROC + 1
      BY <1>2, <1>4, <2>1, SchedAssumption DEF Pass
    <2>3. Turn = NPROC + 1 /\ Turn' = 1
      BY <1>2, <1>3, <2>1, <2>2, Zenon DEF Turn, Dispatching
    <2>4. Rounds'
      BY <2>1, <2>3, SchedAssumption DEF Rounds, Slots
    <2> QED
      BY <1>2, <1>5, <2>1, <2>4, Zenon DEF Running, Pass, Dispatching
  <1> QED
    BY <1>6, <1>7, <1>8, <1>9, <1>10, <1>11, Zenon

-----------------------------------------------------------------------------
\* A task returns when its work is done, and is not given more.
LEMMA WorkKeeps ==
  ASSUME RInv, ~ WindowTicks, [Next]_vars
  PROVE  /\ work' \in [Slots -> Nat]
         /\ pc' = "f_exit" => work'[stk'] = 0
         /\ \A s \in Slots : frame'[s].pc = "f_exit" => work'[s] = 0
  <1> USE DEF RInv, SInv
  <1>1. CASE TaskStep
    <2>1. stk \in Slots /\ pc = "task" /\ pc' = "task" /\ frame' = frame
      BY <1>1, InTask, Zenon DEF TaskStep, TaskCode, hart
    <2>2. work[stk] > 0 /\ work' = [work EXCEPT ![stk] = work[stk] - 1]
      BY <1>1, Zenon DEF TaskStep
    <2> QED
      BY <2>1, <2>2 DEF Worked
  <1>2. CASE trap_vector
    <2>1. pc' = "t_timer" /\ work' = work /\ frame' = [frame EXCEPT ![stk] = [pc |-> pc, reg |-> reg]]
          /\ frame \in [Stacks -> Frames] /\ stk \in Stacks
      BY <1>2, Zenon DEF trap_vector, Goto, env, TInv, Typed
    <2>2. \A s \in Slots : frame'[s] = (IF s = stk THEN [pc |-> pc, reg |-> reg] ELSE frame[s])
      BY <2>1, NotBoot, Zenon
    <2> QED
      BY <2>1, <2>2, Zenon DEF Worked
  <1>3. ASSUME UNCHANGED <<work, frame>>, pc' = "f_exit" => work[stk'] = 0
        PROVE  /\ work' \in [Slots -> Nat]
               /\ pc' = "f_exit" => work'[stk'] = 0
               /\ \A s \in Slots : frame'[s].pc = "f_exit" => work'[s] = 0
    BY <1>3, Zenon DEF Worked
  <1>4. CASE TrapReturn
    <2>1. UNCHANGED <<work, frame>> /\ pc' = frame[stk].pc /\ stk' = stk /\ At = frame[stk].pc /\ stk \in Stacks
      BY <1>4, Zenon DEF TrapReturn, Goto, env, At, InHandler, TInv, Typed
    <2>2. pc' = "f_exit" => stk \in Slots
      BY <2>1, NotBoot, Zenon DEF OnBoot, MainCode, Window
    <2> QED
      BY <1>3, <2>1, <2>2, Zenon DEF Worked
  <1>5. CASE YieldRead
    <2>1. UNCHANGED <<work, frame>> /\ pc' # "f_exit"
      BY <1>5, Zenon DEF YieldRead, Goto, env, TInv, Typed, Regs, Returns
    <2> QED
      BY <1>3, <2>1, Zenon
  <1>6. CASE SchedLoad
    <2>1. stk = Boot /\ At = "s_load" /\ Locals = reg /\ UNCHANGED <<work, frame>>
      BY <1>6, InMain, Zenon DEF SchedLoad, Window, env
    <2>2. reg.i \in Slots /\ state[reg.i] = "RUNNING"
      <3>1. reg.i \in Slots
        BY <1>6, Zenon DEF SchedLoad, TInv, Typed, Indexed, UsesI
      <3>2. state[reg.i] = "RUNNING"
        BY <2>1, Zenon DEF OnBoot
      <3> QED
        BY <3>1, <3>2, Zenon
    <2>3. context[reg.i].pc \in {"forkret", "t_ret"}
      BY <2>1, <2>2, NotBoot, Zenon DEF Saves, Unfinished
    <2> QED
      BY <1>3, <1>6, <2>1, <2>3, Zenon DEF SchedLoad, Load
  <1>7. CASE YieldLoad
    <2>1. stk \in Slots /\ UNCHANGED <<work, frame>>
      BY <1>7, InYield, Zenon DEF YieldLoad, Inside, Cleared, env
    <2>2. pc' = "s_back"
      BY <1>7, <2>1, NotBoot DEF YieldLoad, Load, OnTask
    <2> QED
      BY <1>3, <2>1, <2>2, Zenon
  <1>8. CASE forkret \/ TaskReturns
    <2>1. stk \in Slots /\ current = stk
      BY <1>8, InTask, Zenon DEF forkret, TaskReturns, TaskCode
    <2> QED
      BY <1>3, <1>8, <2>1, NotBoot, Zenon DEF forkret, TaskReturns, Goto, env
  <1>9. CASE \/ handle_timer_interrupt \/ main \/ ForkretExit
             \/ YieldState \/ YieldClear \/ YieldSave
             \/ PassBegins \/ Skip \/ Pick \/ SetCurrent \/ SchedSave \/ SchedBack \/ PassEnds
    <2>1. pc' # "f_exit"
      BY <1>9, Zenon DEF handle_timer_interrupt, main, ForkretExit, YieldState, YieldClear, YieldSave,
                  PassBegins, Skip, Pick, SetCurrent, SchedSave, SchedBack, PassEnds, Goto,
                  ArmTimer, intr_on, proc_init, ProcAlloc, ProcPublish, ProcContext, StartScheduler
    <2>2. UNCHANGED <<work, frame>>
      BY <1>9, Zenon DEF handle_timer_interrupt, main, ForkretExit, YieldState, YieldClear, YieldSave,
                  PassBegins, Skip, Pick, SetCurrent, SchedSave, SchedBack, PassEnds, env,
                  ArmTimer, intr_on, proc_init, ProcAlloc, ProcPublish, ProcContext, StartScheduler
    <2> QED
      BY <1>3, <2>1, <2>2, Zenon
  <1>10. CASE handle_m_interrupt \/ UNCHANGED vars
    <2>1. UNCHANGED <<pc, stk, work, frame>>
      BY <1>10, Zenon DEF handle_m_interrupt, vars, hart, env
    <2> QED
      BY <1>3, <2>1, Zenon DEF Worked
  <1> QED
    BY <1>1, <1>2, <1>4, <1>5, <1>6, <1>7, <1>8, <1>9, <1>10, Zenon
       DEF Next, Instruction, Handler, yield, scheduler, Process, Halted

\* Only slots pass.
LEMMA PassedTyped ==
  ASSUME RInv, [Next]_vars
  PROVE  passed' \in [Slots -> SUBSET Slots]
  <1> USE DEF RInv, SInv
  <1>1. CASE ProcPublish \/ YieldState
    BY <1>1, Zenon DEF ProcPublish, YieldState, Worked
  <1>2. CASE Pick
    <2>1. reg.i \in Slots
      BY <1>2, SchedAssumption DEF Pick, TInv, Typed, Regs, Slots
    <2> QED
      BY <1>2, <2>1, Zenon DEF Pick, Worked
  <1>3. CASE passed' = passed
    BY <1>3, Zenon DEF Worked
  <1>4. [Next]_vars => ProcPublish \/ YieldState \/ Pick \/ passed' = passed
    BY Zenon DEF Next, Instruction, Handler, yield, main, scheduler, Process, Halted, vars,
           trap_vector, handle_timer_interrupt, TrapReturn, handle_m_interrupt,
           YieldRead, YieldClear, YieldSave, YieldLoad,
           ArmTimer, intr_on, proc_init, ProcAlloc, ProcContext, StartScheduler,
           PassBegins, Skip, SetCurrent, SchedSave, SchedLoad, SchedBack, PassEnds,
           forkret, TaskStep, TaskReturns, ForkretExit
  <1> QED
    BY <1>1, <1>2, <1>3, <1>4, Zenon

\* Every step but a tick in the window keeps the invariant.
LEMMA StepRounds ==
  ASSUME RInv, ~ WindowTicks, [Next]_vars
  PROVE  RInv'
  <1>1. SInv'
    BY StepSwitch, Zenon DEF RInv
  <1>2. Worked'
    BY WorkKeeps, PassedTyped, Zenon DEF Worked
  <1>3. Running' /\ Pass' /\ Rounds'
    <2>1. CASE trap_vector \/ handle_timer_interrupt \/ TrapReturn
      BY <2>1, TrapMoves, NothingMoves, Zenon
    <2>2. CASE YieldRead
      BY <2>2, YieldReadMoves, Zenon
    <2>3. CASE YieldState \/ YieldClear \/ YieldSave \/ Process
      BY <2>3, ProcessMoves, Zenon DEF Process
    <2>4. CASE SchedLoad \/ YieldLoad
      BY <1>1, <2>4, SwitchMoves, Zenon
    <2>5. CASE main
      BY <2>5, MainMoves, Zenon DEF main
    <2>6. CASE PassBegins \/ Skip \/ Pick \/ SetCurrent \/ SchedSave \/ SchedBack \/ PassEnds
      BY <2>6, SchedulerMoves, Zenon
    <2>7. CASE handle_m_interrupt \/ UNCHANGED vars
      <3>1. stk' = stk /\ At' = At /\ Locals' = Locals /\ UNCHANGED <<state, passed>>
        BY <2>7, Zenon DEF handle_m_interrupt, vars, procs, hart, At, Locals, InHandler
      <3> QED
        BY <3>1, NothingMoves, Zenon
    <2> QED
      BY <2>1, <2>2, <2>3, <2>4, <2>5, <2>6, <2>7, Zenon
         DEF Next, Instruction, Handler, yield, scheduler, Halted
  <1> QED
    BY <1>1, <1>2, <1>3, Zenon DEF RInv

\* Before main nobody waits.
LEMMA InitRounds == Init => RInv
  <1> SUFFICES ASSUME Init PROVE RInv
    OBVIOUS
  <1>1. SInv
    BY InitSwitch, Zenon
  <1>2. At = "m_timer" /\ \A s \in Slots : state[s] = "UNUSED"
    BY Zenon DEF Init, At, InHandler
  <1>3. Running /\ Pass /\ Rounds
    BY <1>2, Zenon DEF Running, Pass, Rounds
  <1>4. Worked
    BY NotBoot, SchedAssumption DEF Init, Worked
  <1> QED
    BY <1>1, <1>3, <1>4, Zenon DEF RInv

LEMMA Rounding == ASSUME ~ WindowTicks PROVE Spec => []RInv
  BY InitRounds, StepRounds, PTL DEF Spec

-----------------------------------------------------------------------------
(***************************************************************************)
(* Every step is one of RoundRobin, or none                                *)
(***************************************************************************)
\* The steps that neither change a state nor work.
LEMMA Stutters ==
  ASSUME RInv, [Next]_vars,
         ~ ProcPublish, ~ Pick, ~ YieldState, ~ TaskStep, ~ ForkretExit
  PROVE  UNCHANGED <<state, work, passed>>
  <1> USE DEF RInv, SInv
  <1>1. CASE proc_init
    <2>1. stk = Boot /\ At = "m_init"
      BY <1>1, InMain, Zenon DEF proc_init, MainCode
    <2>2. \A s \in Slots : state[s] = "UNUSED"
      BY <2>1, Zenon DEF OnBoot
    <2>3. state' = state
      <3>1. state' = [s \in Slots |-> "UNUSED"] /\ state = [s \in Slots |-> state[s]]
        BY <1>1, Zenon DEF proc_init, States
      <3> QED
        BY <2>2, <3>1
    <2> QED
      BY <1>1, <2>3, Zenon DEF proc_init, env
  <1>2. CASE ~ proc_init
    BY <1>2, Zenon DEF Next, Instruction, Handler, yield, main, scheduler, Process, Halted, vars, procs, env,
           trap_vector, handle_timer_interrupt, TrapReturn, handle_m_interrupt,
           YieldRead, YieldClear, YieldSave, YieldLoad,
           ArmTimer, intr_on, ProcAlloc, ProcContext, StartScheduler,
           PassBegins, Skip, SetCurrent, SchedSave, SchedLoad, SchedBack, PassEnds,
           forkret, TaskReturns
  <1> QED
    BY <1>1, <1>2, Zenon

\* Each of the others is the step of one slot.
LEMMA StepImplements ==
  ASSUME RInv, [Next]_vars
  PROVE  RR!RRNext \/ UNCHANGED <<state, work, passed>>
  <1> USE DEF RInv, SInv
  <1>1. CASE ProcPublish
    <2>1. stk = Boot /\ At = "c_state" /\ Locals = reg
      BY <1>1, InMain, Zenon DEF ProcPublish, MainCode
    <2>2. reg.p \in Slots /\ state[reg.p] = "UNUSED"
      <3>1. reg.p \in Slots
        BY <1>1, Zenon DEF ProcPublish, TInv, Typed, Indexed, UsesP
      <3>2. state[reg.p] = "UNUSED"
        BY <2>1, Zenon DEF OnBoot
      <3> QED
        BY <3>1, <3>2, Zenon
    <2>3. RR!Create(reg.p)
      BY <1>1, <2>2, Zenon DEF ProcPublish, env, RR!Create, RR!Enter
    <2> QED
      BY <2>2, <2>3, Zenon DEF RR!RRNext
  <1>2. CASE Pick
    <2>1. stk = Boot /\ At = "s_test" /\ Locals = reg
      BY <1>2, InMain, Zenon DEF Pick, MainCode
    <2>2. reg.i \in Slots /\ Turn = reg.i
      BY <1>2, <2>1, SchedAssumption DEF Pick, TInv, Typed, Regs, Slots, Turn, Dispatching
    <2>3. \A t \in Slots : state[t] # "RUNNING"
      BY <2>1, NotBoot, Zenon DEF Running, Dispatching
    <2>4. \A t \in Slots : state[t] = "RUNNABLE" => reg.i \notin passed[t]
      BY <2>2, SchedAssumption DEF Rounds, Slots
    <2>5. RR!Dispatch(reg.i)
      BY <1>2, <2>3, <2>4, Zenon DEF Pick, env, RR!Dispatch
    <2> QED
      BY <2>2, <2>5, Zenon DEF RR!RRNext
  <1>3. CASE YieldState
    <2>1. stk \in Slots /\ reg.p = stk
      BY <1>3, InYield, Zenon DEF YieldState, Inside
    <2>2. CASE state[stk] = "RUNNING"
      <3>1. RR!Yield(stk)
        BY <1>3, <2>1, <2>2, Zenon DEF YieldState, env, RR!Yield, RR!Enter
      <3> QED
        BY <2>1, <3>1, Zenon DEF RR!RRNext
    <2>3. CASE state[stk] # "RUNNING"
      BY <1>3, <2>1, <2>3, Zenon DEF YieldState, env
    <2> QED
      BY <2>2, <2>3, Zenon
  <1>4. CASE TaskStep
    <2>1. stk \in Slots /\ state[stk] = "RUNNING"
      BY <1>4, InTask, Zenon DEF TaskStep, TaskCode
    <2>2. RR!Work(stk)
      BY <1>4, <2>1, Zenon DEF TaskStep, procs, RR!Work
    <2> QED
      BY <2>1, <2>2, Zenon DEF RR!RRNext
  <1>5. CASE ForkretExit
    <2>1. stk \in Slots /\ state[stk] = "RUNNING" /\ current = stk /\ work[stk] = 0
      BY <1>5, InTask, Zenon DEF ForkretExit, TaskCode, Worked
    <2>2. RR!Exit(stk)
      BY <1>5, <2>1, NotBoot, Zenon DEF ForkretExit, env, RR!Exit
    <2> QED
      BY <2>1, <2>2, Zenon DEF RR!RRNext
  <1> QED
    BY <1>1, <1>2, <1>3, <1>4, <1>5, Stutters, Zenon

(***************************************************************************)
(* With no tick in the switch window the process subsystem implements      *)
(* RoundRobin, whatever the number of slots, tasks and steps: one process  *)
(* runs at a time, only that one makes progress, it ends only when its     *)
(* work is done, and nobody is dispatched twice while another waits        *)
(* (scheduler, yield, forkret, proc_create).                               *)
(***************************************************************************)
THEOREM ImplementsRoundRobin == ASSUME ~ WindowTicks PROVE Spec => RoundRobinContract
  <1>1. Init => RR!RRInit
    BY SchedAssumption DEF Init, RR!RRInit
  <1>2. RInv /\ [Next]_vars => [RR!RRNext]_(RR!rrVars)
    BY StepImplements, Zenon DEF RR!rrVars
  <1> QED
    BY <1>1, <1>2, Rounding, PTL DEF Spec, RoundRobinContract, RR!RRSpec

(***************************************************************************)
(* With no tick in the switch window, a pass of the scheduler that found   *)
(* nobody leaves nobody active: the wfi of src/kernel/process.c:126-127 is *)
(* not reached, whatever the number of processes.                          *)
(***************************************************************************)
THEOREM NobodyIsStranded == ASSUME ~ WindowTicks PROVE Spec => []NobodyStranded
  <1>1. RInv => NobodyStranded
    <2> SUFFICES ASSUME RInv, pc = "s_test", reg.i > NPROC, ~ reg.found
                 PROVE  ~ Active
      BY Zenon DEF NobodyStranded
    <2>1. stk = Boot /\ At = "s_test" /\ Locals = reg
      BY InMain, Zenon DEF RInv, MainCode
    <2>2. \A s \in Slots : state[s] # "RUNNING"
      BY <2>1, NotBoot, Zenon DEF RInv, Running, Dispatching
    <2>3. \A s \in Slots : s < reg.i
      BY SchedAssumption DEF Slots, RInv, SInv, TInv, Typed, Regs
    <2>4. \A s \in Slots : state[s] # "RUNNABLE"
      BY <2>1, <2>3, Zenon DEF RInv, Pass
    <2> QED
      BY <2>2, <2>4, Zenon DEF RInv, SInv, States, Active
  <1> QED
    BY <1>1, Rounding, PTL
=============================================================================

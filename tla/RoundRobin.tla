----------------------------- MODULE RoundRobin -----------------------------
(***************************************************************************)
(* What the process subsystem of src/kernel/process.c promises: one        *)
(* process runs at a time, only a running process makes progress, and the  *)
(* processor goes round: while a process waits, no other process gets it   *)
(* twice.  There are no contexts, stacks or interrupts here; Sched         *)
(* implements this.                                                        *)
(***************************************************************************)
EXTENDS Integers

CONSTANT Slots      \* the process table

VARIABLES
  state,    \* state[s]: UNUSED, RUNNABLE, RUNNING or ZOMBIE
  work,     \* work[s]: steps the task of s still has to do
  passed    \* passed[s]: who was dispatched since s began to wait

rrVars == <<state, work, passed>>

RRInit ==
  /\ state = [s \in Slots |-> "UNUSED"]
  /\ passed = [s \in Slots |-> {}]
  /\ work \in [Slots -> Nat]

Enter(s, from) ==
  /\ state[s] = from
  /\ state' = [state EXCEPT ![s] = "RUNNABLE"]
  /\ passed' = [passed EXCEPT ![s] = {}]
  /\ UNCHANGED work

Create(s) == Enter(s, "UNUSED")

Yield(s) == Enter(s, "RUNNING")

Dispatch(s) ==
  /\ state[s] = "RUNNABLE"
  /\ \A t \in Slots : state[t] # "RUNNING"
  /\ \A t \in Slots : state[t] = "RUNNABLE" => s \notin passed[t]
  /\ state' = [state EXCEPT ![s] = "RUNNING"]
  /\ passed' = [t \in Slots |-> IF t # s /\ state[t] = "RUNNABLE"
                                THEN passed[t] \cup {s} ELSE {}]
  /\ UNCHANGED work

Work(s) ==
  /\ state[s] = "RUNNING" /\ work[s] > 0
  /\ work' = [work EXCEPT ![s] = @ - 1]
  /\ UNCHANGED <<state, passed>>

Exit(s) ==
  /\ state[s] = "RUNNING" /\ work[s] = 0
  /\ state' = [state EXCEPT ![s] = "ZOMBIE"]
  /\ UNCHANGED <<work, passed>>

RRNext == \E s \in Slots : Create(s) \/ Yield(s) \/ Dispatch(s) \/ Work(s) \/ Exit(s)

RRSpec == RRInit /\ [][RRNext]_rrVars
=============================================================================

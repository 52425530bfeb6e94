------------------------------- MODULE MCTrap -------------------------------
(***************************************************************************)
(* Two characters to print and two ticks, one of which may come while the  *)
(* other returns; zero and a time of three digits, the last of them zero.  *)
(* Two places in the FIFO are what the code relies on.                     *)
(***************************************************************************)
EXTENDS TrapConsole

MCText == <<97, 98>>
MCTimes == {0, 120}
=============================================================================

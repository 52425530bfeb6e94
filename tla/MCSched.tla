------------------------------ MODULE MCSched ------------------------------
(***************************************************************************)
(* Sched for TLC.  MCSched.cfg: three slots and four calls of proc_create, *)
(* so that a process can be passed over by two others, and creation fails  *)
(* for lack of a slot or, with fewer pages than slots, of a stack.         *)
(* MCSchedWindow.cfg: ticks may hit the window of the dispatch.            *)
(***************************************************************************)
EXTENDS Sched
=============================================================================

---------------------------- MODULE MCPageAlloc ----------------------------
(***************************************************************************)
(* A heap of five frames.  Both linker symbols are high-half addresses, as *)
(* they are in the linked kernel; neither is a multiple of the page size;  *)
(* and the stack, not MaxHeap, ends the heap.  Requests run from zero to   *)
(* one byte more than the heap; mem_free is given every address of the     *)
(* modelled memory and of its high-half alias.                             *)
(***************************************************************************)
EXTENDS PageAlloc

MCSizes == 0 .. 21
MCFreeArgs == (0 .. 40) \cup (72 .. 104)
=============================================================================

---------------------------- MODULE MCVirtioInit ----------------------------
(***************************************************************************)
(* VirtioInit for TLC: two slots, so that a device may be live, or have    *)
(* failed at any point, when the next one is initialised; every choice of  *)
(* offered features, of queue sizes that just suffice or do not, and of    *)
(* allocations that fail.                                                  *)
(***************************************************************************)
EXTENDS VirtioInit
=============================================================================

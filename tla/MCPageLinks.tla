---------------------------- MODULE MCPageLinks ----------------------------
(***************************************************************************)
(* Three pages and two processes that ask for up to three pages: runs of   *)
(* two are found at either end of a shuffled list, and requests fail both  *)
(* for lack of pages and, with 1 and 3 free, for fragmentation.            *)
(***************************************************************************)
EXTENDS PageLinks

MCCounts == 0 .. 3
=============================================================================

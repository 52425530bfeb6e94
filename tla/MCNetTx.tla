------------------------------ MODULE MCNetTx ------------------------------
(***************************************************************************)
(* NetTx for TLC: three descriptors, indices that wrap after six, and      *)
(* memory for more packets than it takes for both to wrap; the data is     *)
(* empty, just fits the buffer (and is longer than an ARP header) or,      *)
(* where MCLengths is used, is too long.                                   *)
(***************************************************************************)
EXTENDS NetTx

MCLengths == {0, 30, 31}
MCFitting == {0, 30}
=============================================================================

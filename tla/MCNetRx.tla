------------------------------ MODULE MCNetRx ------------------------------
(***************************************************************************)
(* NetRx for TLC: a queue of two descriptors whose indices wrap after      *)
(* twice the size, lengths in units of four bytes (the header is 3),       *)
(* frames below, at and above the limit of the poll.                       *)
(***************************************************************************)
EXTENDS NetRxWeak

MCFrameLens == {0, 2, 3}
=============================================================================

----------------------------- MODULE NetRxWeak -----------------------------
(***************************************************************************)
(* The poll of NetRx on a hart that may perform loads early, as the RISC-V *)
(* memory model allows: src/driver/virt_mmio.c has a fence before the load *)
(* of used.idx (line 268) and none between it and the loads of the used    *)
(* element (lines 273-280), which are ordered by a branch only.            *)
(***************************************************************************)
EXTENDS NetRx

LoadElemEarly ==
  /\ pc = "poll"
  /\ elem' = used_ring[last_used_idx % Size]
  /\ pc' = "early"
  /\ UNCHANGED <<avail_ring, avail_idx, last_used_idx, frame_len, done, device>>

SeeUsedLate ==
  /\ pc = "early"
  /\ pc' = IF last_used_idx # used_idx THEN "check" ELSE "poll"
  /\ UNCHANGED <<avail_ring, avail_idx, last_used_idx, elem, frame_len, done, device>>

WeakNext == Next \/ LoadElemEarly \/ SeeUsedLate

WeakSpec == Init /\ [][WeakNext]_vars
=============================================================================

------------------------------- MODULE NetRx -------------------------------
(***************************************************************************)
(* The receive queue of the network driver (src/driver/virt_mmio.c): the   *)
(* split virtqueue that virt_mmio_net_virtq_init fills, polled by          *)
(* virt_mmio_net_poll_rx, with the device on the other side.  Both sides   *)
(* work at the same time on the shared rings; the indices are 16-bit       *)
(* counters that wrap, and ring slots are taken modulo the queue size.     *)
(***************************************************************************)
EXTENDS Integers, FiniteSets

CONSTANTS
  Size,          \* rx->size, DESC_QUEUE_SIZE
  IndexMod,      \* 2^16: the indices count modulo this
  HeaderLen,     \* sizeof(struct virtio_net_hdr)
  Length,        \* the parameter length of the poll
  WordMod,       \* 2^32: lengths are computed modulo this
  FrameLens      \* lengths of the Ethernet frames that arrive

ASSUME RxAssumption ==
  /\ Size \in Nat \ {0} /\ IndexMod \in Nat /\ IndexMod % Size = 0
  /\ IndexMod > Size + 1
  /\ HeaderLen \in Nat /\ Length \in Nat /\ WordMod \in Nat \ {0}
  /\ HeaderLen <= Length /\ Length < WordMod   \* the call polls with 2048
  /\ FrameLens \subseteq Nat

VARIABLES
  avail_ring, avail_idx,   \* rx->ring->avail
  used_ring, used_idx,     \* rx->ring->used
  buf,                     \* buf[d]: the frame in the buffer of descriptor d
  last_used_idx,
  pc, elem,                \* where the driver is; its copy of the used element
  frame_len,               \* the length it reports
  dev_idx,                 \* the next entry of avail the device will take
  taken,                   \* descriptors the device has taken
  dev_pc,                  \* "idle", or "filled" between element and index
  arrived, done            \* frames delivered by the device / processed (ghost)

driver == <<avail_ring, avail_idx, last_used_idx, pc, elem, frame_len, done>>
device == <<used_ring, used_idx, buf, dev_idx, taken, dev_pc, arrived>>
vars == <<driver, device>>

Descs == 0 .. (Size - 1)

Inc(idx) == (idx + 1) % IndexMod

\* The entries of a ring from index a up to, not including, index b.
Entries(ring, a, b) == {ring[((a + k) % IndexMod) % Size] : k \in 0 .. ((b - a) % IndexMod) - 1}

NoElem == [id |-> 0, len |-> 0]

\* virt_mmio_net_virtq_init: every descriptor is offered to the device.
Init ==
  /\ avail_ring = [k \in Descs |-> k] /\ avail_idx = Size
  /\ used_ring = [k \in Descs |-> NoElem] /\ used_idx = 0
  /\ buf = [d \in Descs |-> [num |-> 0, len |-> 0]]
  /\ last_used_idx = 0
  /\ pc = "idle" /\ elem = NoElem /\ frame_len = 0
  /\ dev_idx = 0 /\ taken = {} /\ dev_pc = "idle"
  /\ arrived = 0 /\ done = 0

-----------------------------------------------------------------------------
(***************************************************************************)
(* virt_mmio_net_poll_rx                                                   *)
(***************************************************************************)
Poll ==
  /\ pc = "idle"
  /\ pc' = "poll"
  /\ UNCHANGED <<avail_ring, avail_idx, last_used_idx, elem, frame_len, done, device>>

\* The test of used.idx, and the load of the element after it.
SeeUsed ==
  /\ pc = "poll" /\ last_used_idx # used_idx
  /\ pc' = "elem"
  /\ UNCHANGED <<avail_ring, avail_idx, last_used_idx, elem, frame_len, done, device>>

\* Faulty variants: the descriptor is on offer again before the frame is
\* parsed; the newest element is taken instead of the next.
LoadElem_OfferFirst ==
  /\ pc = "elem"
  /\ elem' = used_ring[last_used_idx % Size]
  /\ avail_ring' = [avail_ring EXCEPT ![avail_idx % Size] = elem'.id % Size]
  /\ avail_idx' = Inc(avail_idx)
  /\ pc' = "check"
  /\ UNCHANGED <<last_used_idx, frame_len, done, device>>

LoadElem_Newest ==
  /\ pc = "elem"
  /\ elem' = used_ring[(used_idx - 1) % Size]
  /\ pc' = "check"
  /\ UNCHANGED <<avail_ring, avail_idx, last_used_idx, frame_len, done, device>>

LoadElem ==
  /\ pc = "elem"
  /\ elem' = used_ring[last_used_idx % Size]
  /\ pc' = "check"
  /\ UNCHANGED <<avail_ring, avail_idx, last_used_idx, frame_len, done, device>>

\* A faulty variant: a bad entry is tried again.
CheckId_Retry ==
  /\ pc = "check"
  /\ pc' = IF elem.id >= Size THEN "poll" ELSE "process"
  /\ UNCHANGED <<avail_ring, avail_idx, last_used_idx, elem, frame_len, done, device>>

\* A descriptor out of range ends the call; the entry stays.
CheckId ==
  /\ pc = "check"
  /\ pc' = IF elem.id >= Size THEN "idle" ELSE "process"
  /\ UNCHANGED <<avail_ring, avail_idx, last_used_idx, elem, frame_len, done, device>>

Min(a, b) == IF a <= b THEN a ELSE b

\* A faulty variant: the header is not subtracted.
FrameLen_WithHeader(len) == Min(len, Length)

FrameLen(len) == (Min(len, Length) - HeaderLen) % WordMod

\* The frame is parsed where it lies.
Process ==
  /\ pc = "process"
  /\ frame_len' = FrameLen(elem.len)
  /\ done' = Inc(done)
  /\ pc' = "recycle"
  /\ UNCHANGED <<avail_ring, avail_idx, last_used_idx, elem, device>>

\* A faulty variant: the ring slot is the descriptor's, not the next one.
Recycle_OwnSlot ==
  /\ pc = "recycle"
  /\ avail_ring' = [avail_ring EXCEPT ![elem.id] = elem.id]
  /\ pc' = "offer"
  /\ UNCHANGED <<avail_idx, last_used_idx, elem, frame_len, done, device>>

Recycle ==
  /\ pc = "recycle"
  /\ avail_ring' = [avail_ring EXCEPT ![avail_idx % Size] = elem.id]
  /\ pc' = "offer"
  /\ UNCHANGED <<avail_idx, last_used_idx, elem, frame_len, done, device>>

Offer ==
  /\ pc = "offer"
  /\ avail_idx' = Inc(avail_idx)
  /\ pc' = "advance"
  /\ UNCHANGED <<avail_ring, last_used_idx, elem, frame_len, done, device>>

Advance ==
  /\ pc = "advance"
  /\ last_used_idx' = Inc(last_used_idx)
  /\ pc' = "idle"
  /\ UNCHANGED <<avail_ring, avail_idx, elem, frame_len, done, device>>

-----------------------------------------------------------------------------
(***************************************************************************)
(* The device: it takes what is offered, writes a frame to a buffer and an *)
(* element to the used ring, and then counts used.idx up.                  *)
(***************************************************************************)
DeviceTakes ==
  /\ dev_idx # avail_idx
  /\ taken' = taken \cup {avail_ring[dev_idx % Size]}
  /\ dev_idx' = Inc(dev_idx)
  /\ UNCHANGED <<driver, used_ring, used_idx, buf, dev_pc, arrived>>

\* A frame of length n; the reported length counts the header before it, or
\* does not (include/driver/virt_mmio.h:189), and may be less than a header.
Reported(n) == {n, n + HeaderLen}

DeviceFills(d, n, len) ==
  /\ dev_pc = "idle" /\ d \in taken
  /\ buf' = [buf EXCEPT ![d] = [num |-> arrived, len |-> n]]
  /\ used_ring' = [used_ring EXCEPT ![used_idx % Size] = [id |-> d, len |-> len]]
  /\ taken' = taken \ {d}
  /\ dev_pc' = "filled"
  /\ arrived' = Inc(arrived)
  /\ UNCHANGED <<driver, used_idx, dev_idx>>

DevicePublishes ==
  /\ dev_pc = "filled"
  /\ used_idx' = Inc(used_idx)
  /\ dev_pc' = "idle"
  /\ UNCHANGED <<driver, used_ring, buf, dev_idx, taken, arrived>>

\* The device gives up on a descriptor and reports one out of range.
DeviceErrs(d) ==
  /\ dev_pc = "idle" /\ d \in taken
  /\ used_ring' = [used_ring EXCEPT ![used_idx % Size] = [id |-> Size, len |-> 0]]
  /\ taken' = taken \ {d}
  /\ dev_pc' = "filled"
  /\ UNCHANGED <<driver, used_idx, buf, dev_idx, arrived>>

-----------------------------------------------------------------------------
DriverStep ==
  \/ SeeUsed \/ LoadElem \/ CheckId
  \/ Process \/ Recycle \/ Offer \/ Advance

DeviceStep ==
  \/ DeviceTakes
  \/ \E d \in Descs, n \in FrameLens : \E len \in Reported(n) : DeviceFills(d, n, len)
  \/ DevicePublishes
  \/ \E d \in Descs : DeviceErrs(d)

Next == Poll \/ DriverStep \/ DeviceStep

\* The hart that polls keeps executing; the device owes nothing.
Spec == Init /\ [][Next]_vars /\ WF_vars(DriverStep)

-----------------------------------------------------------------------------
(***************************************************************************)
(* Who has a descriptor: it is on offer, with the device, returned and not *)
(* looked at, or in the driver's hands from the load of the element to the *)
(* increment of avail.idx.                                                 *)
(***************************************************************************)
OnOffer == Entries(avail_ring, dev_idx, avail_idx)
DriverHas == pc \in {"check", "process", "recycle", "offer"} /\ elem.id < Size
FirstReturned == IF pc \in {"check", "process", "recycle", "offer", "advance"}
                 THEN Inc(last_used_idx) ELSE last_used_idx
Returned ==
  {e.id : e \in Entries(used_ring, FirstReturned,
                        IF dev_pc = "filled" THEN Inc(used_idx) ELSE used_idx)}

(***************************************************************************)
(* The driver parses a frame only in a buffer that is its own: while it    *)
(* has a descriptor in hand, that one is neither on offer, nor with the    *)
(* device, nor returned a second time (src/driver/virt_mmio.c:285-322).    *)
(***************************************************************************)
BufferIsDrivers ==
  DriverHas => elem.id \notin OnOffer \cup taken \cup Returned

(***************************************************************************)
(* The rings hold no descriptor twice and neither is overrun, also where   *)
(* the 16-bit indices wrap and although last_used_idx is counted up only   *)
(* after the descriptor is on offer again (lines 320-323).                 *)
(***************************************************************************)
RingsExact ==
  /\ Cardinality(OnOffer) = (avail_idx - dev_idx) % IndexMod
  /\ OnOffer \cap taken = {}
  /\ OnOffer \cap Returned = {}
  /\ taken \cap Returned = {}
  /\ (used_idx - last_used_idx) % IndexMod <= IF pc = "advance" THEN Size + 1 ELSE Size

(***************************************************************************)
(* "1. Polls idx.  2. Processes any new ring[...] entries."                *)
(* (include/driver/virt_mmio.h:184-185): the frame that is processed is    *)
(* the one that arrived next, none is skipped and none is seen twice.      *)
(***************************************************************************)
FramesInOrder == DriverHas /\ pc \in {"check", "process"} => buf[elem.id].num = done

(***************************************************************************)
(* The length the driver reports for the frame it parsed (lines 286-292),  *)
(* while that frame is still in its buffer.  It is the length of the       *)
(* frame, cut at the caller's limit, if the device counted the header; and *)
(* it is within that limit exactly if the device reported at least a       *)
(* header, since the subtraction is not guarded.                           *)
(***************************************************************************)
FrameLenExact ==
  pc \in {"recycle", "offer"} =>
    LET n == buf[elem.id].len
    IN  /\ elem.len \in Reported(n)
        /\ elem.len = n + HeaderLen => frame_len = Min(n, Length - HeaderLen)
        /\ elem.len >= HeaderLen <=> frame_len <= Length - HeaderLen

\* A poll with something in the used ring returns.
PollReturns == (pc = "poll" /\ last_used_idx # used_idx) ~> (pc = "idle")
=============================================================================

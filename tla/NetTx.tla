------------------------------- MODULE NetTx -------------------------------
(***************************************************************************)
(* The transmit queue of the network driver (src/driver/virt_mmio.c):      *)
(* virt_mmio_net_tx builds a packet, has virt_mmio_net_send put data on    *)
(* the ring and waits for the device to use it.  The device works at the   *)
(* same time; the indices are 16-bit counters that wrap.                   *)
(***************************************************************************)
EXTENDS Packet

CONSTANTS
  Size,        \* tx->size, DESC_QUEUE_SIZE
  IndexMod,    \* 2^16: the indices count modulo this
  BufSize,     \* QUEUE_BUF_SIZE
  Lengths,     \* lengths of the data that callers send
  Pages        \* pages that mem_alloc has for packets

ASSUME TxAssumption ==
  /\ Size \in Nat \ {0} /\ IndexMod \in Nat /\ IndexMod % Size = 0
  /\ IndexMod > Size
  /\ BufSize \in Nat /\ Lengths \subseteq Nat /\ Pages \in Nat

VARIABLES
  avail_ring, avail_idx,      \* tx->ring->avail
  used_ring, used_idx,        \* tx->ring->used
  buf,                        \* buf[d]: what lies in the buffer of d
  in_use, next_desc, last_used_idx,
  pc, length,                 \* where virt_mmio_net_tx is, and its argument
  packet,                     \* what the call has built
  pages,                      \* pages left: a packet is never freed
  dev_idx, dev_pc, dev_desc,  \* the device: next entry, what it does, with which
  calls, sent,                \* sends put on the ring / transmitted (ghost)
  lost                        \* descriptors whose completion named none (ghost)

driver == <<avail_ring, avail_idx, buf, in_use, next_desc, last_used_idx, pc, length,
            packet, pages, calls>>
device == <<used_ring, used_idx, dev_idx, dev_pc, dev_desc, sent, lost>>
vars == <<driver, device>>

Descs == 0 .. (Size - 1)
Inc(idx) == (idx + 1) % IndexMod

Zeros == [k \in Descs |-> 0]
Blank == [d \in Descs |-> [num |-> 0, holds |-> "zeros"]]

Init ==
  /\ avail_ring = Zeros /\ avail_idx = 0
  /\ used_ring = Zeros /\ used_idx = 0
  /\ buf = Blank
  /\ in_use = [d \in Descs |-> FALSE]
  /\ next_desc = 0 /\ last_used_idx = 0
  /\ pc = "idle" /\ length = 0 /\ packet = <<>> /\ pages = Pages
  /\ dev_idx = 0 /\ dev_pc = "idle" /\ dev_desc = 0
  /\ calls = 0 /\ sent = 0 /\ lost = {}

-----------------------------------------------------------------------------
(***************************************************************************)
(* virt_mmio_net_virtq_init for the next device: a new ring and new        *)
(* buffers for the same queue.  in_use is not cleared.                     *)
(***************************************************************************)
virtq_init ==
  /\ pc = "idle"
  /\ avail_ring' = Zeros /\ avail_idx' = 0
  /\ used_ring' = Zeros /\ used_idx' = 0
  /\ buf' = Blank
  /\ next_desc' = 0 /\ last_used_idx' = 0
  /\ dev_idx' = 0 /\ dev_pc' = "idle" /\ dev_desc' = 0
  /\ calls' = 0 /\ sent' = 0
  /\ UNCHANGED <<in_use, pc, length, packet, pages, lost>>

(***************************************************************************)
(* virt_mmio_net_tx up to the send: without memory for the packet it       *)
(* returns -1.                                                             *)
(***************************************************************************)
CallTx(len) ==
  /\ pc = "idle"
  /\ IF pages = 0
     THEN UNCHANGED <<pc, length, packet, pages>>
     ELSE /\ pc' = "send" /\ length' = len /\ pages' = pages - 1
          /\ packet' = BuildPacket(len)
  /\ UNCHANGED <<avail_ring, avail_idx, buf, in_use, next_desc, last_used_idx, calls, device>>

\* The first descriptor from next_desc on that is not in use.
Distance(d) == (d - next_desc) % Size
FirstFree(d) ==
  /\ ~ in_use[d]
  /\ \A e \in Descs : Distance(e) < Distance(d) => in_use[e]

\* virt_mmio_net_send returns without having sent anything; the caller does
\* not learn of it.
SendRefused ==
  /\ pc = "send"
  /\ length > BufSize \/ \A d \in Descs : in_use[d]
  /\ pc' = "wait"
  /\ UNCHANGED <<avail_ring, avail_idx, buf, in_use, next_desc, last_used_idx, length,
                 packet, pages, calls, device>>

\* A faulty variant: the descriptor is not entered in the ring.
SendFill_NoSlot ==
  /\ pc = "send"
  /\ length <= BufSize
  /\ \E d \in Descs :
       /\ FirstFree(d)
       /\ buf' = [buf EXCEPT ![d] = [num |-> calls, holds |-> "data"]]
       /\ in_use' = [in_use EXCEPT ![d] = TRUE]
       /\ next_desc' = (d + 1) % Size
  /\ calls' = Inc(calls)
  /\ pc' = "publish"
  /\ UNCHANGED <<avail_ring, avail_idx, last_used_idx, length, packet, pages, device>>

\* virt_mmio_net_send up to the barrier: what is copied to the buffer is the
\* argument data, not the packet.
SendFill ==
  /\ pc = "send"
  /\ length <= BufSize
  /\ \E d \in Descs :
       /\ FirstFree(d)
       /\ buf' = [buf EXCEPT ![d] = [num |-> calls, holds |-> "data"]]
       /\ avail_ring' = [avail_ring EXCEPT ![avail_idx % Size] = d]
       /\ in_use' = [in_use EXCEPT ![d] = TRUE]
       /\ next_desc' = (d + 1) % Size
  /\ calls' = Inc(calls)
  /\ pc' = "publish"
  /\ UNCHANGED <<avail_idx, last_used_idx, length, packet, pages, device>>

SendPublish ==
  /\ pc = "publish"
  /\ avail_idx' = Inc(avail_idx)
  /\ pc' = "wait"
  /\ UNCHANGED <<avail_ring, buf, in_use, next_desc, last_used_idx, length, packet, pages, calls,
                 device>>

\* A faulty variant: the indices are taken for numbers that only grow.
Completed_Less == last_used_idx < used_idx

Completed == last_used_idx # used_idx

\* The loop that waits: an iteration that finds nothing, and one that does.
WaitSpin ==
  /\ pc = "wait" /\ ~ Completed
  /\ UNCHANGED vars

\* A faulty variant: the descriptor stays in use.
WaitDone_Leak ==
  /\ pc = "wait" /\ Completed
  /\ last_used_idx' = Inc(last_used_idx)
  /\ pc' = "idle"
  /\ UNCHANGED <<avail_ring, avail_idx, buf, in_use, next_desc, length, packet, pages, calls, device>>

WaitDone ==
  /\ pc = "wait" /\ Completed
  /\ LET id == used_ring[last_used_idx % Size]
     IN  in_use' = IF id < Size THEN [in_use EXCEPT ![id] = FALSE] ELSE in_use
  /\ last_used_idx' = Inc(last_used_idx)
  /\ pc' = "idle"
  /\ UNCHANGED <<avail_ring, avail_idx, buf, next_desc, length, packet, pages, calls, device>>

-----------------------------------------------------------------------------
(***************************************************************************)
(* The device: it takes a descriptor, transmits its buffer, writes the     *)
(* element, in which the descriptor may be out of range, and then counts   *)
(* used.idx up.                                                            *)
(***************************************************************************)
DeviceTakes ==
  /\ dev_pc = "idle" /\ dev_idx # avail_idx
  /\ dev_desc' = avail_ring[dev_idx % Size]
  /\ dev_idx' = Inc(dev_idx)
  /\ dev_pc' = "transmit"
  /\ UNCHANGED <<driver, used_ring, used_idx, sent, lost>>

OutOfRange == Size

DeviceTransmits(id) ==
  /\ dev_pc = "transmit"
  /\ id \in {dev_desc, OutOfRange}
  /\ used_ring' = [used_ring EXCEPT ![used_idx % Size] = id]
  /\ lost' = IF id = dev_desc THEN lost ELSE lost \cup {dev_desc}
  /\ sent' = Inc(sent)
  /\ dev_pc' = "publish"
  /\ UNCHANGED <<driver, used_idx, dev_idx, dev_desc>>

DevicePublishes ==
  /\ dev_pc = "publish"
  /\ used_idx' = Inc(used_idx)
  /\ dev_pc' = "idle"
  /\ UNCHANGED <<driver, used_ring, dev_idx, dev_desc, sent, lost>>

-----------------------------------------------------------------------------
DriverStep == SendRefused \/ SendFill \/ SendPublish \/ WaitSpin \/ WaitDone
DeviceStep ==
  \/ DeviceTakes
  \/ \E id \in 0 .. OutOfRange : DeviceTransmits(id)
  \/ DevicePublishes

Next == (\E len \in Lengths : CallTx(len)) \/ virtq_init \/ DriverStep \/ DeviceStep

Spec == Init /\ [][Next]_vars

\* The hart keeps executing, and the device works on what it is offered.
FairSpec == Spec /\ WF_vars(DriverStep) /\ WF_vars(DeviceStep)

-----------------------------------------------------------------------------
(***************************************************************************)
(* When it is built, every byte of the packet is the one of the part that  *)
(* belongs there, the data behind the headers whole, although              *)
(* build_eth_frame copies as much of it as 16 bits count to where the ARP  *)
(* header goes; only num_buffers is what was in memory                     *)
(* (virt_mmio_net_tx:345-349).                                             *)
(***************************************************************************)
PacketBuilt ==
  pc # "idle" =>
    packet = [i \in 1 .. 54 + length |->
                CASE i \in 1 .. 10 -> <<"net", i>>
                  [] i \in 11 .. 12 -> Unwritten
                  [] i \in 13 .. 26 -> <<"eth", i - 12>>
                  [] i \in 27 .. 54 -> <<"arp", i - 26>>
                  [] OTHER -> <<"data", i - 54>>]

(***************************************************************************)
(* What the device transmits is what the calls put on the ring, in their   *)
(* order, each once, and no call writes to a buffer the device still has   *)
(* (virt_mmio_net_send: in_use, the search from next_desc, the slot at     *)
(* avail.idx, across the wrap of the index).                               *)
(***************************************************************************)
SentInOrder == dev_pc = "transmit" => buf[dev_desc].num = sent /\ in_use[dev_desc]

(***************************************************************************)
(* When virt_mmio_net_tx has returned nothing is in flight: the completion *)
(* it waited for was the one of its own descriptor, and that descriptor is *)
(* free again unless the completion named one out of range (lines          *)
(* 358-366).  Such a descriptor is never free again, also not for the next *)
(* device.                                                                 *)
(***************************************************************************)
OnlyLostInUse ==
  pc = "idle" => /\ {d \in Descs : in_use[d]} = lost
                 /\ avail_idx = last_used_idx /\ dev_pc = "idle"

(***************************************************************************)
(* A call with data that fits a buffer returns as long as not every        *)
(* descriptor is lost, whatever came before it: completions without a      *)
(* descriptor, the wrap of the descriptors and of the indices, another     *)
(* device (virt_mmio_net_tx).                                              *)
(***************************************************************************)
FittingReturns ==
  (pc = "send" /\ length <= BufSize /\ lost # Descs) ~> (pc = "idle")

(***************************************************************************)
(* "Wait for the device to process the TX descriptor"                      *)
(* (src/driver/virt_mmio.c:354): the wait ends, for data of any length.    *)
(***************************************************************************)
TxReturns == pc = "send" ~> pc = "idle"

(***************************************************************************)
(* The device is given the packet that was built: virtio header, Ethernet  *)
(* and ARP headers, "Copy actual payload after ARP"                        *)
(* (src/driver/virt_mmio.c:346-349).                                       *)
(***************************************************************************)
TransmitsPacket == dev_pc = "transmit" => buf[dev_desc].holds = "packet"
=============================================================================

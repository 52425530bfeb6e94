---------------------------- MODULE NetTxProofs ----------------------------
(***************************************************************************)
(* Proofs about NetTx: for every size of the queue and every width of the  *)
(* indices, in every interleaving with the device, the calls are           *)
(* transmitted in order, and what they leave behind is what the device     *)
(* lost; and in the packet that each of them builds every part has its     *)
(* place.                                                                  *)
(*                                                                         *)
(* Neither invariant is inductive: that the completion a call waits for is *)
(* its own depends on where its descriptor is.  IInv says so: either       *)
(* nothing is in flight, and all four indices agree, or one descriptor d   *)
(* is, and it is in one of five places; the descriptors in use are d and   *)
(* those whose completion named none.  The packet is followed through the  *)
(* stores that build it, for data of any length.                           *)
(***************************************************************************)
EXTENDS NetTx, TLAPS

Typed ==
  /\ avail_ring \in [Descs -> Descs] /\ used_ring \in [Descs -> 0 .. Size]
  /\ DOMAIN buf = Descs /\ in_use \in [Descs -> BOOLEAN]
  /\ avail_idx \in Nat /\ used_idx \in Nat /\ dev_idx \in Nat /\ last_used_idx \in Nat
  /\ lost \subseteq Descs

\* The descriptors in use: those that are lost, and d.
OnlyLost == \A e \in Descs : in_use[e] <=> e \in lost
Only(d) == d \in Descs /\ \A e \in Descs : in_use[e] <=> (e = d \/ e \in lost)
Named(d) == IF d \in lost THEN OutOfRange ELSE d

\* Nothing is in flight: before a send, and after one that was refused.
Quiet ==
  /\ pc \in {"idle", "send", "wait"} /\ dev_pc = "idle"
  /\ OnlyLost /\ calls = sent
  /\ avail_idx = dev_idx /\ used_idx = dev_idx /\ last_used_idx = dev_idx

\* d is in the ring, and the index is not counted up yet.
Filled(d) ==
  /\ pc = "publish" /\ dev_pc = "idle"
  /\ d \notin lost /\ Only(d) /\ buf[d].num = sent /\ calls = Inc(sent)
  /\ avail_idx = dev_idx /\ used_idx = dev_idx /\ last_used_idx = dev_idx
  /\ avail_ring[dev_idx % Size] = d

\* d is on offer to the device.
Offered(d) ==
  /\ pc = "wait" /\ dev_pc = "idle"
  /\ d \notin lost /\ Only(d) /\ buf[d].num = sent /\ calls = Inc(sent)
  /\ avail_idx = Inc(dev_idx) /\ used_idx = dev_idx /\ last_used_idx = dev_idx
  /\ avail_ring[dev_idx % Size] = d

\* The device has taken d.
Taken(d) ==
  /\ pc = "wait" /\ dev_pc = "transmit" /\ dev_desc = d
  /\ d \notin lost /\ Only(d) /\ buf[d].num = sent /\ calls = Inc(sent)
  /\ avail_idx = dev_idx /\ dev_idx = Inc(used_idx) /\ last_used_idx = used_idx

\* The device has written the used element.
Used(d) ==
  /\ pc = "wait" /\ dev_pc = "publish"
  /\ Only(d) /\ calls = sent
  /\ avail_idx = dev_idx /\ dev_idx = Inc(used_idx) /\ last_used_idx = used_idx
  /\ used_ring[used_idx % Size] = Named(d)

\* The completion of d is there to be seen.
Done(d) ==
  /\ pc = "wait" /\ dev_pc = "idle"
  /\ Only(d) /\ calls = sent
  /\ avail_idx = dev_idx /\ used_idx = dev_idx /\ used_idx = Inc(last_used_idx)
  /\ used_ring[last_used_idx % Size] = Named(d)

InFlight(d) == Filled(d) \/ Offered(d) \/ Taken(d) \/ Used(d) \/ Done(d)

IInv == Typed /\ (Quiet \/ \E d \in Descs : InFlight(d))

-----------------------------------------------------------------------------
\* An index leads to a slot of the ring (avail.idx % tx->size and its like).
LEMMA SlotExists ==
  ASSUME NEW i \in Nat
  PROVE  i % Size \in Descs
  BY TxAssumption DEF Descs

\* A counted index is a number again.
LEMMA IncNat ==
  ASSUME NEW i \in Nat
  PROVE  Inc(i) \in Nat
  BY TxAssumption DEF Inc

\* With fresh queues nothing is in flight.
LEMMA InitQuiet == Init => IInv
  <1> SUFFICES ASSUME Init PROVE Typed /\ Quiet
    BY Zenon DEF IInv
  <1>1. 0 \in Descs
    BY TxAssumption DEF Descs
  <1>2. Typed
    BY <1>1, TxAssumption DEF Init, Typed, Zeros, Blank
  <1>3. Quiet
    BY Zenon DEF Init, Quiet, OnlyLost
  <1> QED
    BY <1>2, <1>3, Zenon

\* Every step of driver and device takes what is in flight from one place to
\* the next.
LEMMA StepMoves == IInv /\ [Next]_vars => IInv'
  <1> SUFFICES ASSUME IInv, [Next]_vars PROVE IInv'
    OBVIOUS
  <1> USE DEF IInv
  <1>1. ASSUME NEW len \in Lengths, CallTx(len) PROVE IInv'
    <2>1. Quiet
      BY <1>1, Zenon DEF CallTx, InFlight, Filled, Offered, Taken, Used, Done
    <2>2. Typed'
      BY <1>1, Zenon DEF CallTx, device, Typed
    <2>3. Quiet'
      BY <1>1, <2>1, Zenon DEF CallTx, device, Quiet, OnlyLost
    <2> QED
      BY <2>2, <2>3, Zenon
  <1>2. CASE SendRefused
    <2>1. Quiet
      BY <1>2, Zenon DEF SendRefused, InFlight, Filled, Offered, Taken, Used, Done
    <2>2. Typed'
      BY <1>2, Zenon DEF SendRefused, device, Typed
    <2>3. Quiet'
      BY <1>2, <2>1, Zenon DEF SendRefused, device, Quiet, OnlyLost
    <2> QED
      BY <2>2, <2>3, Zenon
  <1>3. CASE SendFill
    <2>1. Quiet
      BY <1>3, Zenon DEF SendFill, InFlight, Filled, Offered, Taken, Used, Done
    <2>2. PICK d \in Descs :
            /\ buf' = [buf EXCEPT ![d] = [num |-> calls, holds |-> "data"]]
            /\ avail_ring' = [avail_ring EXCEPT ![avail_idx % Size] = d]
            /\ in_use' = [in_use EXCEPT ![d] = TRUE]
            /\ ~ in_use[d]
      BY <1>3, Zenon DEF SendFill, FirstFree
    <2>3. avail_idx % Size \in Descs
      BY SlotExists DEF Typed
    <2>4. Typed'
      BY <1>3, <2>2, <2>3, Zenon DEF SendFill, device, Typed
    <2>5. Only(d)' /\ d \notin lost'
      BY <1>3, <2>1, <2>2, Zenon DEF SendFill, device, Quiet, OnlyLost, Only, Typed
    <2>6. buf'[d].num = calls /\ avail_ring'[avail_idx % Size] = d
      BY <2>2, <2>3, Zenon DEF Typed
    <2>7. Filled(d)'
      BY <1>3, <2>1, <2>5, <2>6, Zenon DEF SendFill, device, Quiet, Filled, Inc
    <2> QED
      BY <2>4, <2>7 DEF InFlight
  <1>4. CASE SendPublish
    <2>1. PICK d \in Descs : Filled(d)
      BY <1>4, Zenon DEF SendPublish, Quiet, InFlight, Offered, Taken, Used, Done
    <2>2. Typed'
      BY <1>4, IncNat, Zenon DEF SendPublish, device, Typed
    <2>3. Offered(d)'
      BY <1>4, <2>1, Zenon DEF SendPublish, device, Filled, Offered, Only, Inc
    <2> QED
      BY <2>2, <2>3, Zenon DEF InFlight
  <1>5. CASE WaitDone
    <2>1. PICK d \in Descs : Done(d)
      BY <1>5, Zenon DEF WaitDone, Completed, Quiet, InFlight, Filled, Offered, Taken, Used
    <2>2. in_use' = IF Named(d) < Size THEN [in_use EXCEPT ![Named(d)] = FALSE] ELSE in_use
      BY <1>5, <2>1, Zenon DEF WaitDone, Done
    <2>3. in_use' = IF d \in lost THEN in_use ELSE [in_use EXCEPT ![d] = FALSE]
      <3>1. ~ (OutOfRange < Size) /\ d < Size
        BY TxAssumption DEF OutOfRange, Descs
      <3> QED
        BY <2>2, <3>1, Zenon DEF Named
    <2>4. Typed'
      BY <1>5, <2>3, IncNat, Zenon DEF WaitDone, device, Typed
    <2>5. OnlyLost'
      BY <1>5, <2>1, <2>3, Zenon DEF WaitDone, device, Done, Only, OnlyLost, Typed
    <2>6. Quiet'
      BY <1>5, <2>1, <2>5 DEF WaitDone, device, Done, Quiet
    <2> QED
      BY <2>4, <2>6, Zenon
  <1>6. CASE DeviceTakes
    <2>1. PICK d \in Descs : Offered(d)
      BY <1>6, Zenon DEF DeviceTakes, Quiet, InFlight, Filled, Taken, Used, Done
    <2>2. Typed'
      BY <1>6, IncNat, Zenon DEF DeviceTakes, driver, Typed
    <2>3. Taken(d)'
      BY <1>6, <2>1, Zenon DEF DeviceTakes, driver, Offered, Taken, Only, Inc
    <2> QED
      BY <2>2, <2>3, Zenon DEF InFlight
  <1>7. ASSUME NEW id \in 0 .. OutOfRange, DeviceTransmits(id) PROVE IInv'
    <2>1. PICK d \in Descs : Taken(d)
      BY <1>7, Zenon DEF DeviceTransmits, Quiet, InFlight, Filled, Offered, Used, Done
    <2>2. used_idx % Size \in Descs
      BY SlotExists, Zenon DEF Typed
    <2>3. /\ used_ring' = [used_ring EXCEPT ![used_idx % Size] = id]
          /\ id \in {d, OutOfRange} /\ lost' = IF id = d THEN lost ELSE lost \cup {d}
      BY <1>7, <2>1, Zenon DEF DeviceTransmits, Taken
    <2>4. d # OutOfRange /\ id \in 0 .. Size
      BY TxAssumption DEF OutOfRange, Descs
    <2>5. id = Named(d)'
      BY <2>1, <2>3, <2>4, Zenon DEF Taken, Named
    <2>6. Typed'
      <3>1. lost' \subseteq Descs
        BY <2>3 DEF Typed
      <3>2. used_ring' \in [Descs -> 0 .. Size]
        BY <2>2, <2>3, <2>4, Zenon DEF Typed
      <3> QED
        BY <1>7, <3>1, <3>2, Zenon DEF DeviceTransmits, driver, Typed
    <2>7. used_ring'[used_idx % Size] = Named(d)'
      BY <2>2, <2>3, <2>5, Zenon DEF Typed
    <2>8. Only(d)'
      BY <1>7, <2>1, <2>3, Zenon DEF DeviceTransmits, driver, Taken, Only
    <2>9. Used(d)'
      BY <1>7, <2>1, <2>7, <2>8, Zenon DEF DeviceTransmits, driver, Taken, Used, Inc
    <2> QED
      BY <2>6, <2>9, Zenon DEF InFlight
  <1>8. CASE DevicePublishes
    <2>1. PICK d \in Descs : Used(d)
      BY <1>8, Zenon DEF DevicePublishes, Quiet, InFlight, Filled, Offered, Taken, Done
    <2>2. Typed'
      BY <1>8, IncNat, Zenon DEF DevicePublishes, driver, Typed
    <2>3. Done(d)'
      BY <1>8, <2>1, Zenon DEF DevicePublishes, driver, Used, Done, Only, Named, Inc
    <2> QED
      BY <2>2, <2>3, Zenon DEF InFlight
  <1>9. CASE UNCHANGED vars
    <2>1. Typed'
      BY <1>9, Zenon DEF vars, driver, device, Typed
    <2>2. Quiet => Quiet'
      BY <1>9, Zenon DEF vars, driver, device, Quiet, OnlyLost
    <2>3. ASSUME NEW d \in Descs, InFlight(d) PROVE InFlight(d)'
      BY <1>9, <2>3, Zenon DEF vars, driver, device, InFlight, Filled, Offered, Taken, Used, Done, Only,
                        Named, Inc
    <2> QED
      BY <2>1, <2>2, <2>3, Zenon
  <1>10. CASE virtq_init
    <2>1. Quiet
      BY <1>10, Zenon DEF virtq_init, InFlight, Filled, Offered, Taken, Used, Done
    <2>2. 0 \in Descs
      BY TxAssumption DEF Descs
    <2>3. Typed'
      BY <1>10, <2>2, TxAssumption DEF virtq_init, Zeros, Blank, Typed
    <2>4. Quiet'
      BY <1>10, <2>1, Zenon DEF virtq_init, Quiet, OnlyLost
    <2> QED
      BY <2>3, <2>4, Zenon
  <1> QED
    BY <1>1, <1>2, <1>3, <1>4, <1>5, <1>6, <1>7, <1>8, <1>9, <1>10, Zenon
       DEF Next, DriverStep, DeviceStep, WaitSpin

(***************************************************************************)
(* What the device transmits is what the calls put on the ring, in order   *)
(* and each once, from a buffer that no call writes to                     *)
(* (virt_mmio_net_send): for every queue size and index width.             *)
(***************************************************************************)
THEOREM TransmitsInOrder == Spec => []SentInOrder
  <1>1. IInv => SentInOrder
    BY Zenon DEF IInv, Quiet, InFlight, Filled, Offered, Taken, Used, Done, Only, SentInOrder
  <1> QED
    BY InitQuiet, StepMoves, <1>1, PTL DEF Spec

(***************************************************************************)
(* When virt_mmio_net_tx returns, what it submitted has been used and its  *)
(* descriptor is free, unless its completion named a descriptor out of     *)
(* range: the descriptors still in use are exactly those that were lost in *)
(* this way (src/driver/virt_mmio.c:354-367).                              *)
(***************************************************************************)
THEOREM CallsLeaveOnlyLost == Spec => []OnlyLostInUse
  <1>1. IInv => OnlyLostInUse
    <2> SUFFICES ASSUME IInv, pc = "idle"
                 PROVE  /\ {d \in Descs : in_use[d]} = lost
                        /\ avail_idx = last_used_idx /\ dev_pc = "idle"
      BY Zenon DEF OnlyLostInUse
    <2>1. Quiet /\ lost \subseteq Descs
      BY Zenon DEF IInv, Typed, InFlight, Filled, Offered, Taken, Used, Done
    <2> QED
      BY <2>1, Zenon DEF Quiet, OnlyLost
  <1> QED
    BY InitQuiet, StepMoves, <1>1, PTL DEF Spec

-----------------------------------------------------------------------------
\* What is built is kept until the call returns.
Built == pc # "idle" => length \in Nat /\ packet = BuildPacket(length)

LEMMA BuiltHolds == Spec => []Built
  <1>1. Init => Built
    BY Zenon DEF Init, Built
  <1>2. Built /\ [Next]_vars => Built'
    <2> SUFFICES ASSUME Built, [Next]_vars PROVE Built'
      OBVIOUS
    <2>1. ASSUME NEW len \in Lengths, CallTx(len) PROVE Built'
      <3>1. len \in Nat
        BY TxAssumption, Zenon
      <3> QED
        BY <2>1, <3>1, Zenon DEF CallTx, Built
    <2>2. CASE virtq_init \/ DriverStep
      BY <2>2, Zenon DEF virtq_init, DriverStep, SendRefused, SendFill, SendPublish, WaitSpin, WaitDone,
                         vars, driver, Built
    <2>3. CASE DeviceStep
      BY <2>3, Zenon DEF DeviceStep, DeviceTakes, DeviceTransmits, DevicePublishes, driver, Built
    <2>4. CASE UNCHANGED vars
      BY <2>4, Zenon DEF vars, driver, Built
    <2> QED
      BY <2>1, <2>2, <2>3, <2>4, Zenon DEF Next
  <1> QED
    BY <1>1, <1>2, PTL DEF Spec

\* The bytes after each of the stores.
LEMMA Stores ==
  ASSUME NEW n \in Nat
  PROVE  BuildPacket(n) = [i \in 1 .. 54 + n |->
           CASE i \in 1 .. 10 -> <<"net", i>>
             [] i \in 11 .. 12 -> Unwritten
             [] i \in 13 .. 26 -> <<"eth", i - 12>>
             [] i \in 27 .. 54 -> <<"arp", i - 26>>
             [] OTHER -> <<"data", i - 54>>]
  <1> DEFINE Bytes == 1 .. 54 + n
  <1>1. PICK m \in Nat : m = n % 65536 /\ m <= n
    OBVIOUS
  <1>2. PICK unw : unw = Unwritten
    BY Zenon
  <1>3. PICK p1 : p1 = [i \in Bytes |-> IF i - 0 \in 1 .. 10 THEN <<"net", i - 0>> ELSE unw]
    BY Zenon
  <1>4. PICK p2 : p2 = [i \in Bytes |-> IF i - 12 \in 1 .. 14 THEN <<"eth", i - 12>> ELSE p1[i]]
    BY Zenon
  <1>5. PICK p3 : p3 = [i \in Bytes |-> IF i - 26 \in 1 .. m THEN <<"data", i - 26>> ELSE p2[i]]
    BY Zenon
  <1>6. PICK p4 : p4 = [i \in Bytes |-> IF i - 26 \in 1 .. 28 THEN <<"arp", i - 26>> ELSE p3[i]]
    BY Zenon
  <1>7. PICK p : p = [i \in Bytes |-> IF i - 54 \in 1 .. n THEN <<"data", i - 54>> ELSE p4[i]]
    BY Zenon
  <1>8. BuildPacket(n) = p
    <2>1. /\ n + ARP_HDR + ETH_HDR + NET_HDR = 54 + n /\ NET_HDR = 12 /\ ETH_HDR = 14
          /\ ARP_HDR = 28 /\ 12 + ETH_HDR = 26 /\ 12 + 14 = 26 /\ 26 + 28 = 54
      BY DEF ARP_HDR, ETH_HDR, NET_HDR
    <2>2. p1 = build_virtio_net_hdr([i \in Bytes |-> unw], 0)
      BY <1>3, Zenon DEF build_virtio_net_hdr, Store
    <2>3. p3 = build_eth_frame(p1, 12, n)
      <3>1. p2 = Store(p1, 12, "eth", 14)
        BY <1>3, <1>4, Zenon DEF Store
      <3>2. p3 = Store(p2, 26, "data", m)
        BY <1>4, <1>5, Zenon DEF Store
      <3> QED
        BY <1>1, <2>1, <3>1, <3>2 DEF build_eth_frame
    <2>4. p4 = build_arp_response(p3, 26)
      BY <1>5, <1>6, <2>1, Zenon DEF build_arp_response, Store
    <2>5. p = Store(p4, 54, "data", n)
      BY <1>6, <1>7, Zenon DEF Store
    <2> QED
      BY <1>2, <2>1, <2>2, <2>3, <2>4, <2>5, Zenon DEF BuildPacket
  <1>9. ASSUME NEW i \in Bytes
        PROVE  p[i] = CASE i \in 1 .. 10 -> <<"net", i>>
                        [] i \in 11 .. 12 -> unw
                        [] i \in 13 .. 26 -> <<"eth", i - 12>>
                        [] i \in 27 .. 54 -> <<"arp", i - 26>>
                        [] OTHER -> <<"data", i - 54>>
    <2>1. CASE i \in 1 .. 10
      <3>1. p[i] = p1[i] /\ i - 0 = i
        BY <1>1, <1>4, <1>5, <1>6, <1>7, <2>1
      <3>2. i \notin 11 .. 12 /\ i \notin 13 .. 26 /\ i \notin 27 .. 54
        BY <2>1
      <3> QED
        BY <1>3, <2>1, <3>1, <3>2
    <2>2. CASE i \in 11 .. 12
      <3>1. p[i] = p1[i] /\ i - 0 \notin 1 .. 10
        BY <1>1, <1>4, <1>5, <1>6, <1>7, <2>2
      <3>2. i \notin 1 .. 10 /\ i \notin 13 .. 26 /\ i \notin 27 .. 54
        BY <2>2
      <3> QED
        BY <1>3, <2>2, <3>1, <3>2, Zenon
    <2>3. CASE i \in 13 .. 26
      <3>1. p[i] = p2[i]
        BY <1>1, <1>5, <1>6, <1>7, <2>3
      <3>2. /\ i - 12 \in 1 .. 14
            /\ i \notin 1 .. 10 /\ i \notin 11 .. 12 /\ i \notin 27 .. 54
        BY <2>3
      <3> QED
        BY <1>4, <2>3, <3>1, <3>2, Zenon
    <2>4. CASE i \in 27 .. 54
      <3>1. p[i] = p4[i]
        BY <1>7, <2>4
      <3> QED
        BY <1>6, <2>4, <3>1
    <2>5. CASE i \in 55 .. 54 + n
      <3>1. /\ i - 54 \in 1 .. n
            /\ i \notin 1 .. 10 /\ i \notin 11 .. 12 /\ i \notin 13 .. 26 /\ i \notin 27 .. 54
        BY <2>5
      <3> QED
        BY <1>7, <3>1, Zenon
    <2> QED
      BY <2>1, <2>2, <2>3, <2>4, <2>5
  <1> QED
    BY <1>2, <1>7, <1>8, <1>9

(***************************************************************************)
(* The packet of a call has every part in its place, the data behind the   *)
(* headers whole, although build_eth_frame copies it over where the ARP    *)
(* header goes (virt_mmio_net_tx, build_eth_frame, build_arp_response):    *)
(* for data of every length, also where its 16-bit payload_len wraps.      *)
(***************************************************************************)
THEOREM PacketIsBuilt == Spec => []PacketBuilt
  <1>1. Built => PacketBuilt
    BY Stores, Zenon DEF Built, PacketBuilt
  <1> QED
    BY <1>1, BuiltHolds, PTL
=============================================================================

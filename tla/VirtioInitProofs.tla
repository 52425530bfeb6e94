-------------------------- MODULE VirtioInitProofs --------------------------
(***************************************************************************)
(* Proofs about VirtioInit: for every number of slots and every size of    *)
(* the queues, however the allocations and the devices answer, the scan    *)
(* gives each device rings of its own, accepts only what was offered,      *)
(* serves only a live device and leaves the live ones alone.               *)
(*                                                                         *)
(* The inductive invariant VInv follows the driver through one device:     *)
(* which of the queues of net_queues are prepared, which of them the       *)
(* device already has, and what its status word holds at each line.  That  *)
(* the rings are the device's own rests on the order of the allocations:   *)
(* everything a ready queue works on lies at or below allocs, and what     *)
(* virt_mmio_net_virtq_init writes lies above.                             *)
(***************************************************************************)
EXTENDS VirtioInit, TLAPS

Bits == {VERSION_1, NET_F_MAC}
Status == {"ACKNOWLEDGE", "DRIVER", "FEATURES_OK", "DRIVER_OK"}
BlockOrNull == 0 .. (4 * VIRTIO_SLOTS)

Queue == [ring : BlockOrNull, num : {0, Size}, ready : BOOLEAN]
Registers == [net : BOOLEAN, offered : [{0, 1} -> SUBSET Bits],
              max : [Queues -> {Size - 1, Size}], sel : {0, 1},
              status : SUBSET Status, accepted : [{0, 1} -> SUBSET Bits],
              q : [Queues -> Queue]]
Block == [kind : {"raw", "ring", "buffers"}, buffers : BlockOrNull,
          avail : {0, Size}]

Typed ==
  /\ dev \in [Slots -> Registers]
  /\ net_queues \in [Queues -> [ring : BlockOrNull, buffers : BlockOrNull]]
  /\ mem \in [Blocks -> Block]
  /\ allocs \in Nat /\ slot \in 1 .. VIRTIO_SLOTS + 1
  /\ pc \in {"probe", "virtq_init", "avail", "ack", "driver", "low", "high", "features",
             "features_ok", "setup", "driver_ok", "serve", "done"}
  /\ queue \in Queues /\ feat_low \subseteq {NET_F_MAC}

\* The driver is in the initialisation of the device in slot.
Working == pc \notin {"probe", "done"}

\* The queues of net_queues that virtq_init has finished for this device, and
\* the queues this device has been told of.
Prepared == {k \in Queues : Working /\ (pc = "virtq_init" => k < queue)}
SetUp == {k \in Queues : pc \in {"driver_ok", "serve"} \/ (pc = "setup" /\ k < queue)}

\* Each device before this one took at most four blocks.
Allocated ==
  /\ Working => slot \in Slots
  /\ allocs <= 4 * (slot - 1) + (IF pc = "virtq_init" THEN 2 * queue
                                 ELSE IF Working THEN 4 ELSE 0)

\* r is a finished ring.
IsRing(r) ==
  /\ r \in 1 .. allocs /\ mem[r].buffers \in 1 .. allocs
  /\ mem[r].kind = "ring" /\ mem[mem[r].buffers].kind = "buffers"

\* Two rings have nothing in common.
Apart(r, s) == r # s /\ mem[r].buffers # mem[s].buffers

PreparedRings ==
  /\ \A k \in Prepared : IsRing(net_queues[k].ring)
  /\ \A k, l \in Prepared : k # l => Apart(net_queues[k].ring, net_queues[l].ring)

Ready(i, k) == dev[i].q[k].ready
Ring(i, k) == dev[i].q[k].ring

ReadyRings ==
  /\ \A i \in Slots, k \in Queues : Ready(i, k) => IsRing(Ring(i, k))
  /\ \A i, j \in Slots, k, l \in Queues :
       Ready(i, k) /\ Ready(j, l) /\ <<i, k>> # <<j, l>> => Apart(Ring(i, k), Ring(j, l))
  /\ \A i \in Slots, k \in Queues, l \in Prepared :
       Ready(i, k) /\ i # slot => Apart(Ring(i, k), net_queues[l].ring)

\* Slots not scanned yet have no ready queue, and this one has those it was
\* told of.
Scanned ==
  /\ \A i \in Slots, k \in Queues : Ready(i, k) => i < slot \/ (i = slot /\ Working)
  /\ Working => \A k \in Queues :
       /\ Ready(slot, k) <=> k \in SetUp
       /\ k \in SetUp => Ring(slot, k) = net_queues[k].ring

LiveDevices ==
  \A i \in Slots : "DRIVER_OK" \in dev[i].status =>
    /\ i < slot \/ (i = slot /\ pc = "serve")
    /\ \A k \in Queues : Ready(i, k)

StatusOf ==
  CASE pc \in {"virtq_init", "avail", "ack"} -> {}
    [] pc = "driver" -> {"ACKNOWLEDGE"}
    [] pc \in {"setup", "driver_ok"} -> {"ACKNOWLEDGE", "DRIVER", "FEATURES_OK"}
    [] pc = "serve" -> Status
    [] OTHER -> {"ACKNOWLEDGE", "DRIVER"}

\* The receive buffers are available before the device is told anything.
Negotiated ==
  /\ pc \notin {"probe", "virtq_init", "avail", "done"} => mem[net_queues[0].ring].avail = Size
  /\ Working => dev[slot].status = StatusOf
  /\ pc \in {"high", "features"} => feat_low \subseteq dev[slot].offered[0]
  /\ pc = "features" => VERSION_1 \in dev[slot].offered[1]
  /\ pc = "features_ok" =>
       /\ \A w \in {0, 1} : dev[slot].accepted[w] \subseteq dev[slot].offered[w]
       /\ VERSION_1 \in dev[slot].accepted[1]

VInv ==
  /\ Typed /\ Allocated /\ PreparedRings /\ ReadyRings
  /\ Scanned /\ LiveDevices /\ Negotiated /\ AcceptedOffered

-----------------------------------------------------------------------------
(***************************************************************************)
(* Registers and memory                                                    *)
(***************************************************************************)
\* A write to STATUS changes only the status.
LEMMA StatusWrite ==
  ASSUME NEW d \in Registers, NEW v \in SUBSET Status
  PROVE  LET e == [d EXCEPT !.status = v]
         IN  /\ e \in Registers /\ e.status = v
             /\ e.q = d.q /\ e.offered = d.offered /\ e.accepted = d.accepted
  BY Zenon DEF Registers

\* A write to DEVICE_FEATURES_SEL changes only the selected word.
LEMMA SelWrite ==
  ASSUME NEW d \in Registers, NEW v \in {0, 1}
  PROVE  LET e == [d EXCEPT !.sel = v]
         IN  /\ e \in Registers /\ e.sel = v /\ e.status = d.status
             /\ e.q = d.q /\ e.offered = d.offered /\ e.accepted = d.accepted
  BY Zenon DEF Registers

\* A write to DRIVER_FEATURES changes only what is accepted.
LEMMA FeaturesWrite ==
  ASSUME NEW d \in Registers, NEW v \in [{0, 1} -> SUBSET Bits]
  PROVE  LET e == [d EXCEPT !.accepted = v]
         IN  /\ e \in Registers /\ e.accepted = v /\ e.status = d.status
             /\ e.q = d.q /\ e.offered = d.offered
  BY Zenon DEF Registers

\* The registers of a queue, written by virt_mmio_setup_queue, are its own.
LEMMA QueueWrite ==
  ASSUME NEW d \in Registers, NEW k \in Queues, NEW v \in Queue
  PROVE  LET e == [d EXCEPT !.q[k] = v]
         IN  /\ e \in Registers /\ e.q[k] = v /\ e.status = d.status
             /\ \A l \in Queues \ {k} : e.q[l] = d.q[l]
             /\ e.offered = d.offered /\ e.accepted = d.accepted
  BY Zenon DEF Registers

\* A reset leaves a device with no queue, nothing accepted, and status 0.
LEMMA ResetWrite ==
  ASSUME NEW d \in Registers
  PROVE  LET e == Reset(virt_print_device_info(d))
         IN  /\ e \in Registers /\ e.status = {} /\ e.offered = d.offered
             /\ \A k \in Queues : ~ e.q[k].ready
  <1>1. NoQueue \in Queue /\ ~ NoQueue.ready
    BY InitAssumption DEF NoQueue, Queue, BlockOrNull, NULL
  <1>2. [w \in {0, 1} |-> {}] \in [{0, 1} -> SUBSET Bits]
    OBVIOUS
  <1>3. [k \in Queues |-> NoQueue] \in [Queues -> Queue]
    BY <1>1, Zenon
  <1> HIDE DEF NoQueue
  <1> QED
    BY <1>1, <1>2, <1>3, Zenon DEF Registers, Reset, virt_print_device_info

\* The driver writes to the registers of one slot.
LEMMA OneSlot ==
  ASSUME Typed, slot \in Slots, NEW d \in Registers, dev' = [dev EXCEPT ![slot] = d]
  PROVE  /\ dev' \in [Slots -> Registers] /\ dev'[slot] = d
         /\ \A i \in Slots \ {slot} : dev'[i] = dev[i]
  BY Zenon DEF Typed

\* What virt_mmio_net_virtq_init makes of its two blocks.
LEMMA NewBlocks ==
  ASSUME NEW b \in BlockOrNull
  PROVE  /\ RingOf(b) \in Block /\ RingOf(b).buffers = b /\ RingOf(b).kind = "ring"
         /\ Buffers \in Block /\ Buffers.kind = "buffers"
  <1>1. Raw \in Block
    BY InitAssumption DEF Raw, Block, BlockOrNull, NULL
  <1>2. \A r \in Block : /\ [r EXCEPT !.kind = "buffers"] \in Block
                         /\ [r EXCEPT !.kind = "buffers"].kind = "buffers"
    BY Zenon DEF Block
  <1>3. Buffers \in Block /\ Buffers.kind = "buffers"
    BY <1>1, <1>2, Zenon DEF Buffers
  <1>4. RingOf(b) \in Block /\ RingOf(b).buffers = b /\ RingOf(b).kind = "ring"
    BY Zenon DEF RingOf, Block
  <1> QED
    BY <1>3, <1>4, Zenon

\* Memory that is handed out is not written again, so a ring stays one.
LEMMA RingsStay ==
  ASSUME Typed, allocs' \in Nat, allocs <= allocs',
         \A r \in 1 .. allocs : mem'[r] = mem[r]
  PROVE  \A r : IsRing(r) => IsRing(r)' /\ mem'[r] = mem[r]
  BY DEF IsRing, Typed

\* The rings as they were: a step that tells no device of a queue, prepares
\* none, and stays at the device or leaves it.
LEMMA RingsKept ==
  ASSUME PreparedRings, ReadyRings, UNCHANGED <<mem, allocs, net_queues>>,
         \A i \in Slots, k \in Queues : Ready(i, k)' => Ready(i, k) /\ Ring(i, k)' = Ring(i, k),
         Prepared' \subseteq Prepared, Prepared' # {} => slot' = slot
  PROVE  PreparedRings' /\ ReadyRings'
  <1>1. \A r : IsRing(r)' <=> IsRing(r)
    BY Zenon DEF IsRing
  <1>2. \A r, s : Apart(r, s)' <=> Apart(r, s)
    BY Zenon DEF Apart
  <1>3. PreparedRings'
    BY <1>1, <1>2, Zenon DEF PreparedRings
  <1>4. ReadyRings'
    BY <1>1, <1>2 DEF ReadyRings
  <1> QED
    BY <1>3, <1>4, Zenon

-----------------------------------------------------------------------------
(***************************************************************************)
(* The steps                                                               *)
(***************************************************************************)
\* Before the scan no device has anything.
LEMMA InitV == Init => VInv
  <1> SUFFICES ASSUME Init PROVE VInv
    OBVIOUS
  <1>1. NoQueue \in Queue /\ ~ NoQueue.ready
    BY InitAssumption DEF NoQueue, Queue, BlockOrNull, NULL
  <1>2. dev \in [Slots -> Registers]
    <2>1. [k \in Queues |-> NoQueue] \in [Queues -> Queue]
      BY <1>1, Zenon
    <2>2. \A i \in Slots : dev[i] \in Registers
      BY <2>1 DEF Init, Registers, Bits
    <2> QED
      BY <2>2, Zenon DEF Init
  <1>3. \A i \in Slots : dev[i].status = {} /\ \A k \in Queues : ~ Ready(i, k)
    BY <1>1 DEF Init, Ready
  <1>4. Raw \in Block
    BY InitAssumption DEF Raw, Block, BlockOrNull, NULL
  <1>5. Typed
    BY <1>2, <1>4, InitAssumption DEF Init, Typed, BlockOrNull, NULL, Queues
  <1>6. ~ Working /\ Prepared = {}
    BY Zenon DEF Init, Working, Prepared
  <1>7. Allocated
    BY <1>6 DEF Init, Allocated
  <1>8. PreparedRings /\ ReadyRings /\ Scanned
    BY <1>3, <1>6, Zenon DEF PreparedRings, ReadyRings, Scanned
  <1>9. LiveDevices /\ AcceptedOffered
    BY <1>3, Zenon DEF LiveDevices, AcceptedOffered
  <1>10. Negotiated
    BY <1>6, Zenon DEF Init, Negotiated
  <1> QED
    BY <1>5, <1>7, <1>8, <1>9, <1>10, Zenon DEF VInv

\* The driver leaves a device, served or given up, or passes a slot.
LEMMA NextSlot ==
  ASSUME VInv, slot \in Slots, pc \in {"probe", "serve"} \/ Working, pc # "done",
         pc' = "probe", slot' = slot + 1,
         UNCHANGED <<dev, mem, allocs, net_queues, feat_low>>, queue' \in Queues
  PROVE  VInv'
  <1> USE DEF VInv
  <1>1. ~ Working' /\ Prepared' = {}
    BY Zenon DEF Working, Prepared
  <1>2. \A i \in Slots, k \in Queues : Ready(i, k)' = Ready(i, k) /\ Ring(i, k)' = Ring(i, k)
    BY Zenon DEF Ready, Ring
  <1>3. Typed'
    BY InitAssumption DEF Typed, Slots
  <1>4. Allocated'
    BY <1>1, InitAssumption DEF Allocated, Typed, Queues, Slots
  <1>5. PreparedRings' /\ ReadyRings'
    BY <1>1, <1>2, RingsKept, Zenon
  <1>6. Scanned'
    BY <1>1, <1>2, InitAssumption DEF Scanned, Slots
  <1>7. LiveDevices'
    BY <1>2, InitAssumption DEF LiveDevices, Slots
  <1>8. Negotiated' /\ AcceptedOffered'
    BY <1>1, Zenon DEF Negotiated, AcceptedOffered
  <1> QED
    BY <1>3, <1>4, <1>5, <1>6, <1>7, <1>8, Zenon

\* A network device is reset before its initialisation.
LEMMA FoundKeeps ==
  ASSUME VInv, NetFound
  PROVE  VInv'
  <1> USE DEF VInv
  <1> DEFINE d == Reset(virt_print_device_info(dev[slot]))
  <1>1. slot \in Slots /\ dev[slot] \in Registers /\ pc = "probe" /\ pc' = "virtq_init"
        /\ queue' = 0 /\ UNCHANGED <<net_queues, mem, allocs, slot, feat_low>>
        /\ dev' = [dev EXCEPT ![slot] = d]
    BY Zenon DEF NetFound, Typed
  <1>2. d \in Registers /\ d.status = {} /\ (\A k \in Queues : ~ d.q[k].ready)
    BY <1>1, ResetWrite, Zenon
  <1> HIDE DEF d
  <1>3. dev' \in [Slots -> Registers] /\ dev'[slot] = d /\ (\A i \in Slots \ {slot} : dev'[i] = dev[i])
    BY <1>1, <1>2, OneSlot, Zenon
  <1>4. ~ Working /\ Working' /\ Prepared' = {} /\ SetUp' = {}
    BY <1>1 DEF Working, Prepared, SetUp, Queues
  <1>5. \A i \in Slots, k \in Queues :
          Ready(i, k)' => i # slot /\ Ready(i, k) /\ Ring(i, k)' = Ring(i, k)
    BY <1>2, <1>3, Zenon DEF Ready, Ring
  <1>6. Typed'
    BY <1>1, <1>3, Zenon DEF Typed, Queues
  <1>7. Allocated'
    BY <1>1, <1>4, InitAssumption DEF Allocated, Typed
  <1>8. PreparedRings' /\ ReadyRings'
    BY <1>1, <1>4, <1>5, RingsKept, Zenon
  <1>9. Scanned'
    <2>1. \A i \in Slots, k \in Queues : Ready(i, k)' => i < slot'
      BY <1>1, <1>4, <1>5, Zenon DEF Scanned
    <2>2. \A k \in Queues : ~ Ready(slot, k)'
      BY <1>1, <1>5, Zenon
    <2> QED
      BY <1>4, <2>1, <2>2, Zenon DEF Scanned
  <1>10. LiveDevices'
    <2>1. \A i \in Slots : "DRIVER_OK" \in dev'[i].status => i # slot /\ dev'[i] = dev[i]
      BY <1>2, <1>3, Zenon
    <2> QED
      BY <1>1, <2>1, Zenon DEF LiveDevices, Ready
  <1>11. Negotiated'
    BY <1>1, <1>2, <1>3, Zenon DEF Negotiated, StatusOf
  <1>12. AcceptedOffered'
    BY <1>2, <1>3, Zenon DEF AcceptedOffered
  <1> QED
    BY <1>6, <1>7, <1>8, <1>9, <1>10, <1>11, <1>12, Zenon

\* A step of the negotiation: registers of the device in slot are written,
\* but none of its queues, and the driver stays at it or gives it up.
LEMMA NegotiationKeeps ==
  ASSUME VInv, Working, NEW d \in Registers, dev' = [dev EXCEPT ![slot] = d],
         d.q = dev[slot].q, UNCHANGED <<net_queues, mem, allocs>>,
         \/ /\ slot' = slot /\ Working' /\ pc # "virtq_init" /\ pc' # "virtq_init"
            /\ SetUp' = SetUp
         \/ slot' = slot + 1 /\ pc' = "probe",
         "DRIVER_OK" \in d.status => pc' = "serve" /\ slot' = slot /\ SetUp = Queues,
         "FEATURES_OK" \in d.status => /\ \A w \in {0, 1} : d.accepted[w] \subseteq d.offered[w]
                                       /\ VERSION_1 \in d.accepted[1]
  PROVE  /\ Allocated' /\ PreparedRings' /\ ReadyRings' /\ Scanned'
         /\ LiveDevices' /\ AcceptedOffered'
         /\ dev' \in [Slots -> Registers] /\ slot \in Slots /\ dev'[slot] = d
  <1> USE DEF VInv
  <1>1. slot \in Slots
    BY Zenon DEF Allocated
  <1>2. dev' \in [Slots -> Registers] /\ dev'[slot] = d /\ (\A i \in Slots \ {slot} : dev'[i] = dev[i])
    BY <1>1, OneSlot, Zenon
  <1>3. \A i \in Slots, k \in Queues :
          (Ready(i, k)' <=> Ready(i, k)) /\ Ring(i, k)' = Ring(i, k)
    BY <1>2, Zenon DEF Ready, Ring
  <1>4. \/ slot' = slot /\ Working' /\ pc' # "virtq_init"
        \/ slot' = slot + 1 /\ ~ Working' /\ pc' = "probe"
    BY Zenon DEF Working
  <1>5. Allocated'
    <2>1. allocs <= 4 * (slot - 1) + 4 /\ (pc # "virtq_init" \/ slot' = slot + 1)
      BY <1>1, InitAssumption DEF Allocated, Typed, Queues, Slots
    <2>2. CASE slot' = slot /\ Working' /\ pc' # "virtq_init"
      BY <1>1, <2>1, <2>2, Zenon DEF Allocated
    <2>3. CASE slot' = slot + 1 /\ ~ Working' /\ pc' = "probe"
      BY <1>1, <2>1, <2>3, InitAssumption DEF Allocated, Typed, Slots
    <2> QED
      BY <1>4, <2>2, <2>3, Zenon
  <1>6. Prepared' \subseteq Prepared /\ (Prepared' # {} => slot' = slot)
    <2>1. slot' = slot /\ Working' => Prepared = Queues
      BY <1>1, InitAssumption, Zenon DEF Prepared, Working, Slots
    <2>2. Prepared' \subseteq Queues /\ (~ Working' => Prepared' = {})
      BY Zenon DEF Prepared
    <2> QED
      BY <1>4, <2>1, <2>2, Zenon
  <1>7. PreparedRings' /\ ReadyRings'
    BY <1>3, <1>6, RingsKept, Zenon
  <1>8. Scanned'
    <2>1. CASE slot' = slot /\ Working'
      <3>1. SetUp' = SetUp /\ UNCHANGED net_queues
        BY <2>1, <1>1, InitAssumption, Zenon DEF Working, Slots
      <3>2. \A k \in Queues : (Ready(slot, k)' <=> k \in SetUp')
                              /\ (k \in SetUp' => Ring(slot, k)' = net_queues'[k].ring)
        BY <1>1, <1>3, <2>1, <3>1, Zenon DEF Scanned
      <3> QED
        BY <1>3, <2>1, <3>2, Zenon DEF Scanned
    <2>2. CASE slot' = slot + 1 /\ ~ Working'
      BY <1>1, <1>3, <2>2, InitAssumption DEF Scanned, Slots
    <2> QED
      BY <1>4, <2>1, <2>2, Zenon
  <1>9. LiveDevices'
    <2> SUFFICES ASSUME NEW i \in Slots, "DRIVER_OK" \in dev'[i].status
                 PROVE  /\ i < slot' \/ (i = slot' /\ pc' = "serve")
                        /\ \A k \in Queues : Ready(i, k)'
      BY Zenon DEF LiveDevices
    <2>1. CASE i = slot
      <3>1. pc' = "serve" /\ slot' = slot /\ SetUp = Queues
        BY <1>2, <2>1, Zenon
      <3> QED
        BY <1>3, <2>1, <3>1, Zenon DEF Scanned
    <2>2. CASE i # slot
      <3>1. i < slot /\ \A k \in Queues : Ready(i, k)
        BY <1>2, <2>2, Zenon DEF LiveDevices
      <3> QED
        BY <1>1, <1>3, <1>4, <3>1, InitAssumption DEF Slots
    <2> QED
      BY <2>1, <2>2, Zenon
  <1>10. AcceptedOffered'
    BY <1>2, Zenon DEF AcceptedOffered
  <1> QED
    BY <1>1, <1>2, <1>5, <1>7, <1>8, <1>9, <1>10, Zenon

\* ACKNOWLEDGE, then DRIVER, are written to a device that was reset.
LEMMA AckKeeps ==
  ASSUME VInv, Acknowledge \/ Driver
  PROVE  VInv'
  <1> USE DEF VInv
  <1>1. PICK v \in {{"ACKNOWLEDGE"}, {"ACKNOWLEDGE", "DRIVER"}} :
          /\ dev' = [dev EXCEPT ![slot].status = v]
          /\ \/ pc = "ack" /\ pc' = "driver" /\ v = {"ACKNOWLEDGE"}
             \/ pc = "driver" /\ pc' = "low" /\ v = {"ACKNOWLEDGE", "DRIVER"}
    BY Zenon DEF Acknowledge, Driver
  <1>2. UNCHANGED <<net_queues, mem, allocs, slot, queue, feat_low>>
    BY Zenon DEF Acknowledge, Driver
  <1> DEFINE d == [dev[slot] EXCEPT !.status = v]
  <1>3. slot \in Slots /\ dev[slot] \in Registers /\ Working /\ Working'
    BY <1>1, Zenon DEF Working, Allocated, Typed
  <1>4. d \in Registers /\ d.status = v /\ d.q = dev[slot].q
    <2>1. v \in SUBSET Status
      BY Zenon DEF Status
    <2> QED
      BY <1>3, <2>1, StatusWrite, Zenon
  <1>5. dev' = [dev EXCEPT ![slot] = d]
    BY <1>1, Zenon
  <1> HIDE DEF d
  <1>6. SetUp' = SetUp
    BY <1>1, Zenon DEF SetUp
  <1>7. "DRIVER_OK" \notin d.status /\ "FEATURES_OK" \notin d.status
    BY <1>4, Zenon
  <1>8. /\ Allocated' /\ PreparedRings' /\ ReadyRings' /\ Scanned' /\ LiveDevices'
        /\ AcceptedOffered' /\ dev' \in [Slots -> Registers] /\ dev'[slot] = d
    BY <1>1, <1>2, <1>3, <1>4, <1>5, <1>6, <1>7, NegotiationKeeps, Zenon
  <1>9. Typed'
    BY <1>1, <1>2, <1>8, Zenon DEF Typed
  <1>10. Negotiated'
    BY <1>1, <1>2, <1>4, <1>8, Zenon DEF Negotiated, StatusOf
  <1> QED
    BY <1>8, <1>9, <1>10, Zenon

\* The low word of the features is selected and read.
LEMMA LowKeeps ==
  ASSUME VInv, ReadLow
  PROVE  VInv'
  <1> USE DEF VInv
  <1> DEFINE d == [dev[slot] EXCEPT !.sel = 0]
  <1>1. pc = "low" /\ pc' = "high" /\ dev' = [dev EXCEPT ![slot] = d]
        /\ feat_low' = Features(d) \cap {NET_F_MAC}
        /\ UNCHANGED <<net_queues, mem, allocs, slot, queue>>
    BY Zenon DEF ReadLow
  <1>2. slot \in Slots /\ dev[slot] \in Registers /\ Working /\ Working'
    BY <1>1, Zenon DEF Working, Allocated, Typed
  <1>3. d \in Registers /\ d.sel = 0 /\ d.status = dev[slot].status /\ d.q = dev[slot].q
        /\ d.offered = dev[slot].offered /\ d.accepted = dev[slot].accepted
    BY <1>2, SelWrite, Zenon
  <1> HIDE DEF d
  <1>4. SetUp' = SetUp
    BY <1>1, Zenon DEF SetUp
  <1>5. d.status = {"ACKNOWLEDGE", "DRIVER"}
    BY <1>1, <1>2, <1>3, Zenon DEF Negotiated, StatusOf
  <1>6. /\ Allocated' /\ PreparedRings' /\ ReadyRings' /\ Scanned' /\ LiveDevices'
        /\ AcceptedOffered' /\ dev' \in [Slots -> Registers] /\ dev'[slot] = d
    BY <1>1, <1>2, <1>3, <1>4, <1>5, NegotiationKeeps, Zenon
  <1>7. Typed'
    BY <1>1, <1>6, Zenon DEF Typed
  <1>8. Negotiated'
    BY <1>1, <1>3, <1>5, <1>6, Zenon DEF Negotiated, StatusOf, Features
  <1> QED
    BY <1>6, <1>7, <1>8, Zenon

\* Without VERSION_1 in the high word the device is given up.
LEMMA HighKeeps ==
  ASSUME VInv, ReadHigh
  PROVE  VInv'
  <1> USE DEF VInv
  <1> DEFINE d == [dev[slot] EXCEPT !.sel = 1]
  <1>1. pc = "high" /\ dev' = [dev EXCEPT ![slot] = d]
        /\ UNCHANGED <<net_queues, mem, allocs, queue, feat_low>>
    BY Zenon DEF ReadHigh
  <1>2. \/ VERSION_1 \in Features(d) /\ pc' = "features" /\ slot' = slot
        \/ pc' = "probe" /\ slot' = slot + 1
    BY Zenon DEF ReadHigh, GiveUp
  <1>3. slot \in Slots /\ dev[slot] \in Registers /\ Working
    BY <1>1, Zenon DEF Working, Allocated, Typed
  <1>4. d \in Registers /\ d.sel = 1 /\ d.status = dev[slot].status /\ d.q = dev[slot].q
        /\ d.offered = dev[slot].offered /\ d.accepted = dev[slot].accepted
    BY <1>3, SelWrite, Zenon
  <1> HIDE DEF d
  <1>5. \/ slot' = slot /\ Working' /\ pc # "virtq_init" /\ pc' # "virtq_init" /\ SetUp' = SetUp
        \/ slot' = slot + 1 /\ pc' = "probe"
    BY <1>1, <1>2, Zenon DEF SetUp, Working
  <1>6. d.status = {"ACKNOWLEDGE", "DRIVER"}
    BY <1>1, <1>3, <1>4, Zenon DEF Negotiated, StatusOf
  <1>7. /\ Allocated' /\ PreparedRings' /\ ReadyRings' /\ Scanned' /\ LiveDevices'
        /\ AcceptedOffered' /\ dev' \in [Slots -> Registers] /\ dev'[slot] = d
    BY <1>1, <1>3, <1>4, <1>5, <1>6, NegotiationKeeps, Zenon
  <1>8. Typed'
    BY <1>1, <1>2, <1>3, <1>7, InitAssumption DEF Typed, Slots
  <1>9. Negotiated'
    BY <1>1, <1>2, <1>4, <1>6, <1>7, Zenon DEF Negotiated, StatusOf, Features, Working
  <1> QED
    BY <1>7, <1>8, <1>9

\* What is accepted was read from the device, each word where it belongs.
LEMMA WriteKeeps ==
  ASSUME VInv, WriteFeatures
  PROVE  VInv'
  <1> USE DEF VInv
  <1> DEFINE v == [w \in {0, 1} |-> IF w = 0 THEN feat_low ELSE {VERSION_1}]
             d == [dev[slot] EXCEPT !.accepted = v]
  <1>1. pc = "features" /\ pc' = "features_ok" /\ dev' = [dev EXCEPT ![slot] = d]
        /\ UNCHANGED <<net_queues, mem, allocs, slot, queue, feat_low>>
    BY Zenon DEF WriteFeatures
  <1>2. slot \in Slots /\ dev[slot] \in Registers /\ Working /\ Working'
    BY <1>1, Zenon DEF Working, Allocated, Typed
  <1>3. v \in [{0, 1} -> SUBSET Bits] /\ v[0] = feat_low /\ v[1] = {VERSION_1}
    BY DEF Typed, Bits
  <1> HIDE DEF v
  <1>4. d \in Registers /\ d.accepted = v /\ d.status = dev[slot].status
        /\ d.q = dev[slot].q /\ d.offered = dev[slot].offered
    BY <1>2, <1>3, FeaturesWrite, Zenon
  <1> HIDE DEF d
  <1>5. SetUp' = SetUp
    BY <1>1, Zenon DEF SetUp
  <1>6. d.status = {"ACKNOWLEDGE", "DRIVER"}
    BY <1>1, <1>2, <1>4, Zenon DEF Negotiated, StatusOf
  <1>7. /\ Allocated' /\ PreparedRings' /\ ReadyRings' /\ Scanned' /\ LiveDevices'
        /\ AcceptedOffered' /\ dev' \in [Slots -> Registers] /\ dev'[slot] = d
    BY <1>1, <1>2, <1>4, <1>5, <1>6, NegotiationKeeps, Zenon
  <1>8. Typed'
    BY <1>1, <1>7, Zenon DEF Typed
  <1>9. feat_low \subseteq dev[slot].offered[0] /\ VERSION_1 \in dev[slot].offered[1]
    BY <1>1, Zenon DEF Negotiated
  <1>10. Negotiated'
    BY <1>1, <1>3, <1>4, <1>6, <1>7, <1>9, Zenon DEF Negotiated, StatusOf
  <1> QED
    BY <1>7, <1>8, <1>10

\* A device that keeps FEATURES_OK goes on with what it accepted; one that
\* refuses is given up.
LEMMA FeaturesOkKeeps ==
  ASSUME VInv, FeaturesOk
  PROVE  VInv'
  <1> USE DEF VInv
  <1>1. pc = "features_ok" /\ UNCHANGED <<net_queues, mem, allocs, feat_low>>
    BY Zenon DEF FeaturesOk
  <1>2. slot \in Slots /\ dev[slot] \in Registers /\ Working
        /\ dev[slot].status = {"ACKNOWLEDGE", "DRIVER"}
    BY <1>1, Zenon DEF Working, Allocated, Typed, Negotiated, StatusOf
  <1> DEFINE v == dev[slot].status \cup {"FEATURES_OK"}
             d == [dev[slot] EXCEPT !.status = v]
  <1>3. CASE pc' = "setup" /\ dev' = [dev EXCEPT ![slot] = d] /\ queue' = 0 /\ slot' = slot
    <2>1. v \in SUBSET Status /\ v = {"ACKNOWLEDGE", "DRIVER", "FEATURES_OK"}
      BY <1>2, Zenon DEF Status
    <2> HIDE DEF v
    <2>2. d \in Registers /\ d.status = v /\ d.q = dev[slot].q
          /\ d.offered = dev[slot].offered /\ d.accepted = dev[slot].accepted
      BY <1>2, <2>1, StatusWrite
    <2> HIDE DEF d
    <2>3. SetUp' = SetUp /\ Working'
      BY <1>1, <1>3 DEF SetUp, Working, Queues
    <2>4. "DRIVER_OK" \notin d.status
      BY <2>1, <2>2
    <2>5. (\A w \in {0, 1} : d.accepted[w] \subseteq d.offered[w]) /\ VERSION_1 \in d.accepted[1]
      BY <1>1, <2>2, Zenon DEF Negotiated
    <2>6. /\ Allocated' /\ PreparedRings' /\ ReadyRings' /\ Scanned' /\ LiveDevices'
          /\ AcceptedOffered' /\ dev' \in [Slots -> Registers] /\ dev'[slot] = d
      BY <1>1, <1>2, <1>3, <2>2, <2>3, <2>4, <2>5, NegotiationKeeps, Zenon
    <2>7. Typed'
      BY <1>1, <1>3, <2>6, Zenon DEF Typed, Queues
    <2>8. Negotiated'
      BY <1>1, <1>3, <2>1, <2>2, <2>6, Zenon DEF Negotiated, StatusOf
    <2> QED
      BY <2>6, <2>7, <2>8
  <1>4. CASE GiveUp /\ UNCHANGED <<dev, queue>>
    BY <1>1, <1>2, <1>4, NextSlot, Zenon DEF GiveUp, Typed
  <1>5. \/ pc' = "setup" /\ dev' = [dev EXCEPT ![slot] = d] /\ queue' = 0 /\ slot' = slot
        \/ GiveUp /\ UNCHANGED <<dev, queue>>
    BY Zenon DEF FeaturesOk
  <1> QED
    BY <1>3, <1>4, <1>5, Zenon

\* DRIVER_OK is written to a device that has both queues.
LEMMA DriverOkKeeps ==
  ASSUME VInv, DriverOk
  PROVE  VInv'
  <1> USE DEF VInv
  <1> DEFINE v == dev[slot].status \cup {"DRIVER_OK"}
             d == [dev[slot] EXCEPT !.status = v]
  <1>1. pc = "driver_ok" /\ pc' = "serve" /\ dev' = [dev EXCEPT ![slot] = d]
        /\ UNCHANGED <<net_queues, mem, allocs, slot, queue, feat_low>>
    BY Zenon DEF DriverOk
  <1>2. slot \in Slots /\ dev[slot] \in Registers /\ Working /\ Working'
        /\ dev[slot].status = {"ACKNOWLEDGE", "DRIVER", "FEATURES_OK"}
    BY <1>1, Zenon DEF Working, Allocated, Typed, Negotiated, StatusOf
  <1>3. v \in SUBSET Status /\ v = Status
    BY <1>2, Zenon DEF Status
  <1> HIDE DEF v
  <1>4. d \in Registers /\ d.status = v /\ d.q = dev[slot].q
        /\ d.offered = dev[slot].offered /\ d.accepted = dev[slot].accepted
    BY <1>2, <1>3, StatusWrite
  <1> HIDE DEF d
  <1>5. SetUp' = SetUp /\ SetUp = Queues
    BY <1>1, Zenon DEF SetUp
  <1>6. (\A w \in {0, 1} : d.accepted[w] \subseteq d.offered[w]) /\ VERSION_1 \in d.accepted[1]
    BY <1>2, <1>4, Zenon DEF AcceptedOffered
  <1>7. /\ Allocated' /\ PreparedRings' /\ ReadyRings' /\ Scanned' /\ LiveDevices'
        /\ AcceptedOffered' /\ dev' \in [Slots -> Registers] /\ dev'[slot] = d
    BY <1>1, <1>2, <1>4, <1>5, <1>6, NegotiationKeeps, Zenon
  <1>8. Typed'
    BY <1>1, <1>7, Zenon DEF Typed
  <1>9. Negotiated'
    BY <1>1, <1>3, <1>4, <1>7, Zenon DEF Negotiated, StatusOf
  <1> QED
    BY <1>7, <1>8, <1>9

\* The device is told of a queue that was prepared for it, or is given up
\* with the queues it already has.
LEMMA SetupKeeps ==
  ASSUME VInv, setup_queue
  PROVE  VInv'
  <1> USE DEF VInv
  <1>1. pc = "setup" /\ UNCHANGED <<net_queues, mem, allocs, feat_low>>
    BY Zenon DEF setup_queue
  <1>2. slot \in Slots /\ dev[slot] \in Registers /\ Working /\ queue \in Queues
        /\ dev[slot].status = {"ACKNOWLEDGE", "DRIVER", "FEATURES_OK"} /\ Prepared = Queues
    BY <1>1, Zenon DEF Working, Allocated, Typed, Negotiated, StatusOf, Prepared
  <1> DEFINE r == net_queues[queue].ring
             v == [ring |-> r, num |-> Size, ready |-> TRUE]
             d == [dev[slot] EXCEPT !.q[queue] = v]
  <1>3. CASE /\ dev' = [dev EXCEPT ![slot] = d] /\ queue' = 1 - queue /\ slot' = slot
             /\ pc' = IF queue = 1 THEN "driver_ok" ELSE pc
    <2>1. v \in Queue /\ v.ring = r /\ v.ready
      BY <1>2, Zenon DEF Queue, Typed
    <2> HIDE DEF v
    <2>2. d \in Registers /\ d.q[queue] = v /\ d.status = dev[slot].status
          /\ (\A l \in Queues \ {queue} : d.q[l] = dev[slot].q[l])
          /\ d.offered = dev[slot].offered /\ d.accepted = dev[slot].accepted
      BY <1>2, <2>1, QueueWrite
    <2> HIDE DEF d
    <2>3. dev' \in [Slots -> Registers] /\ dev'[slot] = d
          /\ (\A i \in Slots \ {slot} : dev'[i] = dev[i])
      BY <1>2, <1>3, <2>2, OneSlot, Zenon
    <2>4. \A i \in Slots, k \in Queues :
            IF i = slot /\ k = queue THEN Ready(i, k)' /\ Ring(i, k)' = r
            ELSE (Ready(i, k)' <=> Ready(i, k)) /\ Ring(i, k)' = Ring(i, k)
      BY <1>2, <2>1, <2>2, <2>3 DEF Ready, Ring
    <2>5. Working' /\ Prepared' = Queues /\ SetUp' = SetUp \cup {queue}
          /\ queue \notin SetUp /\ queue' \in Queues
      BY <1>1, <1>2, <1>3 DEF Working, Prepared, SetUp, Queues
    <2>6. (\A b : IsRing(b)' <=> IsRing(b)) /\ (\A b, c : Apart(b, c)' <=> Apart(b, c))
          /\ (\A b, c : Apart(b, c) => Apart(c, b))
      BY <1>1, Zenon DEF IsRing, Apart
    <2>7. Typed'
      BY <1>1, <1>3, <2>3, <2>5, Zenon DEF Typed
    <2>8. Allocated'
      BY <1>1, <1>2, <1>3, <2>5, Zenon DEF Allocated
    <2>9. PreparedRings'
      BY <1>1, <1>2, <2>5, <2>6 DEF PreparedRings
    <2>10. IsRing(r) /\ \A i \in Slots, k \in Queues :
             Ready(i, k) /\ ~ (i = slot /\ k = queue) => Apart(Ring(i, k), r)
      <3> SUFFICES ASSUME NEW i \in Slots, NEW k \in Queues, Ready(i, k), ~ (i = slot /\ k = queue)
                   PROVE  Apart(Ring(i, k), r)
        BY <1>2, Zenon DEF PreparedRings
      <3>1. CASE i # slot
        BY <1>2, <3>1, Zenon DEF ReadyRings
      <3>2. CASE i = slot
        BY <1>2, <3>2, Zenon DEF Scanned, PreparedRings
      <3> QED
        BY <3>1, <3>2, Zenon
    <2>11. ReadyRings'
      <3>1. \A i \in Slots, k \in Queues : Ready(i, k)' => IsRing(dev'[i].q[k].ring)
        BY <2>4, <2>10, Zenon DEF ReadyRings, Ring
      <3>2. \A i, j \in Slots, k, l \in Queues :
              Ready(i, k)' /\ Ready(j, l)' /\ <<i, k>> # <<j, l>> =>
                Apart(dev'[i].q[k].ring, dev'[j].q[l].ring)
        <4> SUFFICES ASSUME NEW i \in Slots, NEW j \in Slots, NEW k \in Queues, NEW l \in Queues,
                            Ready(i, k)', Ready(j, l)', <<i, k>> # <<j, l>>
                     PROVE  Apart(Ring(i, k)', Ring(j, l)')
          BY Zenon DEF Ring
        <4>1. CASE i = slot /\ k = queue
          BY <2>4, <2>6, <2>10, <4>1
        <4>2. CASE j = slot /\ l = queue
          BY <2>4, <2>10, <4>2, Zenon
        <4>3. CASE ~ (i = slot /\ k = queue) /\ ~ (j = slot /\ l = queue)
          BY <2>4, <4>3, Zenon DEF ReadyRings
        <4> QED
          BY <4>1, <4>2, <4>3, Zenon
      <3>3. \A i \in Slots, k \in Queues, l \in Queues :
              Ready(i, k)' /\ i # slot => Apart(dev'[i].q[k].ring, net_queues[l].ring)
        BY <1>2, <2>4, Zenon DEF ReadyRings, Ring
      <3> QED
        BY <1>1, <1>3, <2>5, <2>6, <3>1, <3>2, <3>3 DEF ReadyRings, Ring
    <2>12. Scanned'
      BY <1>1, <1>2, <1>3, <2>4, <2>5, Zenon DEF Scanned
    <2>13. LiveDevices'
      <3>1. \A i \in Slots : "DRIVER_OK" \in dev'[i].status => i # slot /\ dev'[i] = dev[i]
        BY <1>2, <2>2, <2>3
      <3> QED
        BY <1>1, <1>3, <3>1, Zenon DEF LiveDevices, Ready
    <2>14. Negotiated'
      BY <1>1, <1>2, <1>3, <2>2, <2>3, Zenon DEF Negotiated, StatusOf
    <2>15. AcceptedOffered'
      BY <2>2, <2>3 DEF AcceptedOffered
    <2> QED
      BY <2>7, <2>8, <2>9, <2>11, <2>12, <2>13, <2>14, <2>15, Zenon
  <1>4. CASE GiveUp /\ UNCHANGED <<dev, queue>>
    BY <1>1, <1>2, <1>4, NextSlot, Zenon DEF GiveUp, Typed
  <1> QED
    BY <1>3, <1>4, Zenon DEF setup_queue

\* Two new blocks become the ring and the buffers of the queue; if one of
\* them is missing the device is given up.
LEMMA VirtqKeeps ==
  ASSUME VInv, virtq_init
  PROVE  VInv'
  <1> USE DEF VInv
  <1>1. pc = "virtq_init" /\ UNCHANGED <<dev, feat_low>>
    BY Zenon DEF virtq_init
  <1>2. slot \in Slots /\ Working /\ queue \in Queues /\ allocs \in Nat
        /\ allocs + 2 <= 4 * VIRTIO_SLOTS /\ allocs <= 4 * (slot - 1) + 2 * queue
        /\ dev[slot].status = {}
    BY <1>1, InitAssumption DEF Working, Allocated, Typed, Negotiated, StatusOf, Slots, Queues
  <1>3. \A i \in Slots, k \in Queues : (Ready(i, k)' <=> Ready(i, k)) /\ Ring(i, k)' = Ring(i, k)
    BY <1>1, Zenon DEF Ready, Ring
  <1>4. \A k \in Queues : ~ Ready(slot, k)
    BY <1>1, <1>2, Zenon DEF Scanned, SetUp
  <1>5. CASE /\ net_queues' = [net_queues EXCEPT ![queue] = [ring |-> allocs + 1, buffers |-> allocs + 2]]
             /\ allocs' = allocs + 2
             /\ mem' = [mem EXCEPT ![allocs + 1] = RingOf(allocs + 2), ![allocs + 2] = Buffers]
             /\ queue' = 1 - queue /\ pc' = (IF queue = 1 THEN "avail" ELSE pc) /\ slot' = slot
    <2>1. allocs + 1 \in Blocks /\ allocs + 2 \in Blocks /\ allocs + 1 # allocs + 2
      BY <1>2, InitAssumption DEF Blocks
    <2>2. /\ RingOf(allocs + 2) \in Block /\ RingOf(allocs + 2).buffers = allocs + 2
          /\ RingOf(allocs + 2).kind = "ring" /\ Buffers \in Block /\ Buffers.kind = "buffers"
      <3>1. allocs + 2 \in BlockOrNull
        BY <1>2, InitAssumption DEF BlockOrNull
      <3> QED
        BY <1>2, <3>1, NewBlocks, Zenon
    <2>3. /\ mem'[allocs + 1] = RingOf(allocs + 2) /\ mem'[allocs + 2] = Buffers
          /\ \A b \in Blocks : b # allocs + 1 /\ b # allocs + 2 => mem'[b] = mem[b]
      BY <1>5, <2>1, <2>2, Zenon DEF Typed
    <2>4. mem' \in [Blocks -> Block]
      BY <1>5, <2>1, <2>2, Zenon DEF Typed
    <2>5. net_queues'[queue].ring = allocs + 1
          /\ \A l \in Queues \ {queue} : net_queues'[l] = net_queues[l]
      BY <1>2, <1>5, Zenon DEF Typed
    <2>6. Typed'
      <3>1. [ring |-> allocs + 1, buffers |-> allocs + 2] \in [ring : BlockOrNull, buffers : BlockOrNull]
        BY <1>2, InitAssumption DEF BlockOrNull
      <3>2. net_queues' \in [Queues -> [ring : BlockOrNull, buffers : BlockOrNull]]
        BY <1>5, <3>1, Zenon DEF Typed
      <3>3. allocs' \in Nat /\ queue' \in Queues
        BY <1>2, <1>5 DEF Queues
      <3> QED
        BY <1>1, <1>5, <2>4, <3>2, <3>3, Zenon DEF Typed
    <2>7. Working' /\ Prepared' = Prepared \cup {queue} /\ queue \notin Prepared /\ SetUp' = {}
      BY <1>1, <1>2, <1>5 DEF Working, Prepared, SetUp, Queues
    <2>8. Allocated'
      <3> slot \in Int
        BY <1>2 DEF Slots
      <3>1. CASE queue = 0
        <4>1. pc' = "virtq_init" /\ queue' = 1 /\ slot' = slot /\ allocs' = allocs + 2
          BY <1>1, <1>5, <3>1
        <4> QED
          BY <1>2, <2>7, <3>1, <4>1 DEF Allocated
      <3>2. CASE queue = 1
        <4>1. pc' = "avail" /\ slot' = slot /\ allocs' = allocs + 2
          BY <1>1, <1>5, <3>2, Zenon
        <4> QED
          BY <1>2, <2>7, <3>2, <4>1 DEF Allocated
      <3> QED
        BY <1>2, <3>1, <3>2, Zenon DEF Queues
    <2>9. \A b : IsRing(b) => IsRing(b)' /\ mem'[b] = mem[b]
      <3>1. \A b \in 1 .. allocs : b \in Blocks /\ b # allocs + 1 /\ b # allocs + 2
        BY <1>2, InitAssumption DEF Blocks
      <3>2. \A b \in 1 .. allocs : mem'[b] = mem[b]
        BY <2>3, <3>1, Zenon
      <3>3. allocs' \in Nat /\ allocs <= allocs'
        BY <1>2, <1>5
      <3> QED
        BY <3>2, <3>3, RingsStay, Zenon
    <2>10. mem'[allocs + 1].buffers = allocs + 2
      BY <2>2, <2>3, Zenon
    <2>11. \A b : b = allocs + 1 => IsRing(b)'
      <3>1. allocs + 1 \in 1 .. allocs' /\ allocs + 2 \in 1 .. allocs'
        BY <1>2, <1>5
      <3> QED
        BY <2>2, <2>3, <2>10, <3>1, Zenon DEF IsRing
    <2>12. \A b, c : IsRing(b) /\ c = allocs + 1 => Apart(b, c)' /\ Apart(c, b)'
      <3> SUFFICES ASSUME NEW b, IsRing(b)
                   PROVE  b # allocs + 1 /\ mem'[b].buffers # mem'[allocs + 1].buffers
        BY Zenon DEF Apart
      <3>1. b \in 1 .. allocs /\ mem[b].buffers \in 1 .. allocs /\ mem'[b] = mem[b]
        BY <2>9, Zenon DEF IsRing
      <3> QED
        BY <1>2, <2>10, <3>1
    <2>13. \A b, c : IsRing(b) /\ IsRing(c) /\ Apart(b, c) => Apart(b, c)'
      BY <2>9, Zenon DEF Apart
    <2>14. \A l \in Prepared' : IF l = queue THEN net_queues'[l].ring = allocs + 1
                                ELSE l \in Prepared /\ net_queues'[l].ring = net_queues[l].ring
      BY <2>5, <2>7, Zenon DEF Prepared
    <2>15. \A l \in Prepared : l \in Queues /\ IsRing(net_queues[l].ring)
      BY Zenon DEF PreparedRings, Prepared
    <2>16. PreparedRings'
      <3>1. \A k \in Prepared' : \A b : b = net_queues'[k].ring => IsRing(b)'
        BY <2>9, <2>11, <2>14, <2>15, Zenon
      <3>2. \A k, l \in Prepared' : \A b, c :
              k # l /\ b = net_queues'[k].ring /\ c = net_queues'[l].ring => Apart(b, c)'
        BY <2>12, <2>13, <2>14, <2>15 DEF PreparedRings
      <3> QED
        BY <3>1, <3>2, Zenon DEF PreparedRings
    <2>17. ReadyRings'
      <3>1. \A i \in Slots, k \in Queues : \A b :
              Ready(i, k)' /\ b = dev'[i].q[k].ring => IsRing(b)'
        BY <1>3, <2>9, Zenon DEF ReadyRings, Ring
      <3>2. \A i, j \in Slots, k, l \in Queues : \A b, c :
              /\ Ready(i, k)' /\ Ready(j, l)' /\ <<i, k>> # <<j, l>>
              /\ b = dev'[i].q[k].ring /\ c = dev'[j].q[l].ring
              => Apart(b, c)'
        BY <1>3, <2>13 DEF ReadyRings, Ring
      <3>3. \A i \in Slots, k \in Queues, l \in Prepared' : \A b, c :
              /\ Ready(i, k)' /\ i # slot
              /\ b = dev'[i].q[k].ring /\ c = net_queues'[l].ring
              => Apart(b, c)'
        <4> SUFFICES ASSUME NEW i \in Slots, NEW k \in Queues, NEW l \in Prepared',
                            Ready(i, k), i # slot
                     PROVE  \A b, c : b = Ring(i, k) /\ c = net_queues'[l].ring => Apart(b, c)'
          BY <1>1, <1>3 DEF Ring
        <4>1. IsRing(Ring(i, k))
          BY Zenon DEF ReadyRings
        <4>2. CASE l = queue
          BY <2>12, <2>14, <4>1, <4>2, Zenon
        <4>3. CASE l # queue
          <5>1. l \in Prepared /\ net_queues'[l].ring = net_queues[l].ring
            BY <2>14, <4>3, Zenon
          <5>2. Apart(Ring(i, k), net_queues[l].ring)
            BY <5>1, Zenon DEF ReadyRings
          <5> QED
            BY <2>13, <2>15, <4>1, <5>1, <5>2, Zenon
        <4> QED
          BY <4>2, <4>3, Zenon
      <3> QED
        BY <1>5, <3>1, <3>2, <3>3, Zenon DEF ReadyRings, Ring
    <2>18. Scanned'
      <3>1. slot' = slot /\ Working
        BY <1>2, <1>5, Zenon
      <3>2. \A k \in Queues : ~ Ready(slot, k)'
        BY <1>2, <1>3, <1>4, <3>1, Zenon DEF Ready
      <3> QED
        BY <1>3, <2>7, <3>1, <3>2, Zenon DEF Scanned
    <2>19. LiveDevices'
      BY <1>1, <1>3, <1>5, Zenon DEF LiveDevices
    <2>20. Negotiated' /\ AcceptedOffered'
      <3>1. pc' \in {"virtq_init", "avail"} /\ StatusOf' = {}
        BY <1>1, <1>5, Zenon DEF StatusOf
      <3>2. dev' = dev /\ slot' = slot
        BY <1>1, <1>5, Zenon
      <3> QED
        BY <1>2, <3>1, <3>2, Zenon DEF Negotiated, AcceptedOffered
    <2> QED
      BY <2>6, <2>8, <2>16, <2>17, <2>18, <2>19, <2>20, Zenon
  <1>6. CASE /\ net_queues' \in [Queues -> [ring : BlockOrNull, buffers : BlockOrNull]]
             /\ allocs' \in {allocs, allocs + 1} /\ GiveUp /\ UNCHANGED <<mem, queue>>
    <2>1. pc' = "probe" /\ slot' = slot + 1 /\ ~ Working' /\ Prepared' = {}
      BY <1>6, Zenon DEF GiveUp, Working, Prepared
    <2>2. allocs' \in Nat /\ allocs <= allocs'
      BY <1>2, <1>6
    <2>3. Typed'
      BY <1>1, <1>2, <1>6, <2>1, <2>2, InitAssumption DEF Typed, Slots
    <2>4. Allocated'
      BY <1>2, <1>6, <2>1, <2>2, InitAssumption DEF Allocated, Slots, Queues
    <2>5. PreparedRings'
      BY <2>1, Zenon DEF PreparedRings
    <2>6. ReadyRings'
      <3>1. \A b : IsRing(b) => IsRing(b)'
        BY <1>6, <2>2, RingsStay, Zenon
      <3>2. \A b, c : Apart(b, c) => Apart(b, c)'
        BY <1>6, Zenon DEF Apart
      <3> QED
        BY <1>3, <2>1, <3>1, <3>2 DEF ReadyRings
    <2>7. Scanned'
      BY <1>2, <1>3, <2>1, InitAssumption DEF Scanned, Slots
    <2>8. LiveDevices'
      BY <1>1, <1>2, <1>3, <2>1, InitAssumption DEF LiveDevices, Slots
    <2>9. Negotiated' /\ AcceptedOffered'
      BY <1>1, <2>1, Zenon DEF Negotiated, AcceptedOffered
    <2> QED
      BY <2>3, <2>4, <2>5, <2>6, <2>7, <2>8, <2>9
  <1>7. PICK gotRing, gotBuffers \in BOOLEAN :
          LET n == allocs + (IF gotRing THEN 1 ELSE 0)
              ring == Take(allocs, gotRing)
              buffers == Take(n, gotBuffers)
          IN  /\ net_queues' = [net_queues EXCEPT ![queue] = [ring |-> ring, buffers |-> buffers]]
              /\ allocs' = n + (IF gotBuffers THEN 1 ELSE 0)
              /\ IF gotRing /\ gotBuffers
                 THEN /\ mem' = [mem EXCEPT ![ring] = RingOf(buffers),
                                            ![buffers] = Buffers]
                      /\ queue' = 1 - queue
                      /\ pc' = IF queue = 1 THEN "avail" ELSE pc
                      /\ UNCHANGED slot
                 ELSE GiveUp /\ UNCHANGED <<mem, queue>>
    BY Zenon DEF virtq_init
  <1>8. CASE gotRing /\ gotBuffers
    <2>1. allocs + 1 + 1 = allocs + 2
      BY <1>2
    <2> QED
      BY <1>5, <1>7, <1>8, <2>1, Zenon DEF Take
  <1>9. CASE ~ (gotRing /\ gotBuffers)
    <2> DEFINE n == allocs + (IF gotRing THEN 1 ELSE 0)
    <2>1. n \in {allocs, allocs + 1} /\ Take(allocs, gotRing) \in BlockOrNull /\ Take(n, gotBuffers) \in BlockOrNull
      BY <1>2, <1>9, InitAssumption DEF Take, NULL, BlockOrNull
    <2>2. allocs' \in {allocs, allocs + 1}
      BY <1>2, <1>7, <1>9
    <2>3. net_queues' = [net_queues EXCEPT ![queue] = [ring |-> Take(allocs, gotRing), buffers |-> Take(n, gotBuffers)]]
          /\ GiveUp /\ UNCHANGED <<mem, queue>>
      BY <1>7, <1>9, Zenon
    <2> HIDE DEF n
    <2>4. net_queues' \in [Queues -> [ring : BlockOrNull, buffers : BlockOrNull]]
      BY <1>2, <2>1, <2>3, Zenon DEF Typed
    <2> QED
      BY <1>6, <2>2, <2>3, <2>4, Zenon
  <1> QED
    BY <1>8, <1>9, Zenon

\* The receive buffers are made available in a ring that no device has yet.
LEMMA OfferKeeps ==
  ASSUME VInv, OfferBuffers
  PROVE  VInv'
  <1> USE DEF VInv
  <1>1. pc = "avail" /\ pc' = "ack" /\ UNCHANGED <<dev, net_queues, allocs, slot, queue, feat_low>>
    BY Zenon DEF OfferBuffers
  <1>2. PICK r : r = net_queues[0].ring
    BY Zenon
  <1>3. mem' = [mem EXCEPT ![r].avail = Size]
    BY <1>2, Zenon DEF OfferBuffers
  <1>4. Working /\ Working' /\ Prepared = Queues /\ Prepared' = Queues /\ SetUp' = SetUp
    BY <1>1, Zenon DEF Working, Prepared, SetUp
  <1>5. r \in Blocks /\ IsRing(r)
    <2>1. IsRing(r)
      BY <1>2, <1>4, Zenon DEF PreparedRings, Queues
    <2>2. allocs <= 4 * VIRTIO_SLOTS
      BY <1>1, <1>4, InitAssumption DEF Allocated, Slots, Typed
    <2> QED
      BY <2>1, <2>2, InitAssumption DEF IsRing, Blocks, Typed
  <1>6. /\ mem' \in [Blocks -> Block] /\ mem'[r].avail = Size
        /\ \A b \in Blocks : mem'[b].kind = mem[b].kind /\ mem'[b].buffers = mem[b].buffers
    <2>1. mem \in [Blocks -> Block] /\ Size \in {0, Size}
      BY Zenon DEF Typed
    <2>2. \A m \in Block : LET n == [m EXCEPT !.avail = Size]
                           IN  n \in Block /\ n.avail = Size /\ n.kind = m.kind /\ n.buffers = m.buffers
      BY <2>1, Zenon DEF Block
    <2> QED
      BY <1>3, <1>5, <2>1, <2>2, Zenon
  <1>7. Typed'
    BY <1>1, <1>6, Zenon DEF Typed
  <1>8. Allocated'
    BY <1>1, <1>4 DEF Allocated
  <1>9. \A b \in 1 .. allocs : b \in Blocks
    BY <1>1, <1>4, InitAssumption DEF Allocated, Slots, Typed, Blocks
  <1>10. \A b : IsRing(b) => IsRing(b)'
    BY <1>1, <1>6, <1>9, Zenon DEF IsRing
  <1>11. \A b, c : IsRing(b) /\ IsRing(c) /\ Apart(b, c) => Apart(b, c)'
    BY <1>6, <1>9, Zenon DEF IsRing, Apart
  <1>12. \A i \in Slots, k \in Queues : (Ready(i, k)' <=> Ready(i, k)) /\ Ring(i, k)' = Ring(i, k)
    BY <1>1, Zenon DEF Ready, Ring
  <1>13. PreparedRings'
    BY <1>1, <1>4, <1>10, <1>11, Zenon DEF PreparedRings
  <1>14. ReadyRings'
    <2>1. \A i \in Slots, k \in Queues : Ready(i, k)' => IsRing(Ring(i, k))'
      BY <1>1, <1>10, <1>12, Zenon DEF ReadyRings, Ring
    <2>2. \A i, j \in Slots, k, l \in Queues :
            Ready(i, k)' /\ Ready(j, l)' /\ <<i, k>> # <<j, l>> => Apart(Ring(i, k), Ring(j, l))'
      BY <1>1, <1>11, <1>12 DEF ReadyRings, Ring
    <2>3. \A i \in Slots, k \in Queues, l \in Prepared' :
            Ready(i, k)' /\ i # slot' => Apart(Ring(i, k), net_queues[l].ring)'
      BY <1>1, <1>4, <1>11, <1>12, Zenon DEF ReadyRings, PreparedRings, Ring
    <2> QED
      BY <2>1, <2>2, <2>3, Zenon DEF ReadyRings
  <1>15. Scanned' /\ LiveDevices'
    <2>1. Scanned'
      BY <1>1, <1>4, <1>12, Zenon DEF Scanned, Ready, Ring
    <2>2. LiveDevices'
      BY <1>1, <1>12, Zenon DEF LiveDevices
    <2> QED
      BY <2>1, <2>2, Zenon
  <1>16. Negotiated' /\ AcceptedOffered'
    <2>1. dev[slot].status = StatusOf /\ StatusOf' = StatusOf
      BY <1>1, <1>4, Zenon DEF Negotiated, StatusOf
    <2>2. mem'[net_queues'[0].ring].avail = Size
      BY <1>1, <1>2, <1>6, Zenon
    <2> QED
      BY <1>1, <2>1, <2>2, Zenon DEF Negotiated, AcceptedOffered
  <1> QED
    BY <1>7, <1>8, <1>13, <1>14, <1>15, <1>16, Zenon

\* Every step of the driver preserves the invariant.
LEMMA StepV == VInv /\ [Next]_vars => VInv'
  <1> SUFFICES ASSUME VInv, [Next]_vars PROVE VInv'
    OBVIOUS
  <1> USE DEF VInv
  <1>1. CASE SkipSlot
    BY <1>1, NextSlot, Zenon DEF SkipSlot, Typed
  <1>2. CASE NetFound
    BY <1>2, FoundKeeps, Zenon
  <1>3. CASE ScanEnds
    <2>1. ~ Working /\ ~ Working' /\ Prepared' = {} /\ Prepared = {} /\ pc = "probe" /\ pc' = "done"
      BY <1>3, Zenon DEF ScanEnds, Working, Prepared
    <2>2. UNCHANGED <<dev, net_queues, mem, allocs, slot, queue, feat_low>>
      BY <1>3, Zenon DEF ScanEnds
    <2>3. \A i \in Slots, k \in Queues : (Ready(i, k)' <=> Ready(i, k)) /\ Ring(i, k)' = Ring(i, k)
      BY <2>2, Zenon DEF Ready, Ring
    <2>4. PreparedRings' /\ ReadyRings'
      BY <2>1, <2>2, <2>3, RingsKept, Zenon
    <2>5. Typed' /\ Allocated'
      BY <2>1, <2>2, Zenon DEF Typed, Allocated
    <2>6. Scanned' /\ LiveDevices'
      BY <2>1, <2>2, <2>3, Zenon DEF Scanned, LiveDevices
    <2>7. Negotiated' /\ AcceptedOffered'
      BY <2>1, <2>2, Zenon DEF Negotiated, AcceptedOffered
    <2> QED
      BY <2>4, <2>5, <2>6, <2>7, Zenon
  <1>4. CASE virtq_init
    BY <1>4, VirtqKeeps
  <1>5. CASE Acknowledge \/ Driver
    BY <1>5, AckKeeps, Zenon
  <1>6. CASE ReadLow
    BY <1>6, LowKeeps
  <1>7. CASE ReadHigh
    BY <1>7, HighKeeps
  <1>8. CASE WriteFeatures
    BY <1>8, WriteKeeps
  <1>9. CASE FeaturesOk
    BY <1>9, FeaturesOkKeeps
  <1>10. CASE setup_queue
    BY <1>10, SetupKeeps
  <1>11. CASE DriverOk
    BY <1>11, DriverOkKeeps
  <1>12. CASE Serve
    <2>1. slot \in Slots /\ queue' \in Queues /\ Working
      BY <1>12, Zenon DEF Serve, Allocated, Working, Typed
    <2> QED
      BY <1>12, <2>1, NextSlot, Zenon DEF Serve
  <1>4a. CASE OfferBuffers
    BY <1>4a, OfferKeeps
  <1>13. CASE UNCHANGED vars
    <2> USE <1>13 DEF vars
    <2>1. Typed' /\ AcceptedOffered'
      BY Zenon DEF Typed, AcceptedOffered
    <2>2. Allocated' /\ Prepared' = Prepared /\ (Working' <=> Working) /\ SetUp' = SetUp
      BY Zenon DEF Allocated, Working, Prepared, SetUp
    <2>3. \A i \in Slots, k \in Queues : (Ready(i, k)' <=> Ready(i, k)) /\ Ring(i, k)' = Ring(i, k)
      BY Zenon DEF Ready, Ring
    <2>4. PreparedRings' /\ ReadyRings'
      BY <2>2, <2>3, RingsKept, Zenon
    <2>5. Scanned' /\ LiveDevices'
      <3>1. Scanned'
        BY <2>2, Zenon DEF Scanned, Ready, Ring
      <3>2. LiveDevices'
        BY Zenon DEF LiveDevices, Ready
      <3> QED
        BY <3>1, <3>2, Zenon
    <2>6. Negotiated'
      BY <2>2, Zenon DEF Negotiated, StatusOf
    <2> QED
      BY <2>1, <2>2, <2>4, <2>5, <2>6, Zenon
  <1> QED
    BY <1>1, <1>2, <1>3, <1>4, <1>5, <1>6, <1>7, <1>8, <1>9, <1>10, <1>11, <1>12, <1>13, <1>4a, Zenon
       DEF Next, Step, Returned

LEMMA Reachable == Spec => []VInv
  BY InitV, StepV, PTL DEF Spec

-----------------------------------------------------------------------------
(***************************************************************************)
(* What it gives                                                           *)
(***************************************************************************)
\* Memory that is handed out is only written to make the receive buffers
\* available.
LEMMA MemoryStays ==
  ASSUME VInv, Next, ~ OfferBuffers, NEW b \in 1 .. allocs
  PROVE  mem'[b] = mem[b]
  <1> USE DEF VInv
  <1>1. CASE virtq_init
    <2>1. slot \in Slots /\ queue \in Queues /\ allocs <= 4 * (slot - 1) + 2 * queue /\ allocs \in Nat
      BY <1>1, Zenon DEF virtq_init, Allocated, Working, Typed
    <2>2. b \in Blocks /\ b # allocs + 1 /\ b # allocs + 2
      BY <2>1, InitAssumption DEF Slots, Queues, Blocks
    <2>3. mem' = mem \/ mem' = [mem EXCEPT ![allocs + 1] = RingOf(allocs + 1 + 1),
                                           ![allocs + 1 + 1] = Buffers]
      BY <1>1, Zenon DEF virtq_init, Take
    <2>4. allocs + 1 + 1 = allocs + 2
      BY <2>1
    <2> QED
      BY <2>2, <2>3, <2>4, Zenon DEF Typed
  <1>2. CASE Next /\ ~ virtq_init
    BY <1>2, Zenon DEF Next, Step, SkipSlot, NetFound, ScanEnds, Acknowledge, Driver, ReadLow, ReadHigh,
                WriteFeatures, FeaturesOk, setup_queue, DriverOk, Serve, Returned, vars
  <1> QED
    BY <1>1, <1>2, Zenon

\* No step touches the registers of a live device, nor its rings and buffers.
LEMMA LiveStays ==
  ASSUME VInv, Next, NEW i \in Slots, "DRIVER_OK" \in dev[i].status
  PROVE  /\ dev'[i] = dev[i]
         /\ \A k \in Queues : LET b == dev[i].q[k].ring
                              IN  mem'[b] = mem[b] /\ mem'[mem[b].buffers] = mem[mem[b].buffers]
  <1> USE DEF VInv
  <1>1. i # slot \/ pc = "serve"
    BY InitAssumption DEF LiveDevices, Slots, Typed
  <1>2. dev'[i] = dev[i]
    <2>1. CASE Step
      <3>1. i # slot
        BY <1>1, <2>1, Zenon DEF Step, SkipSlot, NetFound, ScanEnds, virtq_init, Acknowledge, Driver,
                          OfferBuffers, ReadLow, ReadHigh, WriteFeatures, FeaturesOk, setup_queue,
                          DriverOk
      <3>2. CASE NetFound \/ ReadLow \/ ReadHigh
        BY <3>1, <3>2, Zenon DEF NetFound, ReadLow, ReadHigh, Typed
      <3>3. CASE Acknowledge \/ Driver \/ WriteFeatures \/ FeaturesOk \/ setup_queue \/ DriverOk
        BY <3>1, <3>3, Zenon DEF Acknowledge, Driver, WriteFeatures, FeaturesOk, setup_queue, DriverOk, Typed
      <3>4. CASE SkipSlot \/ ScanEnds \/ virtq_init \/ OfferBuffers
        BY <3>4, Zenon DEF SkipSlot, ScanEnds, virtq_init, OfferBuffers
      <3> QED
        BY <2>1, <3>2, <3>3, <3>4, Zenon DEF Step
    <2>2. CASE Serve \/ Returned
      BY <2>2, Zenon DEF Serve, Returned, vars
    <2> QED
      BY <2>1, <2>2, Zenon DEF Next
  <1>3. \A k \in Queues : IsRing(dev[i].q[k].ring)
    BY Zenon DEF LiveDevices, ReadyRings, Ring
  <1>4. CASE ~ OfferBuffers
    BY <1>2, <1>3, <1>4, MemoryStays, Zenon DEF IsRing
  <1>5. CASE OfferBuffers
    <2>1. PICK r : r = net_queues[0].ring
      BY Zenon
    <2>2. pc = "avail" /\ i # slot /\ mem' = [mem EXCEPT ![r].avail = Size]
      BY <1>1, <1>5, <2>1, Zenon DEF OfferBuffers
    <2>3. 0 \in Prepared /\ IsRing(r)
      BY <2>1, <2>2, Zenon DEF PreparedRings, Prepared, Working, Queues
    <2>4. \A k \in Queues : dev[i].q[k].ring # r
      BY <2>1, <2>2, <2>3, Zenon DEF LiveDevices, ReadyRings, Apart, Ring
    <2>5. \A k \in Queues : mem[dev[i].q[k].ring].buffers # r
      BY <1>3, <2>3 DEF IsRing
    <2>6. \A b \in 1 .. allocs : b # r => mem'[b] = mem[b]
      <3>1. \A b \in 1 .. allocs : b \in Blocks
        BY <2>2, InitAssumption DEF Allocated, Working, Slots, Typed, Blocks
      <3> QED
        BY <2>2, <3>1, Zenon DEF Typed
    <2> QED
      BY <1>2, <1>3, <2>4, <2>5, <2>6, Zenon DEF IsRing
  <1> QED
    BY <1>4, <1>5, Zenon

\* What the three properties say follows from the rings, the status and the
\* features of the invariant.
LEMMA VConsequences == VInv => AcceptedOffered /\ OwnRings /\ ServesLiveDevice
  <1> SUFFICES ASSUME VInv PROVE AcceptedOffered /\ OwnRings /\ ServesLiveDevice
    OBVIOUS
  <1> USE DEF VInv
  <1>1. OwnRings
    <2>1. \A p \in ReadyQueues : /\ p[1] \in Slots /\ p[2] \in Queues /\ Ready(p[1], p[2])
                                 /\ RingAt(p) = Ring(p[1], p[2]) /\ p = <<p[1], p[2]>>
      BY DEF ReadyQueues, RingAt, Ready, Ring
    <2>2. ASSUME NEW p \in ReadyQueues
          PROVE  LET r == mem[RingAt(p)]
                 IN  /\ RingAt(p) # NULL /\ r.kind = "ring"
                     /\ r.buffers # NULL /\ mem[r.buffers].kind = "buffers"
      <3>1. IsRing(RingAt(p))
        BY <2>1, Zenon DEF ReadyRings
      <3>2. \A n \in 1 .. allocs : n # NULL
        BY DEF NULL
      <3> QED
        BY <3>1, <3>2, Zenon DEF IsRing
    <2>3. ASSUME NEW p \in ReadyQueues, NEW o \in ReadyQueues \ {p}
          PROVE  RingAt(o) # RingAt(p) /\ mem[RingAt(o)].buffers # mem[RingAt(p)].buffers
      <3>1. <<o[1], o[2]>> # <<p[1], p[2]>>
        BY <2>1, Zenon
      <3>2. Apart(Ring(o[1], o[2]), Ring(p[1], p[2]))
        BY <2>1, <3>1, Zenon DEF ReadyRings
      <3> QED
        BY <2>1, <3>2, Zenon DEF Apart
    <2> QED
      BY <2>2, <2>3, Zenon DEF OwnRings
  <1>2. ServesLiveDevice
    <2> SUFFICES ASSUME pc = "serve"
                 PROVE  /\ dev[slot].status = {"ACKNOWLEDGE", "DRIVER", "FEATURES_OK", "DRIVER_OK"}
                        /\ \A k \in Queues : /\ dev[slot].q[k].ready
                                             /\ dev[slot].q[k].ring = net_queues[k].ring
                        /\ mem[net_queues[0].ring].avail = Size
      BY Zenon DEF ServesLiveDevice
    <2>1. Working /\ Prepared = Queues /\ SetUp = Queues /\ StatusOf = Status
      BY Zenon DEF Working, Prepared, SetUp, StatusOf
    <2>2. dev[slot].status = {"ACKNOWLEDGE", "DRIVER", "FEATURES_OK", "DRIVER_OK"}
      BY <2>1, Zenon DEF Negotiated, Status
    <2>3. \A k \in Queues : dev[slot].q[k].ready /\ dev[slot].q[k].ring = net_queues[k].ring
      BY <2>1, Zenon DEF Scanned, Ready, Ring
    <2>4. mem[net_queues[0].ring].avail = Size
      BY Zenon DEF Negotiated
    <2> QED
      BY <2>2, <2>3, <2>4, Zenon
  <1> QED
    BY <1>1, <1>2, Zenon

-----------------------------------------------------------------------------
(***************************************************************************)
(* For every number of slots and every size of a queue, the driver accepts *)
(* only features that the device offers in the same word, and always       *)
(* VERSION_1, of every device that reached FEATURES_OK                     *)
(* (virt_mmio_negotiation).                                                *)
(***************************************************************************)
THEOREM FeaturesAccepted == Spec => []AcceptedOffered
  BY Reachable, VConsequences, PTL

(***************************************************************************)
(* Every ready queue of every device has a finished ring and buffers of    *)
(* its own, whatever allocations, refusals and failures came before        *)
(* (virt_mmio_net_virtq_init, virt_mmio_setup_queue).                      *)
(***************************************************************************)
THEOREM RingsAreOwn == Spec => []OwnRings
  BY Reachable, VConsequences, PTL

(***************************************************************************)
(* The device that is read and polled is live and works on the very queues *)
(* of net_queues, with every receive buffer available                      *)
(* (virt_find_all_devices, after virt_mmio_negotiation).                   *)
(***************************************************************************)
THEOREM ServedDeviceIsLive == Spec => []ServesLiveDevice
  BY Reachable, VConsequences, PTL

(***************************************************************************)
(* The initialisation of a later device never touches the registers, the   *)
(* rings or the buffers of a live one (virt_mmio_net_virtq_init and        *)
(* virt_mmio_negotiation work on one slot and on new memory).              *)
(***************************************************************************)
THEOREM LiveDevicesUndisturbed == Spec => LiveUndisturbed
  <1>1. VInv /\ [Next]_vars =>
          [\A i \in Slots : "DRIVER_OK" \in dev[i].status =>
             /\ dev'[i] = dev[i]
             /\ \A k \in Queues : LET b == dev[i].q[k].ring
                                  IN  mem'[b] = mem[b] /\ mem'[mem[b].buffers] = mem[mem[b].buffers]]_vars
    BY LiveStays, Zenon
  <1> QED
    BY <1>1, Reachable, PTL DEF Spec, LiveUndisturbed
=============================================================================

----------------------------- MODULE VirtioInit -----------------------------
(***************************************************************************)
(* The scan for virtio devices and the initialisation of each network      *)
(* device (src/driver/virt_mmio.c): virt_find_all_devices,                 *)
(* virt_mmio_net_virtq_init, virt_mmio_negotiation, virt_mmio_setup_queue. *)
(* Every network device is initialised with the same net_queues, so an     *)
(* initialisation, also one that fails half way, runs beside devices that  *)
(* are already live.  A register word is the set of its bits.              *)
(***************************************************************************)
EXTENDS Integers, FiniteSets

CONSTANTS
  VIRTIO_SLOTS,
  Size          \* DESC_QUEUE_SIZE

ASSUME InitAssumption == VIRTIO_SLOTS \in Nat /\ Size \in Nat \ {0}

Slots == 1 .. VIRTIO_SLOTS
Queues == {0, 1}            \* VIRTIO_NET_RX_QUEUE, VIRTIO_NET_TX_QUEUE
NULL == 0
Blocks == 1 .. (4 * VIRTIO_SLOTS)   \* memory blocks: each device may take four
VERSION_1 == 0              \* bit of the high word
NET_F_MAC == 15             \* bit of the low word

VARIABLES
  dev,          \* the registers of the device in each slot
  net_queues,   \* ring and buffers of each queue; NULL or blocks
  mem,          \* mem[b]: what the driver made of block b
  allocs,       \* blocks that mem_alloc has given out
  slot, pc,     \* where virt_find_all_devices is
  queue,        \* loop variable of virtq_init and of negotiation
  feat_low

vars == <<dev, net_queues, mem, allocs, slot, pc, queue, feat_low>>

NoQueue == [ring |-> NULL, num |-> 0, ready |-> FALSE]
Raw == [kind |-> "raw", buffers |-> NULL, avail |-> 0]
Buffers == [Raw EXCEPT !.kind = "buffers"]

Init ==
  /\ dev \in [Slots -> [net : BOOLEAN,
                        offered : [{0, 1} -> SUBSET {VERSION_1, NET_F_MAC}],
                        max : [Queues -> {Size - 1, Size}],
                        sel : {0}, status : {{}},
                        accepted : {[w \in {0, 1} |-> {}]},
                        q : {[k \in Queues |-> NoQueue]}]]
  /\ \A i \in Slots : ~ dev[i].net =>    \* nothing else of it is read
       /\ dev[i].offered = [w \in {0, 1} |-> {}]
       /\ dev[i].max = [k \in Queues |-> Size]
  /\ net_queues = [k \in Queues |-> [ring |-> NULL, buffers |-> NULL]]
  /\ mem = [b \in Blocks |-> Raw]
  /\ allocs = 0
  /\ slot = 1 /\ pc = "probe" /\ queue = 0 /\ feat_low = {}

-----------------------------------------------------------------------------
\* virt_print_device_info: it leaves the high word selected.
virt_print_device_info(d) == [d EXCEPT !.sel = 1]

\* Status 0 resets the device.
Reset(d) == [d EXCEPT !.status = {}, !.accepted = [w \in {0, 1} |-> {}],
                      !.q = [k \in Queues |-> NoQueue]]

(***************************************************************************)
(* virt_find_all_devices: the next slot, without a network device or with  *)
(* one; after the last slot it returns.                                    *)
(***************************************************************************)
SkipSlot ==
  /\ pc = "probe" /\ slot \in Slots
  /\ ~ dev[slot].net
  /\ slot' = slot + 1
  /\ UNCHANGED <<dev, net_queues, mem, allocs, pc, queue, feat_low>>

NetFound ==
  /\ pc = "probe" /\ slot \in Slots
  /\ dev[slot].net
  /\ dev' = [dev EXCEPT ![slot] = Reset(virt_print_device_info(dev[slot]))]
  /\ pc' = "virtq_init" /\ queue' = 0
  /\ UNCHANGED <<net_queues, mem, allocs, slot, feat_low>>

ScanEnds ==
  /\ pc = "probe" /\ slot \notin Slots
  /\ pc' = "done"
  /\ UNCHANGED <<dev, net_queues, mem, allocs, slot, queue, feat_low>>

\* "Virtio network initialization failed.": on to the next slot.
GiveUp == pc' = "probe" /\ slot' = slot + 1

-----------------------------------------------------------------------------
\* A descriptor table over the buffers, with nothing available yet.
RingOf(buffers) == [kind |-> "ring", buffers |-> buffers, avail |-> 0]

\* The next block, if it was asked for and there is one.
Take(n, ok) == IF ok THEN n + 1 ELSE NULL

\* A faulty variant: memory that the queue already has is used again.
virtq_init_Reuse ==
  /\ pc = "virtq_init"
  /\ LET ring == IF net_queues[queue].ring # NULL THEN net_queues[queue].ring
                 ELSE allocs + 1
         buffers == allocs + 2
     IN  /\ net_queues' = [net_queues EXCEPT ![queue] = [ring |-> ring, buffers |-> buffers]]
         /\ allocs' = allocs + 2
         /\ mem' = [mem EXCEPT ![ring] = RingOf(buffers), ![buffers] = Buffers]
         /\ queue' = 1 - queue
         /\ pc' = IF queue = 1 THEN "avail" ELSE pc
         /\ UNCHANGED slot
  /\ UNCHANGED <<dev, feat_low>>

(***************************************************************************)
(* One iteration of virt_mmio_net_virtq_init.  Either allocation may fail; *)
(* the queue then keeps what was stored, and nothing is freed.             *)
(***************************************************************************)
virtq_init ==
  /\ pc = "virtq_init"
  /\ \E gotRing, gotBuffers \in BOOLEAN :
       LET n == allocs + (IF gotRing THEN 1 ELSE 0)
           ring == Take(allocs, gotRing)
           buffers == Take(n, gotBuffers)
       IN  /\ net_queues' = [net_queues EXCEPT ![queue] = [ring |-> ring, buffers |-> buffers]]
           /\ allocs' = n + (IF gotBuffers THEN 1 ELSE 0)
           /\ IF gotRing /\ gotBuffers
              THEN /\ mem' = [mem EXCEPT ![ring] = RingOf(buffers),
                                         ![buffers] = Buffers]
                   /\ queue' = 1 - queue
                   /\ pc' = IF queue = 1 THEN "avail" ELSE pc
                   /\ UNCHANGED slot
              ELSE GiveUp /\ UNCHANGED <<mem, queue>>
  /\ UNCHANGED <<dev, feat_low>>

\* After both queues: every buffer of the receive queue is made available.
OfferBuffers ==
  /\ pc = "avail"
  /\ mem' = [mem EXCEPT ![net_queues[0].ring].avail = Size]
  /\ pc' = "ack"
  /\ UNCHANGED <<dev, net_queues, allocs, slot, queue, feat_low>>

-----------------------------------------------------------------------------
(***************************************************************************)
(* virt_mmio_negotiation                                                   *)
(***************************************************************************)
Acknowledge ==
  /\ pc = "ack"
  /\ dev' = [dev EXCEPT ![slot].status = {"ACKNOWLEDGE"}]
  /\ pc' = "driver"
  /\ UNCHANGED <<net_queues, mem, allocs, slot, queue, feat_low>>

Driver ==
  /\ pc = "driver"
  /\ dev' = [dev EXCEPT ![slot].status = {"ACKNOWLEDGE", "DRIVER"}]
  /\ pc' = "low"
  /\ UNCHANGED <<net_queues, mem, allocs, slot, queue, feat_low>>

\* A read of DEVICE_FEATURES gives the selected word.
Features(d) == d.offered[d.sel]

\* A faulty variant: word 0 is not selected.
ReadLow_NoSel ==
  /\ pc = "low"
  /\ feat_low' = Features(dev[slot]) \cap {NET_F_MAC}
  /\ pc' = "high"
  /\ UNCHANGED <<dev, net_queues, mem, allocs, slot, queue>>

ReadLow ==
  /\ pc = "low"
  /\ LET d == [dev[slot] EXCEPT !.sel = 0]
     IN  /\ dev' = [dev EXCEPT ![slot] = d]
         /\ feat_low' = Features(d) \cap {NET_F_MAC}
  /\ pc' = "high"
  /\ UNCHANGED <<net_queues, mem, allocs, slot, queue>>

ReadHigh ==
  /\ pc = "high"
  /\ LET d == [dev[slot] EXCEPT !.sel = 1]
     IN  /\ dev' = [dev EXCEPT ![slot] = d]
         /\ IF VERSION_1 \in Features(d)
            THEN pc' = "features" /\ UNCHANGED slot
            ELSE GiveUp
  /\ UNCHANGED <<net_queues, mem, allocs, queue, feat_low>>

WriteFeatures ==
  /\ pc = "features"
  /\ dev' = [dev EXCEPT ![slot].accepted = [w \in {0, 1} |-> IF w = 0 THEN feat_low
                                                            ELSE {VERSION_1}]]
  /\ pc' = "features_ok"
  /\ UNCHANGED <<net_queues, mem, allocs, slot, queue, feat_low>>

\* A faulty variant: what the device refused is offered again.
FeaturesOk_Retry ==
  /\ pc = "features_ok"
  /\ \/ /\ dev' = [dev EXCEPT ![slot].status = @ \cup {"FEATURES_OK"}]
        /\ pc' = "setup" /\ queue' = 0
     \/ pc' = "features" /\ UNCHANGED <<dev, queue>>
  /\ UNCHANGED <<net_queues, mem, allocs, slot, feat_low>>

\* The device may refuse: it then does not keep FEATURES_OK.
FeaturesOk ==
  /\ pc = "features_ok"
  /\ \/ /\ dev' = [dev EXCEPT ![slot].status = @ \cup {"FEATURES_OK"}]
        /\ pc' = "setup" /\ queue' = 0
        /\ UNCHANGED slot
     \/ GiveUp /\ UNCHANGED <<dev, queue>>
  /\ UNCHANGED <<net_queues, mem, allocs, feat_low>>

\* A faulty variant: both queues are given the ring of the first.
setup_queue_SameRing ==
  /\ pc = "setup"
  /\ dev' = [dev EXCEPT ![slot].q[queue] =
                 [ring |-> net_queues[0].ring, num |-> Size, ready |-> TRUE]]
  /\ queue' = 1 - queue
  /\ pc' = IF queue = 1 THEN "driver_ok" ELSE pc
  /\ UNCHANGED <<net_queues, mem, allocs, slot, feat_low>>

\* A faulty variant: a queue that is too small is left out.
setup_queue_Ignore ==
  /\ pc = "setup"
  /\ dev' = IF dev[slot].max[queue] < Size THEN dev
            ELSE [dev EXCEPT ![slot].q[queue] =
                   [ring |-> net_queues[queue].ring, num |-> Size, ready |-> TRUE]]
  /\ queue' = 1 - queue
  /\ pc' = IF queue = 1 THEN "driver_ok" ELSE pc
  /\ UNCHANGED <<net_queues, mem, allocs, slot, feat_low>>

(***************************************************************************)
(* virt_mmio_setup_queue, for each queue in turn: the device must have     *)
(* room for it; it is made ready after its addresses are written.          *)
(***************************************************************************)
setup_queue ==
  /\ pc = "setup"
  /\ IF dev[slot].max[queue] < Size
     THEN GiveUp /\ UNCHANGED <<dev, queue>>
     ELSE /\ dev' = [dev EXCEPT ![slot].q[queue] =
                       [ring |-> net_queues[queue].ring, num |-> Size, ready |-> TRUE]]
          /\ queue' = 1 - queue
          /\ pc' = IF queue = 1 THEN "driver_ok" ELSE pc
          /\ UNCHANGED slot
  /\ UNCHANGED <<net_queues, mem, allocs, feat_low>>

DriverOk ==
  /\ pc = "driver_ok"
  /\ dev' = [dev EXCEPT ![slot].status = @ \cup {"DRIVER_OK"}]
  /\ pc' = "serve"
  /\ UNCHANGED <<net_queues, mem, allocs, slot, queue, feat_low>>

\* virt_mmio_net_get_mac_address reads the configuration space and
\* virt_mmio_net_poll_rx polls once (NetRx has its steps).
Serve ==
  /\ pc = "serve"
  /\ pc' = "probe" /\ slot' = slot + 1
  /\ UNCHANGED <<dev, net_queues, mem, allocs, queue, feat_low>>

Returned == pc = "done" /\ UNCHANGED vars

-----------------------------------------------------------------------------
Step ==
  \/ SkipSlot \/ NetFound \/ ScanEnds \/ virtq_init \/ OfferBuffers
  \/ Acknowledge \/ Driver \/ ReadLow \/ ReadHigh \/ WriteFeatures \/ FeaturesOk
  \/ setup_queue \/ DriverOk

Next == Step \/ Serve \/ Returned

Spec == Init /\ [][Next]_vars

\* The hart keeps executing; but nothing obliges a frame to arrive, without
\* which the poll of Serve does not return.
FairSpec == Spec /\ WF_vars(Step)

-----------------------------------------------------------------------------
(***************************************************************************)
(* The driver only accepts what the device offers, in the word in which it *)
(* is offered (virt_mmio_negotiation), although virt_print_device_info has *)
(* left the other word selected; and it never goes on without VERSION_1.   *)
(***************************************************************************)
AcceptedOffered ==
  \A i \in Slots : "FEATURES_OK" \in dev[i].status =>
    /\ \A w \in {0, 1} : dev[i].accepted[w] \subseteq dev[i].offered[w]
    /\ VERSION_1 \in dev[i].accepted[1]

ReadyQueues == {p \in Slots \X Queues : dev[p[1]].q[p[2]].ready}
RingAt(p) == dev[p[1]].q[p[2]].ring

(***************************************************************************)
(* A queue that is ready has an initialised ring over initialised buffers, *)
(* and no other ready queue of any device shares the ring or the buffers:  *)
(* also not the queues that an initialisation left ready when it failed at *)
(* the next one (virt_mmio_net_virtq_init, virt_mmio_setup_queue).         *)
(***************************************************************************)
OwnRings ==
  \A p \in ReadyQueues :
    /\ RingAt(p) # NULL
    /\ LET r == mem[RingAt(p)]
       IN  /\ r.kind = "ring"
           /\ r.buffers # NULL /\ mem[r.buffers].kind = "buffers"
           /\ \A o \in ReadyQueues \ {p} : RingAt(o) # RingAt(p) /\ mem[RingAt(o)].buffers # r.buffers

(***************************************************************************)
(* "should only trust the values in the config space after we have set the *)
(* DRIVER_OK (4) bit" (src/driver/virt_mmio.c:165): the configuration is   *)
(* read, and the queue polled, only of a device that is live and works on  *)
(* the very queues of net_queues, with every receive buffer available.     *)
(***************************************************************************)
ServesLiveDevice ==
  pc = "serve" =>
    /\ dev[slot].status = {"ACKNOWLEDGE", "DRIVER", "FEATURES_OK", "DRIVER_OK"}
    /\ \A k \in Queues : /\ dev[slot].q[k].ready
                         /\ dev[slot].q[k].ring = net_queues[k].ring
    /\ mem[net_queues[0].ring].avail = Size

(***************************************************************************)
(* The initialisation of a later device, finished or failed, does not      *)
(* touch the registers of a device that is live, nor the memory it works   *)
(* on (virt_mmio_net_virtq_init takes new memory for the same net_queues). *)
(***************************************************************************)
LiveUndisturbed ==
  [][\A i \in Slots : "DRIVER_OK" \in dev[i].status =>
       /\ dev'[i] = dev[i]
       /\ \A k \in Queues : LET b == dev[i].q[k].ring
                            IN  mem'[b] = mem[b] /\ mem'[mem[b].buffers] = mem[mem[b].buffers]]_vars

(***************************************************************************)
(* The scan comes to an end, or stays in the poll of a live device that    *)
(* waits for its first frame: no refusal and no failed allocation keeps    *)
(* main from the scheduler (virt_find_all_devices).                        *)
(***************************************************************************)
ScanReturns == <>[](pc \in {"done", "serve"})
=============================================================================

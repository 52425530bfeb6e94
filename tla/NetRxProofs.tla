---------------------------- MODULE NetRxProofs ----------------------------
(***************************************************************************)
(* Proofs about NetRx: for every size of the queue, every width of the     *)
(* indices that is a multiple of it and every length of frames, in every   *)
(* interleaving with the device, the driver parses the frames in the order *)
(* of their arrival, each in a buffer that is its own, and the rings are   *)
(* never overrun.                                                          *)
(*                                                                         *)
(* The argument looks at the two rings through their windows: Av(0), ...,  *)
(* Av(NAv - 1) are the descriptors on offer in the order in which the      *)
(* device will take them, Us(0), ..., Us(NUs - 1) the elements returned    *)
(* and not looked at, in the order in which the driver will load them.     *)
(* The first part shows what each step does to the windows, and is the     *)
(* only one that meets the wrapping of the indices.  The second is the     *)
(* inductive invariant RxInv: the queue has Size places, no two of which   *)
(* hold the same descriptor (Counted, Distinct), and the elements of the   *)
(* used window carry consecutive frames up to the first bad entry          *)
(* (Numbered).                                                             *)
(***************************************************************************)
EXTENDS NetRx, FiniteSetTheorems, TLAPS

Index == 0 .. IndexMod - 1
Dist(a, b) == (b - a) % IndexMod
Step(a, k) == (a + k) % IndexMod
Slot(a, k) == Step(a, k) % Size

Published == Dist(FirstReturned, used_idx)
Unpublished == IF dev_pc = "filled" THEN 1 ELSE 0
InHand == IF pc \in {"check", "process", "recycle", "offer"} THEN 1 ELSE 0

NAv == Dist(dev_idx, avail_idx)
Av(k) == avail_ring[Slot(dev_idx, k)]
NUs == Published + Unpublished
Us(k) == used_ring[Slot(FirstReturned, k)]

Elem == [id : 0 .. Size, len : Nat]

Typed ==
  /\ avail_ring \in [Descs -> Descs] /\ avail_idx \in Index
  /\ used_ring \in [Descs -> Elem] /\ used_idx \in Index
  /\ buf \in [Descs -> [num : Index, len : Nat]]
  /\ last_used_idx \in Index /\ dev_idx \in Index
  /\ pc \in {"idle", "poll", "elem", "check", "process", "recycle", "offer", "advance"}
  /\ elem \in Elem /\ frame_len \in Nat
  /\ taken \subseteq Descs /\ dev_pc \in {"idle", "filled"}
  /\ arrived \in Index /\ done \in Index

\* The queue has Size places: each is on offer, with the device, returned,
\* or in the driver's hands.
Counted == NAv + Cardinality(taken) + NUs + InHand = Size

\* No descriptor has two places.
Distinct ==
  /\ \A i, j \in 0 .. NAv - 1 : Av(i) = Av(j) => i = j
  /\ \A i, j \in 0 .. NUs - 1 : Us(i).id = Us(j).id /\ Us(i).id < Size => i = j
  /\ \A i \in 0 .. NAv - 1 : Av(i) \notin taken
  /\ \A i \in 0 .. NUs - 1 : Us(i).id \notin taken
  /\ \A i \in 0 .. NAv - 1, j \in 0 .. NUs - 1 : Av(i) # Us(j).id
  /\ DriverHas =>
       /\ \A i \in 0 .. NAv - 1 : Av(i) # elem.id
       /\ \A i \in 0 .. NUs - 1 : Us(i).id # elem.id
       /\ elem.id \notin taken

\* What the driver knows at each line of the poll.
Local ==
  /\ pc = "elem" => last_used_idx # used_idx
  /\ pc = "check" => elem = used_ring[last_used_idx % Size]
  /\ pc \in {"process", "recycle", "offer"} => elem.id < Size
  /\ pc = "offer" => avail_ring[avail_idx % Size] = elem.id

\* An element tells the length of the frame in its buffer, with the header
\* or without it.
Lengths ==
  \A i \in 0 .. NUs - 1 : Us(i).id < Size => Us(i).len \in Reported(buf[Us(i).id].len)

ElemLength ==
  pc \in {"check", "process"} /\ elem.id < Size => elem.len \in Reported(buf[elem.id].len)

\* The elements before the i-th, the one in hand included, are good.
Clean(i) ==
  /\ pc = "check" => elem.id < Size
  /\ \A j \in 0 .. i - 1 : Us(j).id < Size

\* The number of the frame the first element of the window should carry.
Base == IF pc \in {"check", "process"} THEN Inc(done) ELSE done

Numbered ==
  /\ \A i \in 0 .. NUs - 1 : Clean(i + 1) => buf[Us(i).id].num = Step(Base, i)
  /\ Clean(NUs) => arrived = Step(Base, NUs)

RxInv ==
  /\ Typed /\ Counted /\ Distinct /\ Local
  /\ Lengths /\ ElemLength /\ Numbered
  /\ FramesInOrder /\ FrameLenExact

-----------------------------------------------------------------------------
(***************************************************************************)
(* The indices: 16-bit counters in the code, counters modulo IndexMod here *)
(***************************************************************************)
\* The sizes, without the divisibility that only the slots need.
LEMMA Sizes ==
  /\ Size \in Nat \ {0} /\ IndexMod \in Nat \ {0} /\ IndexMod > Size + 1
  BY RxAssumption

\* The remainder of a division by a modulus m, as in idx % rx->size.
LEMMA Remainder ==
  ASSUME NEW m \in Nat \ {0}, NEW x \in Int
  PROVE  x % m \in 0 .. m - 1
  OBVIOUS

\* A number is a multiple of the modulus and its remainder.
LEMMA Quotient ==
  ASSUME NEW m \in Nat \ {0}, NEW x \in Nat
  PROVE  \E q \in Int : x = (m * q) + (x % m)
  <1>1. x = (m * (x \div m)) + (x % m) /\ (x \div m) \in Int
    OBVIOUS
  <1> QED
    BY <1>1, Zenon

\* A counter that has wrapped once (the 16-bit avail.idx++).
LEMMA OneWrap ==
  ASSUME NEW m \in Nat \ {0}, NEW x \in m .. 2 * m - 1
  PROVE  x % m = x - m
  OBVIOUS

\* rx->last_used_idx++ and its like give an index again, the next one.
LEMMA IncIndex ==
  ASSUME NEW a \in Index
  PROVE  Inc(a) \in Index /\ Inc(a) = IF a = IndexMod - 1 THEN 0 ELSE a + 1
  BY Sizes DEF Index, Inc

\* The distance from one index to another, with and without a wrap between.
LEMMA DistIs ==
  ASSUME NEW a \in Index, NEW b \in Index
  PROVE  Dist(a, b) = IF a <= b THEN b - a ELSE b - a + IndexMod
  <1>1. CASE a <= b
    <2>1. b - a \in 0 .. IndexMod - 1
      BY <1>1, Sizes DEF Index
    <2> QED
      BY <1>1, <2>1, Sizes DEF Dist
  <1>2. CASE ~ (a <= b)
    <2>1. b - a \in Int /\ -IndexMod <= b - a /\ b - a < 0
      BY <1>2, Sizes DEF Index
    <2>2. (b - a) % IndexMod = b - a + IndexMod
      BY <2>1, Sizes
    <2> QED
      BY <1>2, <2>2, Zenon DEF Dist
  <1> QED
    BY <1>1, <1>2, Zenon

\* What counting up either end of a window does to its length: the tests
\* last_used_idx != used.idx see an index that wraps as one that does not.
LEMMA DistFacts ==
  ASSUME NEW a \in Index, NEW b \in Index
  PROVE  /\ Dist(a, b) \in 0 .. IndexMod - 1
         /\ Dist(a, b) = 0 <=> a = b
         /\ Dist(a, b) < IndexMod - 1 => Dist(a, Inc(b)) = Dist(a, b) + 1
         /\ Dist(a, b) > 0 => Dist(Inc(a), b) = Dist(a, b) - 1
         /\ Dist(Inc(a), b) < IndexMod - 1 => Dist(a, b) = Dist(Inc(a), b) + 1
  <1>1. Inc(a) \in Index /\ Inc(a) = IF a = IndexMod - 1 THEN 0 ELSE a + 1
    BY IncIndex, Zenon
  <1>2. Inc(b) \in Index /\ Inc(b) = IF b = IndexMod - 1 THEN 0 ELSE b + 1
    BY IncIndex, Zenon
  <1>3. Dist(a, b) = IF a <= b THEN b - a ELSE b - a + IndexMod
    BY DistIs, Zenon
  <1>4. Dist(a, Inc(b)) = IF a <= Inc(b) THEN Inc(b) - a ELSE Inc(b) - a + IndexMod
    BY <1>2, DistIs, Zenon
  <1>5. Dist(Inc(a), b) = IF Inc(a) <= b THEN b - Inc(a) ELSE b - Inc(a) + IndexMod
    BY <1>1, DistIs, Zenon
  <1> QED
    BY <1>1, <1>2, <1>3, <1>4, <1>5, Sizes DEF Index

\* The k-th index from an index on.
LEMMA StepFrom ==
  ASSUME NEW a \in Index, NEW k \in 0 .. IndexMod - 1
  PROVE  /\ Step(a, k) = IF a + k < IndexMod THEN a + k ELSE a + k - IndexMod
         /\ Step(a, k) \in Index
  <1>1. CASE a + k < IndexMod
    BY <1>1, Sizes DEF Index, Step
  <1>2. CASE ~ (a + k < IndexMod)
    <2>1. PICK x \in IndexMod .. 2 * IndexMod - 1 : x = a + k
      BY <1>2, Sizes DEF Index
    <2>2. x % IndexMod = x - IndexMod
      BY Sizes, OneWrap, Zenon
    <2>3. Step(a, k) = a + k - IndexMod
      BY <2>1, <2>2, Sizes DEF Step, Index
    <2> QED
      BY <1>2, <2>1, <2>3, Sizes DEF Index
  <1> QED
    BY <1>1, <1>2, Zenon

\* The k-th index after the next one is the one after the k-th.
LEMMA StepNext ==
  ASSUME NEW a \in Index, NEW k \in 0 .. IndexMod - 2
  PROVE  Step(Inc(a), k) = Step(a, k + 1)
  <1>1. k \in 0 .. IndexMod - 1 /\ k + 1 \in 0 .. IndexMod - 1 /\ Inc(a) \in Index
    BY IncIndex, Sizes
  <1>2. Inc(a) = IF a = IndexMod - 1 THEN 0 ELSE a + 1
    BY IncIndex, Zenon
  <1>3. Step(Inc(a), k) = IF Inc(a) + k < IndexMod THEN Inc(a) + k ELSE Inc(a) + k - IndexMod
    BY <1>1, StepFrom, Zenon
  <1>4. Step(a, k + 1) = IF a + (k + 1) < IndexMod THEN a + (k + 1) ELSE a + (k + 1) - IndexMod
    BY <1>1, StepFrom, Zenon
  <1> QED
    BY <1>1, <1>2, <1>3, <1>4, Sizes DEF Index

\* ... and the next of the k-th is the (k + 1)-st.
LEMMA StepInc ==
  ASSUME NEW a \in Index, NEW k \in 0 .. IndexMod - 2
  PROVE  Inc(Step(a, k)) = Step(a, k + 1)
  <1>1. k \in 0 .. IndexMod - 1 /\ k + 1 \in 0 .. IndexMod - 1
    BY Sizes
  <1>2. Step(a, k) \in Index /\ Step(a, k) = IF a + k < IndexMod THEN a + k ELSE a + k - IndexMod
    BY <1>1, StepFrom, Zenon
  <1>3. Step(a, k + 1) = IF a + (k + 1) < IndexMod THEN a + (k + 1) ELSE a + (k + 1) - IndexMod
    BY <1>1, StepFrom, Zenon
  <1>4. Inc(Step(a, k)) = IF Step(a, k) = IndexMod - 1 THEN 0 ELSE Step(a, k) + 1
    BY <1>2, IncIndex, Zenon
  <1> QED
    BY <1>1, <1>2, <1>3, <1>4, Sizes DEF Index

\* Every index leads to a slot of the ring (idx % rx->size).
LEMMA SlotOfIndex ==
  ASSUME NEW a \in Index
  PROVE  a % Size \in Descs
  BY Sizes DEF Index, Descs

\* The slots seen from an index, from the next one, and at the end of a
\* window.
LEMMA SlotFacts ==
  ASSUME NEW a \in Index
  PROVE  /\ \A k \in 0 .. IndexMod - 1 : Slot(a, k) \in Descs
         /\ Slot(a, 0) = a % Size
         /\ \A k \in 0 .. IndexMod - 2 : Slot(Inc(a), k) = Slot(a, k + 1)
         /\ \A b \in Index : Slot(a, Dist(a, b)) = b % Size
  <1>1. ASSUME NEW k \in 0 .. IndexMod - 1 PROVE Slot(a, k) \in Descs
    BY StepFrom, SlotOfIndex, Zenon DEF Slot
  <1>2. Slot(a, 0) = a % Size
    <2>1. 0 \in 0 .. IndexMod - 1 /\ a + 0 = a /\ a < IndexMod
      BY Sizes DEF Index
    <2>2. Step(a, 0) = a
      BY <2>1, StepFrom, Zenon
    <2> QED
      BY <2>2, Zenon DEF Slot
  <1>3. ASSUME NEW k \in 0 .. IndexMod - 2 PROVE Slot(Inc(a), k) = Slot(a, k + 1)
    BY StepNext, Zenon DEF Slot
  <1>4. ASSUME NEW b \in Index PROVE Slot(a, Dist(a, b)) = b % Size
    <2>1. Dist(a, b) \in 0 .. IndexMod - 1
      BY DistFacts, Zenon
    <2>2. Dist(a, b) = IF a <= b THEN b - a ELSE b - a + IndexMod
      BY DistIs
    <2>3. Step(a, Dist(a, b)) =
            IF a + Dist(a, b) < IndexMod THEN a + Dist(a, b) ELSE a + Dist(a, b) - IndexMod
      BY <2>1, StepFrom, Zenon
    <2>4. Step(a, Dist(a, b)) = b
      BY <2>1, <2>2, <2>3, Sizes DEF Index
    <2> QED
      BY <2>4, Zenon DEF Slot
  <1> QED
    BY <1>1, <1>2, <1>3, <1>4, Zenon

\* From the next index on, every entry of the window is one nearer.
LEMMA NextSlots ==
  ASSUME NEW a \in Index
  PROVE  \A k \in 0 .. Size : Slot(Inc(a), k) = Slot(a, k + 1)
  <1>1. \A k \in 0 .. Size : k \in 0 .. IndexMod - 2
    BY Sizes
  <1> QED
    BY <1>1, SlotFacts, Zenon

\* The size divides the modulus of the indices (2^16 and a power of two), so
\* a wrap of the index does not move its slot.
LEMMA WrapKeepsSlot ==
  ASSUME NEW x \in Nat, x >= IndexMod
  PROVE  (x - IndexMod) % Size = x % Size
  <1>1. PICK q \in Int : IndexMod = Size * q
    BY RxAssumption
  <1>2. PICK p \in Int : x = (Size * p) + (x % Size)
    BY Sizes, Quotient, Zenon
  <1>3. x % Size \in 0 .. Size - 1
    BY Sizes, Remainder
  <1>4. PICK r \in 0 .. Size - 1 : r = x % Size /\ x = (Size * p) + r
    BY <1>2, <1>3, Zenon
  <1>5. x - IndexMod = (Size * (p - q)) + r
    BY <1>1, <1>4, Sizes
  <1>6. ((Size * (p - q)) + r) % Size = r
    BY Sizes
  <1> QED
    BY <1>4, <1>5, <1>6, Zenon

\* Fewer than Size entries from any index on lie in different slots.
LEMMA SlotInjective ==
  ASSUME NEW a \in Index, NEW i \in 0 .. Size - 1, NEW j \in 0 .. Size - 1,
         Slot(a, i) = Slot(a, j)
  PROVE  i = j
  <1>1. \A k \in 0 .. Size - 1 : Slot(a, k) = (a + k) % Size
    <2> TAKE k \in 0 .. Size - 1
    <2>1. k \in 0 .. IndexMod - 1 /\ a + k \in Nat /\ IndexMod \in Nat
      BY Sizes DEF Index
    <2>2. CASE a + k < IndexMod
      <3>1. Step(a, k) = a + k
        BY <2>1, <2>2, StepFrom, Zenon
      <3> QED
        BY <3>1, Zenon DEF Slot
    <2>3. CASE a + k >= IndexMod
      <3>1. Step(a, k) = a + k - IndexMod
        BY <2>1, <2>3, StepFrom
      <3>2. PICK x \in Nat : x = a + k /\ x >= IndexMod
        BY <2>1, <2>3, Zenon
      <3>3. (x - IndexMod) % Size = x % Size
        BY <3>2, WrapKeepsSlot, Zenon
      <3> QED
        BY <3>1, <3>2, <3>3, Sizes DEF Slot, Index
    <2> QED
      BY <2>1, <2>2, <2>3
  <1>2. (a + i) % Size = (a + j) % Size
    BY <1>1, Zenon
  <1>3. PICK x \in Nat, y \in Nat : x = a + i /\ y = a + j
    BY Sizes DEF Index
  <1>4. PICK p \in Int : x = (Size * p) + (x % Size)
    BY Sizes, Quotient, Zenon
  <1>5. PICK q \in Int : y = (Size * q) + (y % Size)
    BY Sizes, Quotient, Zenon
  <1>6. PICK r \in Int : r = x % Size /\ r = y % Size
    BY <1>2, <1>3, Sizes, Remainder
  <1>7. PICK d \in Int : i - j = Size * d
    <2>1. x = (Size * p) + r /\ y = (Size * q) + r
      BY <1>4, <1>5, <1>6, Zenon
    <2>2. x - y = Size * (p - q)
      BY <2>1, Sizes
    <2>3. x - y = i - j /\ p - q \in Int
      BY <1>3, Sizes DEF Index
    <2> QED
      BY <2>2, <2>3, Zenon
  <1>8. d >= 1 => Size * d >= Size
    BY Sizes
  <1>9. d <= -1 => Size * d <= -Size
    BY Sizes
  <1>10. ~ (d >= 1) /\ ~ (d <= -1)
    BY <1>7, <1>8, <1>9, Sizes
  <1> QED
    BY <1>7, <1>10, Sizes

-----------------------------------------------------------------------------
(***************************************************************************)
(* The windows: what the steps of driver and device do to them             *)
(***************************************************************************)
\* The first element not looked at has an index, counted up once or not.
LEMMA FirstIndex ==
  ASSUME Typed
  PROVE  FirstReturned \in Index
  BY IncIndex, Zenon DEF Typed, FirstReturned

\* The set of descriptors the device has taken is finite.
LEMMA TakenFinite ==
  ASSUME Typed
  PROVE  IsFiniteSet(taken) /\ Cardinality(taken) \in Nat
  <1>1. IsFiniteSet(Descs)
    BY FS_Interval, Sizes DEF Descs
  <1>2. IsFiniteSet(taken)
    BY <1>1, FS_Subset, Zenon DEF Typed
  <1> QED
    BY <1>2, FS_CardinalityType, Zenon

\* With Size places neither ring is overrun.
LEMMA Bounds ==
  ASSUME Typed, Counted
  PROVE  /\ NAv \in 0 .. Size /\ NUs \in 0 .. Size /\ Published \in 0 .. Size
         /\ NAv + NUs + InHand <= Size
         /\ taken # {} => NAv + NUs + InHand < Size
  <1>1. NAv \in Nat /\ Published \in Nat
    BY FirstIndex, DistFacts DEF Typed, NAv, Published
  <1>2. Unpublished \in {0, 1} /\ InHand \in {0, 1}
    BY Zenon DEF Unpublished, InHand
  <1>3. taken # {} => Cardinality(taken) # 0
    BY TakenFinite, FS_EmptySet, Zenon
  <1> QED
    BY <1>1, <1>2, <1>3, TakenFinite, Sizes DEF Counted, NUs

\* A step that leaves avail and the device's index alone leaves what is on
\* offer alone.
LEMMA OfferKept ==
  ASSUME UNCHANGED <<avail_ring, avail_idx, dev_idx>>
  PROVE  NAv' = NAv /\ \A k : Av(k)' = Av(k)
  BY Zenon DEF NAv, Av

\* A step that leaves used, and how far the driver has looked, alone leaves
\* what is returned alone.
LEMMA ReturnedKept ==
  ASSUME UNCHANGED <<used_ring, used_idx, dev_pc, FirstReturned>>
  PROVE  NUs' = NUs /\ \A k : Us(k)' = Us(k)
  BY Zenon DEF NUs, Us, Published, Unpublished

\* The windows hold descriptors and elements.
LEMMA WindowTypes ==
  ASSUME Typed, Counted
  PROVE  /\ \A k \in 0 .. Size : Av(k) \in Descs
         /\ \A k \in 0 .. Size : Us(k) \in Elem
  <1>1. \A k \in 0 .. Size : Slot(dev_idx, k) \in Descs /\ Slot(FirstReturned, k) \in Descs
    <2>1. dev_idx \in Index /\ FirstReturned \in Index
      BY FirstIndex, Zenon DEF Typed
    <2>2. \A k \in 0 .. Size : k \in 0 .. IndexMod - 1
      BY Sizes
    <2> QED
      BY <2>1, <2>2, SlotFacts, Zenon
  <1> QED
    BY <1>1, Zenon DEF Typed, Av, Us

\* used_elem is the first of what is returned; the rest moves up.
LEMMA LoadWindow ==
  ASSUME Typed, Counted, Local, LoadElem
  PROVE  /\ NUs > 0 /\ NUs' = NUs - 1 /\ elem' = Us(0)
         /\ \A k \in 0 .. Size : Us(k)' = Us(k + 1)
  <1>1. FirstReturned = last_used_idx /\ FirstReturned' = Inc(last_used_idx)
    BY Zenon DEF LoadElem, FirstReturned
  <1>2. last_used_idx \in Index /\ used_idx \in Index /\ last_used_idx # used_idx
    BY Zenon DEF Typed, LoadElem, Local
  <1>3. Published > 0 /\ Published' = Published - 1 /\ Published \in Nat
    BY <1>1, <1>2, DistFacts, Sizes DEF Published, LoadElem, device
  <1>4. Unpublished' = Unpublished /\ Unpublished \in {0, 1}
    BY Zenon DEF Unpublished, LoadElem, device
  <1>5. elem' = Us(0)
    BY <1>1, <1>2, SlotFacts, Zenon DEF LoadElem, Us
  <1>6. \A k \in 0 .. Size : Us(k)' = Us(k + 1)
    BY <1>1, <1>2, NextSlots, Zenon DEF Us, LoadElem, device
  <1> QED
    BY <1>3, <1>4, <1>5, <1>6 DEF NUs

\* A call that ends at a bad entry leaves the entry where it was.
LEMMA RejectWindow ==
  ASSUME Typed, Counted, Local, CheckId, elem.id >= Size
  PROVE  /\ NUs' = NUs + 1 /\ Us(0)' = elem
         /\ \A k \in 0 .. Size : Us(k + 1)' = Us(k)
  <1>1. FirstReturned = Inc(last_used_idx) /\ FirstReturned' = last_used_idx
    BY Zenon DEF CheckId, FirstReturned
  <1>2. last_used_idx \in Index /\ used_idx \in Index /\ elem = used_ring[last_used_idx % Size]
    BY Zenon DEF Typed, CheckId, Local
  <1>3. Published' = Published + 1 /\ Published \in Nat
    BY <1>1, <1>2, IncIndex, Bounds, DistFacts, Sizes DEF Published, CheckId, device
  <1>4. Unpublished' = Unpublished /\ Unpublished \in {0, 1}
    BY Zenon DEF Unpublished, CheckId, device
  <1>5. Us(0)' = elem
    BY <1>1, <1>2, SlotFacts, Zenon DEF CheckId, Us, device
  <1>6. \A k \in 0 .. Size : Us(k + 1)' = Us(k)
    BY <1>1, <1>2, NextSlots, Zenon DEF Us, CheckId, device
  <1> QED
    BY <1>3, <1>4, <1>5, <1>6 DEF NUs

\* avail.ring[avail.idx % rx->size] = desc_index writes behind what is on
\* offer.
LEMMA RecycleWindow ==
  ASSUME Typed, Counted, Recycle, elem.id < Size
  PROVE  /\ NAv' = NAv /\ \A k \in 0 .. NAv - 1 : Av(k)' = Av(k)
         /\ avail_ring'[avail_idx % Size] = elem.id
  <1>1. NAv \in 0 .. Size - 1
    BY Bounds, Sizes DEF InHand, Recycle
  <1>2. dev_idx \in Index /\ avail_idx \in Index /\ avail_idx % Size \in Descs
    BY SlotOfIndex, Zenon DEF Typed
  <1>3. Slot(dev_idx, NAv) = avail_idx % Size
    BY <1>2, SlotFacts, Zenon DEF NAv
  <1>4. ASSUME NEW k \in 0 .. NAv - 1 PROVE Av(k)' = Av(k)
    <2>1. k \in 0 .. Size - 1 /\ k # NAv
      BY <1>1, Sizes
    <2>2. Slot(dev_idx, k) # avail_idx % Size
      BY <1>1, <1>2, <1>3, <2>1, SlotInjective, Zenon
    <2> QED
      BY <2>2 DEF Av, Recycle, Typed, device
  <1>5. NAv' = NAv
    BY Zenon DEF NAv, Recycle, device
  <1> QED
    BY <1>2, <1>4, <1>5, Zenon DEF Recycle, Typed

\* avail.idx++ offers the descriptor behind the others.
LEMMA OfferWindow ==
  ASSUME Typed, Counted, Local, Offer
  PROVE  /\ NAv' = NAv + 1 /\ Av(NAv) = elem.id
         /\ \A k : Av(k)' = Av(k)
  <1>1. dev_idx \in Index /\ avail_idx \in Index
    BY Zenon DEF Typed
  <1>2. NAv' = NAv + 1
    BY <1>1, Bounds, DistFacts, Sizes DEF NAv, Offer, device
  <1>3. \A k : Av(k)' = Av(k)
    BY Zenon DEF Av, Offer, device
  <1>4. Av(NAv) = elem.id
    BY <1>1, SlotFacts, Zenon DEF Av, NAv, Local, Offer
  <1> QED
    BY <1>2, <1>3, <1>4, Zenon

\* The device takes the first of what is on offer; the rest moves up.
LEMMA TakeWindow ==
  ASSUME Typed, Counted, DeviceTakes
  PROVE  /\ NAv > 0 /\ NAv' = NAv - 1 /\ taken' = taken \cup {Av(0)}
         /\ \A k \in 0 .. Size : Av(k)' = Av(k + 1)
  <1>1. dev_idx \in Index /\ avail_idx \in Index /\ dev_idx # avail_idx
    BY Zenon DEF Typed, DeviceTakes
  <1>2. NAv > 0 /\ NAv' = NAv - 1
    BY <1>1, DistFacts, Sizes DEF NAv, DeviceTakes, driver
  <1>3. taken' = taken \cup {Av(0)}
    BY <1>1, SlotFacts, Zenon DEF Av, DeviceTakes
  <1>4. \A k \in 0 .. Size : Av(k)' = Av(k + 1)
    BY <1>1, NextSlots, Zenon DEF Av, DeviceTakes, driver
  <1> QED
    BY <1>2, <1>3, <1>4, Zenon

\* The device writes a used element behind what is returned.
LEMMA UseWindow ==
  ASSUME Typed, Counted, NEW e \in Elem, dev_pc = "idle", taken # {},
         used_ring' = [used_ring EXCEPT ![used_idx % Size] = e],
         dev_pc' = "filled", UNCHANGED <<used_idx, pc, last_used_idx>>
  PROVE  /\ NUs' = NUs + 1 /\ \A k : k = NUs => Us(k)' = e
         /\ \A k \in 0 .. NUs - 1 : Us(k)' = Us(k)
         /\ FirstReturned' = FirstReturned
  <1>1. FirstReturned' = FirstReturned
    BY Zenon DEF FirstReturned
  <1>2. FirstReturned \in Index /\ used_idx \in Index /\ used_idx % Size \in Descs
    BY FirstIndex, SlotOfIndex, Zenon DEF Typed
  <1>3. NUs = Published /\ NUs' = NUs + 1 /\ NUs \in 0 .. Size - 1
    BY <1>1, Bounds, Sizes DEF NUs, Unpublished, Published, InHand
  <1>4. Slot(FirstReturned, NUs) = used_idx % Size
    BY <1>2, <1>3, SlotFacts, Zenon DEF Published
  <1>5. ASSUME NEW k \in 0 .. NUs - 1 PROVE Us(k)' = Us(k)
    <2>1. k \in 0 .. Size - 1 /\ k # NUs
      BY <1>3, Sizes
    <2>2. Slot(FirstReturned, k) # used_idx % Size
      BY <1>2, <1>3, <1>4, <2>1, SlotInjective, Zenon
    <2> QED
      BY <1>1, <2>2 DEF Us, Typed
  <1>6. \A k : k = NUs => Us(k)' = e
    BY <1>1, <1>2, <1>3, <1>4, Zenon DEF Us, Typed
  <1> QED
    BY <1>1, <1>3, <1>5, <1>6, Zenon

\* used.idx counted up: what was returned is returned, and can be seen.
LEMMA PublishWindow ==
  ASSUME Typed, Counted, DevicePublishes
  PROVE  NUs' = NUs /\ \A k : Us(k)' = Us(k)
  <1>1. FirstReturned' = FirstReturned /\ FirstReturned \in Index /\ used_idx \in Index
    BY FirstIndex, Zenon DEF FirstReturned, DevicePublishes, driver, Typed
  <1>2. Published' = Published + 1
    BY <1>1, Bounds, DistFacts, Sizes DEF Published, DevicePublishes
  <1>3. NUs' = NUs
    BY <1>2, Bounds DEF NUs, Unpublished, DevicePublishes
  <1>4. \A k : Us(k)' = Us(k)
    BY <1>1, Zenon DEF Us, DevicePublishes
  <1> QED
    BY <1>3, <1>4, Zenon

-----------------------------------------------------------------------------
(***************************************************************************)
(* The invariant                                                           *)
(***************************************************************************)
\* virt_mmio_net_virtq_init offers every descriptor once.
LEMMA InitRx == Init => RxInv
  <1> SUFFICES ASSUME Init PROVE RxInv
    OBVIOUS
  <1>1. 0 \in Index /\ Size \in Index /\ 0 \in 0 .. Size /\ 0 \in Nat
    BY Sizes DEF Index
  <1>2. Typed
    BY <1>1, Zenon DEF Init, Typed, Elem, NoElem
  <1>3. FirstReturned = 0 /\ Unpublished = 0 /\ InHand = 0
    BY Zenon DEF Init, FirstReturned, Unpublished, InHand
  <1>4. NAv = Size /\ NUs = 0
    <2>1. Dist(0, Size) = Size /\ Dist(0, 0) = 0
      BY <1>1, DistIs, Sizes
    <2> QED
      BY <1>3, <2>1, Sizes DEF Init, NAv, NUs, Published
  <1>5. Cardinality(taken) = 0
    BY FS_EmptySet, Zenon DEF Init
  <1>6. Counted
    BY <1>3, <1>4, <1>5, Sizes DEF Counted
  <1>7. \A k \in 0 .. Size - 1 : Av(k) = k
    <2> TAKE k \in 0 .. Size - 1
    <2>1. k \in 0 .. IndexMod - 1 /\ 0 + k = k /\ k < IndexMod
      BY Sizes
    <2>2. Step(0, k) = k
      BY <1>1, <2>1, StepFrom, Zenon
    <2>3. Slot(0, k) = k
      BY <2>2, Sizes DEF Slot
    <2> QED
      BY <2>3, Zenon DEF Init, Av, Descs
  <1>8. Distinct
    BY <1>4, <1>7, Sizes DEF Init, Distinct, DriverHas
  <1>9. Numbered
    <2>1. Step(0, 0) = 0
      BY <1>1, StepFrom, Sizes
    <2> QED
      BY <1>4, <2>1 DEF Init, Numbered, Base
  <1>10. Local /\ Lengths /\ ElemLength /\ FramesInOrder /\ FrameLenExact
    BY <1>4 DEF Init, Local, Lengths, ElemLength, FramesInOrder, FrameLenExact, DriverHas
  <1> QED
    BY <1>2, <1>6, <1>8, <1>9, <1>10, Zenon DEF RxInv

\* A step that moves no descriptor (the tests of the poll, the parsing, the
\* return) leaves the places and the frames as they are.
LEMMA NothingMoves ==
  ASSUME RxInv, UNCHANGED <<avail_ring, avail_idx, dev_idx, elem, device>>,
         FirstReturned' = FirstReturned, InHand' = InHand, Base' = Base,
         DriverHas' => DriverHas, pc = "check" => elem.id < Size
  PROVE  Counted' /\ Distinct' /\ Lengths' /\ Numbered'
  <1> USE DEF RxInv
  <1>1. NAv' = NAv /\ (\A k : Av(k)' = Av(k)) /\ NUs' = NUs /\ (\A k : Us(k)' = Us(k))
    BY OfferKept, ReturnedKept, Zenon DEF device
  <1>2. UNCHANGED <<taken, buf, arrived, elem>>
    BY Zenon DEF device
  <1>3. Counted'
    BY <1>1, <1>2, Zenon DEF Counted
  <1>4. Distinct'
    BY <1>1, <1>2, Zenon DEF Distinct
  <1>5. Lengths'
    BY <1>1, <1>2, Zenon DEF Lengths
  <1>6. \A i : Clean(i)' => Clean(i)
    BY <1>1, Zenon DEF Clean
  <1>7. Numbered'
    BY <1>1, <1>2, <1>6, Zenon DEF Numbered
  <1> QED
    BY <1>3, <1>4, <1>5, <1>7, Zenon

\* The tests of the poll: nothing moves.
LEMMA PollKeeps ==
  ASSUME RxInv, Poll \/ SeeUsed
  PROVE  RxInv'
  <1>1. UNCHANGED <<avail_ring, avail_idx, last_used_idx, elem, frame_len, done, device>>
    BY Zenon DEF Poll, SeeUsed
  <1>2. UNCHANGED <<used_ring, used_idx, buf, dev_idx, taken, dev_pc, arrived>>
    BY <1>1, Zenon DEF device
  <1>3. pc \in {"idle", "poll"} /\ pc' \in {"poll", "elem"}
    BY Zenon DEF Poll, SeeUsed
  <1>4. FirstReturned' = FirstReturned /\ InHand' = InHand /\ Base' = Base /\ ~ DriverHas'
    BY <1>1, <1>3, Zenon DEF FirstReturned, InHand, Base, DriverHas
  <1>5. Counted' /\ Distinct' /\ Lengths' /\ Numbered'
    BY <1>1, <1>2, <1>3, <1>4, NothingMoves, Zenon
  <1>6. Typed'
    BY <1>1, <1>2, <1>3, Zenon DEF RxInv, Typed
  <1>7. Local'
    BY <1>1, <1>2, <1>3, Zenon DEF Local, Poll, SeeUsed
  <1>8. ElemLength' /\ FramesInOrder' /\ FrameLenExact'
    BY <1>3, <1>4, Zenon DEF ElemLength, FramesInOrder, FrameLenExact
  <1> QED
    BY <1>5, <1>6, <1>7, <1>8, Zenon DEF RxInv

\* The load of the used element takes the descriptor from what is returned
\* into the driver's hands.
LEMMA LoadKeeps ==
  ASSUME RxInv, LoadElem
  PROVE  RxInv'
  <1> USE DEF RxInv
  <1>1. UNCHANGED <<used_ring, used_idx, buf, dev_idx, taken, dev_pc, arrived,
                    avail_ring, avail_idx, last_used_idx, frame_len, done>>
    BY Zenon DEF LoadElem, device
  <1>2. pc = "elem" /\ pc' = "check" /\ elem' = used_ring[last_used_idx % Size]
    BY Zenon DEF LoadElem
  <1>3. NUs > 0 /\ NUs' = NUs - 1 /\ elem' = Us(0) /\ \A k \in 0 .. Size : Us(k)' = Us(k + 1)
    BY LoadWindow, Zenon
  <1>4. NAv' = NAv /\ \A k : Av(k)' = Av(k)
    BY <1>1, OfferKept, Zenon
  <1>5. NAv \in 0 .. Size /\ NUs \in 0 .. Size /\ (\A k \in 0 .. Size : Us(k) \in Elem)
    BY Bounds, WindowTypes, Zenon
  <1>6. \A i \in 0 .. NUs' - 1 : Us(i)' = Us(i + 1) /\ i + 1 \in 0 .. NUs - 1
    BY <1>3, <1>5, Sizes
  <1>7. Typed'
    BY <1>1, <1>2, <1>3, <1>5, Sizes DEF Typed
  <1>8. Counted'
    <2>1. InHand = 0 /\ InHand' = 1
      BY <1>2, Zenon DEF InHand
    <2> QED
      BY <1>1, <1>3, <1>4, <1>5, <2>1, TakenFinite, Sizes DEF Counted
  <1>9. Distinct'
    <2>1. 0 \in 0 .. NUs - 1
      BY <1>3, <1>5
    <2>2. \A i, j \in 0 .. NUs' - 1 : Us(i)'.id = Us(j)'.id /\ Us(i)'.id < Size => i = j
      BY <1>3, <1>5, <1>6, Sizes DEF Distinct
    <2>3. \A i \in 0 .. NUs' - 1 : Us(i)'.id \notin taken'
      BY <1>1, <1>6, Zenon DEF Distinct
    <2>4. \A i \in 0 .. NAv' - 1, j \in 0 .. NUs' - 1 : Av(i)' # Us(j)'.id
      BY <1>4, <1>6, Zenon DEF Distinct
    <2>5. \A i \in 0 .. NAv' - 1 : Av(i)' # elem'.id /\ Av(i)' \notin taken'
      BY <1>1, <1>3, <1>4, <2>1, Zenon DEF Distinct
    <2>6. elem'.id \notin taken'
      BY <1>1, <1>3, <2>1, Zenon DEF Distinct
    <2>7. elem'.id < Size => \A i \in 0 .. NUs' - 1 : Us(i)'.id # elem'.id
      <3> SUFFICES ASSUME elem'.id < Size, NEW i \in 0 .. NUs' - 1, Us(i)'.id = elem'.id
                   PROVE  FALSE
        OBVIOUS
      <3>1. Us(i + 1).id = Us(0).id /\ Us(i + 1).id < Size /\ i + 1 \in 0 .. NUs - 1
        BY <1>3, <1>6, Zenon
      <3>2. i + 1 = 0
        BY <2>1, <3>1, Zenon DEF Distinct
      <3> QED
        BY <1>3, <1>5, <3>2
    <2>8. \A i, j \in 0 .. NAv' - 1 : Av(i)' = Av(j)' => i = j
      BY <1>4, Zenon DEF Distinct
    <2> QED
      BY <2>2, <2>3, <2>4, <2>5, <2>6, <2>7, <2>8, Zenon DEF Distinct, DriverHas
  <1>10. Local'
    BY <1>1, <1>2, Zenon DEF Local
  <1>11. Lengths'
    BY <1>1, <1>6, Zenon DEF Lengths
  <1>12. ElemLength'
    BY <1>1, <1>3, <1>5 DEF Lengths, ElemLength
  <1>13. Base = done /\ Base' = Inc(done) /\ done \in Index
    BY <1>1, <1>2, Zenon DEF Base, Typed
  <1>14. \A i \in 0 .. NUs' : Clean(i)' => Clean(i + 1)
    <2> SUFFICES ASSUME NEW i \in 0 .. NUs', Clean(i)', NEW j \in 0 .. i PROVE Us(j).id < Size
      BY <1>2, <1>3, <1>5 DEF Clean
    <2>1. elem'.id < Size
      BY <1>2, Zenon DEF Clean
    <2>2. CASE j = 0
      BY <1>3, <2>1, <2>2, Zenon
    <2>3. CASE j # 0
      <3>1. j - 1 \in 0 .. i - 1 /\ j - 1 \in 0 .. Size /\ j - 1 + 1 = j
        BY <1>3, <1>5, <2>3, Sizes
      <3>2. Us(j - 1)'.id < Size
        BY <3>1, Zenon DEF Clean
      <3> QED
        BY <1>3, <3>1, <3>2, Zenon
    <2> QED
      BY <2>2, <2>3, Zenon
  <1>15. \A i \in 0 .. NUs' : Step(Base', i) = Step(Base, i + 1)
    BY <1>3, <1>5, <1>13, StepNext, Sizes
  <1>16. Numbered'
    <2>1. ASSUME NEW i \in 0 .. NUs' - 1, Clean(i + 1)' PROVE buf'[Us(i)'.id].num = Step(Base', i)
      <3>1. i \in 0 .. NUs' /\ i + 1 \in 0 .. NUs' /\ i + 1 \in 0 .. NUs - 1 /\ i \in 0 .. Size
        BY <1>3, <1>5, Sizes
      <3>2. Clean(i + 1 + 1)
        BY <1>14, <2>1, <3>1, Zenon
      <3>3. buf[Us(i + 1).id].num = Step(Base, i + 1)
        BY <3>1, <3>2, Zenon DEF Numbered
      <3> QED
        BY <1>1, <1>3, <1>15, <3>1, <3>3, Zenon
    <2>2. Clean(NUs)' => arrived' = Step(Base', NUs')
      <3>1. NUs' \in 0 .. NUs' /\ NUs' + 1 = NUs
        BY <1>3, <1>5
      <3>2. \A n : n = NUs' /\ Clean(n)' => Clean(n + 1)
        BY <1>14, <3>1, Zenon
      <3>3. Step(Base', NUs') = Step(Base, NUs)
        BY <1>15, <3>1, Zenon
      <3> QED
        BY <1>1, <3>1, <3>2, <3>3, Zenon DEF Numbered
    <2> QED
      BY <2>1, <2>2, Zenon DEF Numbered
  <1>17. FramesInOrder'
    <2> SUFFICES ASSUME elem'.id < Size PROVE buf'[elem'.id].num = done'
      BY Zenon DEF FramesInOrder, DriverHas
    <2>1. Clean(0 + 1)
      BY <1>2, <1>3 DEF Clean
    <2>2. 0 \in 0 .. NUs - 1
      BY <1>3, <1>5
    <2>3. buf[Us(0).id].num = Step(Base, 0)
      BY <2>1, <2>2, Zenon DEF Numbered
    <2>4. Step(done, 0) = done
      BY <1>13, StepFrom, Sizes DEF Index
    <2> QED
      BY <1>1, <1>3, <1>13, <2>3, <2>4, Zenon
  <1>18. FrameLenExact'
    BY <1>2, Zenon DEF FrameLenExact
  <1> QED
    BY <1>7, <1>8, <1>9, <1>10, <1>11, <1>12, <1>16, <1>17, <1>18, Zenon

\* A good descriptor is the driver's; a bad one ends the call, and its entry
\* is what is returned first again.
LEMMA CheckKeeps ==
  ASSUME RxInv, CheckId
  PROVE  RxInv'
  <1> USE DEF RxInv
  <1>1. UNCHANGED <<used_ring, used_idx, buf, dev_idx, taken, dev_pc, arrived,
                    avail_ring, avail_idx, last_used_idx, elem, frame_len, done>>
    BY Zenon DEF CheckId, device
  <1>2. elem.id \in Nat /\ elem \in Elem
    BY Sizes DEF Typed, Elem
  <1>3. CASE elem.id < Size
    <2>1. pc = "check" /\ pc' = "process"
      BY <1>2, <1>3, Sizes DEF CheckId
    <2>2. FirstReturned' = FirstReturned /\ InHand' = InHand /\ Base' = Base
          /\ (DriverHas' => DriverHas)
      BY <1>1, <2>1, Zenon DEF FirstReturned, InHand, Base, DriverHas
    <2>3. Counted' /\ Distinct' /\ Lengths' /\ Numbered'
      BY <1>1, <1>3, <2>2, NothingMoves, Zenon DEF device
    <2>4. Typed'
      BY <1>1, <2>1, Zenon DEF Typed
    <2>5. Local' /\ ElemLength' /\ FramesInOrder' /\ FrameLenExact'
      BY <1>1, <1>3, <2>1, Zenon DEF Local, ElemLength, FramesInOrder, FrameLenExact, DriverHas
    <2> QED
      BY <2>3, <2>4, <2>5, Zenon
  <1>4. CASE elem.id >= Size
    <2>1. pc = "check" /\ pc' = "idle"
      BY <1>4, Zenon DEF CheckId
    <2>2. NUs' = NUs + 1 /\ Us(0)' = elem /\ \A k \in 0 .. Size : Us(k + 1)' = Us(k)
      BY <1>4, RejectWindow, Zenon
    <2>3. NAv' = NAv /\ \A k : Av(k)' = Av(k)
      BY <1>1, OfferKept, Zenon
    <2>4. NAv \in 0 .. Size /\ NUs \in 0 .. Size
          /\ (\A k \in 0 .. Size : Us(k) \in Elem) /\ (\A k \in 0 .. Size : Av(k) \in Descs)
      BY Bounds, WindowTypes, Zenon
    <2>5. \A i \in 0 .. NUs' - 1 :
            IF i = 0 THEN Us(i)' = elem ELSE i - 1 \in 0 .. NUs - 1 /\ Us(i)' = Us(i - 1)
      <3> TAKE i \in 0 .. NUs' - 1
      <3>1. CASE i = 0
        BY <2>2, <3>1, Zenon
      <3>2. CASE i # 0
        <4>1. i - 1 \in 0 .. NUs - 1 /\ i - 1 \in 0 .. Size /\ (i - 1) + 1 = i
          BY <2>2, <2>4, <3>2, Sizes
        <4>2. Us((i - 1) + 1)' = Us(i - 1)
          BY <2>2, <4>1, Zenon
        <4> QED
          BY <3>2, <4>1, <4>2, Zenon
      <3> QED
        BY <3>1, <3>2, Zenon
    <2>6. Typed'
      BY <1>1, <2>1, Zenon DEF Typed
    <2>7. Counted'
      <3>1. InHand = 1 /\ InHand' = 0
        BY <2>1, Zenon DEF InHand
      <3> QED
        BY <1>1, <2>2, <2>3, <2>4, <3>1, TakenFinite, Sizes DEF Counted
    <2>8. elem.id = Size /\ Size \notin Descs
      BY <1>2, <1>4, Sizes DEF Elem, Descs
    <2>9. Distinct'
      <3>1. \A i, j \in 0 .. NUs' - 1 : Us(i)'.id = Us(j)'.id /\ Us(i)'.id < Size => i = j
        <4> SUFFICES ASSUME NEW i \in 0 .. NUs' - 1, NEW j \in 0 .. NUs' - 1,
                            Us(i)'.id = Us(j)'.id, Us(i)'.id < Size
                     PROVE  i = j
          OBVIOUS
        <4>1. i # 0 /\ j # 0
          BY <2>5, <2>8, Sizes
        <4>2. i - 1 \in 0 .. NUs - 1 /\ j - 1 \in 0 .. NUs - 1
              /\ Us(i - 1).id = Us(j - 1).id /\ Us(i - 1).id < Size
          BY <2>5, <4>1, Zenon
        <4>3. i - 1 = j - 1
          BY <4>2, Zenon DEF Distinct
        <4> QED
          BY <2>2, <2>4, <4>3
      <3>2. \A i \in 0 .. NUs' - 1 : Us(i)'.id \notin taken'
        BY <1>1, <2>5, <2>8, Zenon DEF Distinct, Typed
      <3>3. \A i \in 0 .. NAv' - 1, j \in 0 .. NUs' - 1 : Av(i)' # Us(j)'.id
        <4> TAKE i \in 0 .. NAv' - 1, j \in 0 .. NUs' - 1
        <4>1. i \in 0 .. Size /\ i \in 0 .. NAv - 1 /\ Av(i)' = Av(i)
          BY <2>3, <2>4, Sizes
        <4>2. CASE j = 0
          BY <2>4, <2>5, <2>8, <4>1, <4>2, Zenon
        <4>3. CASE j # 0
          BY <2>5, <4>1, <4>3, Zenon DEF Distinct
        <4> QED
          BY <4>2, <4>3, Zenon
      <3>4. \A i \in 0 .. NAv' - 1 : Av(i)' \notin taken'
        BY <1>1, <2>3, Zenon DEF Distinct
      <3>5. \A i, j \in 0 .. NAv' - 1 : Av(i)' = Av(j)' => i = j
        BY <2>3 DEF Distinct
      <3>6. ~ DriverHas'
        BY <2>1, Zenon DEF DriverHas
      <3> QED
        BY <3>1, <3>2, <3>3, <3>4, <3>5, <3>6, Zenon DEF Distinct
    <2>10. Lengths'
      BY <1>1, <2>5, <2>8, Sizes DEF Lengths
    <2>11. Numbered'
      <3>1. \A i \in 0 .. NUs' - 1 : ~ Clean(i + 1)'
        <4> TAKE i \in 0 .. NUs' - 1
        <4>1. 0 \in 0 .. (i + 1) - 1 /\ ~ (Us(0)'.id < Size)
          BY <2>2, <2>4, <2>8, Sizes
        <4> QED
          BY <4>1, Zenon DEF Clean
      <3>2. ~ Clean(NUs)'
        <4>1. 0 \in 0 .. NUs' - 1 /\ ~ (Us(0)'.id < Size)
          BY <2>2, <2>4, <2>8, Sizes
        <4> QED
          BY <4>1, Zenon DEF Clean
      <3> QED
        BY <3>1, <3>2, Zenon DEF Numbered
    <2>12. Local' /\ ElemLength' /\ FramesInOrder' /\ FrameLenExact'
      BY <2>1, Zenon DEF Local, ElemLength, FramesInOrder, FrameLenExact
    <2> QED
      BY <2>6, <2>7, <2>9, <2>10, <2>11, <2>12, Zenon
  <1> QED
    BY <1>2, <1>3, <1>4, Sizes

\* The length without the header: exact if len counts the header, and beyond
\* every length that fits exactly if the subtraction wraps
\* (frame_len = len - sizeof(struct virtio_net_hdr)).
LEMMA FrameLenIs ==
  ASSUME NEW n \in Nat, NEW len \in Reported(n)
  PROVE  /\ FrameLen(len) \in Nat
         /\ len = n + HeaderLen => FrameLen(len) = Min(n, Length - HeaderLen)
         /\ len >= HeaderLen <=> FrameLen(len) <= Length - HeaderLen
  <1>1. len \in Nat
    BY RxAssumption DEF Reported
  <1>2. CASE len >= HeaderLen
    <2>1. PICK x \in 0 .. WordMod - 1 : x = Min(len, Length) - HeaderLen
      BY <1>1, <1>2, RxAssumption DEF Min
    <2>2. x % WordMod = x
      BY RxAssumption
    <2>3. x <= Length - HeaderLen /\ (len = n + HeaderLen => x = Min(n, Length - HeaderLen))
      BY <1>1, <2>1, RxAssumption DEF Min
    <2> QED
      BY <1>2, <2>1, <2>2, <2>3 DEF FrameLen
  <1>3. CASE ~ (len >= HeaderLen)
    <2>1. PICK x \in Int : x = len - HeaderLen
      BY <1>1, RxAssumption
    <2>2. -WordMod <= x /\ x < 0 /\ x = Min(len, Length) - HeaderLen /\ len # n + HeaderLen
      BY <1>1, <1>3, <2>1, RxAssumption DEF Min
    <2>3. x % WordMod = x + WordMod
      BY <2>2, RxAssumption
    <2>4. x + WordMod \in Nat /\ ~ (x + WordMod <= Length - HeaderLen)
      BY <1>1, <2>1, <2>2, RxAssumption
    <2> QED
      BY <1>3, <2>2, <2>3, <2>4, Zenon DEF FrameLen
  <1> QED
    BY <1>2, <1>3, Zenon

\* Parsing counts the frame and moves nothing.
LEMMA ProcessKeeps ==
  ASSUME RxInv, Process
  PROVE  RxInv'
  <1> USE DEF RxInv
  <1>1. UNCHANGED <<used_ring, used_idx, buf, dev_idx, taken, dev_pc, arrived,
                    avail_ring, avail_idx, last_used_idx, elem>>
    BY Zenon DEF Process, device
  <1>2. pc = "process" /\ pc' = "recycle" /\ done' = Inc(done) /\ frame_len' = FrameLen(elem.len)
    BY Zenon DEF Process
  <1>3. FirstReturned' = FirstReturned /\ InHand' = InHand /\ Base' = Base
        /\ (DriverHas' => DriverHas)
    BY <1>1, <1>2, Zenon DEF FirstReturned, InHand, Base, DriverHas
  <1>4. Counted' /\ Distinct' /\ Lengths' /\ Numbered'
    BY <1>1, <1>2, <1>3, NothingMoves, Zenon DEF device
  <1>5. elem.id \in Descs
    BY <1>2, Sizes DEF Local, Typed, Elem, Descs
  <1>6. buf[elem.id].len \in Nat /\ elem.len \in Reported(buf[elem.id].len)
    BY <1>2, <1>5, Zenon DEF Typed, ElemLength, Local
  <1>7. /\ frame_len' \in Nat
        /\ elem.len = buf[elem.id].len + HeaderLen => frame_len' = Min(buf[elem.id].len, Length - HeaderLen)
        /\ elem.len >= HeaderLen <=> frame_len' <= Length - HeaderLen
    BY <1>2, <1>6, FrameLenIs, Zenon
  <1>8. Typed'
    BY <1>1, <1>2, <1>7, IncIndex, Zenon DEF Typed
  <1>9. Local' /\ ElemLength' /\ FramesInOrder'
    BY <1>1, <1>2, Zenon DEF Local, ElemLength, FramesInOrder
  <1>10. FrameLenExact'
    BY <1>1, <1>6, <1>7, Zenon DEF FrameLenExact
  <1> QED
    BY <1>4, <1>8, <1>9, <1>10, Zenon

\* The descriptor is written to the avail ring behind what is on offer.
LEMMA RecycleKeeps ==
  ASSUME RxInv, Recycle
  PROVE  RxInv'
  <1> USE DEF RxInv
  <1>1. UNCHANGED <<used_ring, used_idx, buf, dev_idx, taken, dev_pc, arrived,
                    avail_idx, last_used_idx, elem, frame_len, done>>
    BY Zenon DEF Recycle, device
  <1>2. pc = "recycle" /\ pc' = "offer" /\ elem.id < Size
        /\ avail_ring' = [avail_ring EXCEPT ![avail_idx % Size] = elem.id]
    BY Zenon DEF Recycle, Local
  <1>3. NAv' = NAv /\ (\A k \in 0 .. NAv - 1 : Av(k)' = Av(k))
        /\ avail_ring'[avail_idx % Size] = elem.id
    BY <1>2, RecycleWindow, Zenon
  <1>4. FirstReturned' = FirstReturned /\ InHand' = InHand /\ Base' = Base
        /\ (DriverHas' => DriverHas)
    BY <1>1, <1>2, Zenon DEF FirstReturned, InHand, Base, DriverHas
  <1>5. NUs' = NUs /\ \A k : Us(k)' = Us(k)
    BY <1>1, <1>4, ReturnedKept, Zenon
  <1>6. elem.id \in Descs
    BY <1>2, Sizes DEF Typed, Elem, Descs
  <1>7. Typed'
    BY <1>1, <1>2, <1>6, Zenon DEF Typed
  <1>8. Counted'
    BY <1>1, <1>3, <1>4, <1>5, Zenon DEF Counted
  <1>9. Distinct'
    BY <1>1, <1>3, <1>4, <1>5 DEF Distinct
  <1>10. Lengths'
    BY <1>1, <1>5, Zenon DEF Lengths
  <1>11. Numbered'
    <2>1. \A i : Clean(i)' => Clean(i)
      BY <1>2, <1>5, Zenon DEF Clean
    <2> QED
      BY <1>1, <1>4, <1>5, <2>1, Zenon DEF Numbered
  <1>12. Local' /\ ElemLength' /\ FramesInOrder' /\ FrameLenExact'
    BY <1>1, <1>2, <1>3, Zenon DEF Local, ElemLength, FramesInOrder, FrameLenExact
  <1> QED
    BY <1>7, <1>8, <1>9, <1>10, <1>11, <1>12

\* The descriptor goes from the driver's hands to what is on offer.
LEMMA OfferKeeps ==
  ASSUME RxInv, Offer
  PROVE  RxInv'
  <1> USE DEF RxInv
  <1>1. UNCHANGED <<used_ring, used_idx, buf, dev_idx, taken, dev_pc, arrived,
                    avail_ring, last_used_idx, elem, frame_len, done>>
    BY Zenon DEF Offer, device
  <1>2. pc = "offer" /\ pc' = "advance" /\ avail_idx' = Inc(avail_idx)
    BY Zenon DEF Offer
  <1>3. NAv' = NAv + 1 /\ Av(NAv) = elem.id /\ \A k : Av(k)' = Av(k)
    BY OfferWindow, Zenon
  <1>4. FirstReturned' = FirstReturned /\ InHand = 1 /\ InHand' = 0 /\ Base' = Base
    BY <1>1, <1>2, Zenon DEF FirstReturned, InHand, Base
  <1>5. NUs' = NUs /\ \A k : Us(k)' = Us(k)
    BY <1>1, <1>4, ReturnedKept, Zenon
  <1>6. NAv \in 0 .. Size /\ NUs \in 0 .. Size
    BY Bounds, Zenon
  <1>7. DriverHas /\ ~ DriverHas'
    BY <1>2, Zenon DEF DriverHas, Local
  <1>8. Typed'
    BY <1>1, <1>2, IncIndex, Zenon DEF Typed
  <1>9. Counted'
    BY <1>1, <1>3, <1>4, <1>5, <1>6, TakenFinite, Sizes DEF Counted
  <1>10. Distinct'
    <2>1. \A i \in 0 .. NAv' - 1 : i = NAv \/ i \in 0 .. NAv - 1
      BY <1>3, <1>6
    <2>2. \A i, j \in 0 .. NAv' - 1 : Av(i)' = Av(j)' => i = j
      BY <1>3, <1>7, <2>1, Zenon DEF Distinct
    <2>3. \A i \in 0 .. NAv' - 1 : Av(i)' \notin taken'
      BY <1>1, <1>3, <1>7, <2>1, Zenon DEF Distinct
    <2>4. \A i \in 0 .. NAv' - 1, j \in 0 .. NUs' - 1 : Av(i)' # Us(j)'.id
      BY <1>3, <1>5, <1>7, <2>1, Zenon DEF Distinct
    <2> QED
      BY <1>1, <1>5, <1>7, <2>2, <2>3, <2>4, Zenon DEF Distinct
  <1>11. Lengths'
    BY <1>1, <1>5 DEF Lengths
  <1>12. Numbered'
    <2>1. \A i : Clean(i)' => Clean(i)
      BY <1>2, <1>5, Zenon DEF Clean
    <2> QED
      BY <1>1, <1>4, <1>5, <2>1, Zenon DEF Numbered
  <1>13. Local' /\ ElemLength' /\ FramesInOrder' /\ FrameLenExact'
    BY <1>2, Zenon DEF Local, ElemLength, FramesInOrder, FrameLenExact
  <1> QED
    BY <1>8, <1>9, <1>10, <1>11, <1>12, <1>13

\* The entry was left behind when it was loaded: last_used_idx++ moves
\* nothing.
LEMMA AdvanceKeeps ==
  ASSUME RxInv, Advance
  PROVE  RxInv'
  <1> USE DEF RxInv
  <1>1. UNCHANGED <<used_ring, used_idx, buf, dev_idx, taken, dev_pc, arrived,
                    avail_ring, avail_idx, elem, frame_len, done>>
    BY Zenon DEF Advance, device
  <1>2. pc = "advance" /\ pc' = "idle" /\ last_used_idx' = Inc(last_used_idx)
    BY Zenon DEF Advance
  <1>3. FirstReturned' = FirstReturned /\ InHand' = InHand /\ Base' = Base /\ ~ DriverHas'
    BY <1>1, <1>2, Zenon DEF FirstReturned, InHand, Base, DriverHas
  <1>4. Counted' /\ Distinct' /\ Lengths' /\ Numbered'
    BY <1>1, <1>2, <1>3, NothingMoves, Zenon DEF device
  <1>5. Typed'
    BY <1>1, <1>2, IncIndex, Zenon DEF Typed
  <1>6. Local' /\ ElemLength' /\ FramesInOrder' /\ FrameLenExact'
    BY <1>2, Zenon DEF Local, ElemLength, FramesInOrder, FrameLenExact
  <1> QED
    BY <1>4, <1>5, <1>6

\* The device takes a descriptor that nobody else has.
LEMMA TakeKeeps ==
  ASSUME RxInv, DeviceTakes
  PROVE  RxInv'
  <1> USE DEF RxInv
  <1>1. UNCHANGED <<used_ring, used_idx, buf, dev_pc, arrived, pc,
                    avail_ring, avail_idx, last_used_idx, elem, frame_len, done>>
    BY Zenon DEF DeviceTakes, driver
  <1>2. NAv > 0 /\ NAv' = NAv - 1 /\ taken' = taken \cup {Av(0)}
        /\ \A k \in 0 .. Size : Av(k)' = Av(k + 1)
    BY TakeWindow, Zenon
  <1>3. FirstReturned' = FirstReturned /\ InHand' = InHand /\ Base' = Base
        /\ (DriverHas' <=> DriverHas)
    BY <1>1, Zenon DEF FirstReturned, InHand, Base, DriverHas
  <1>4. NUs' = NUs /\ \A k : Us(k)' = Us(k)
    BY <1>1, <1>3, ReturnedKept, Zenon
  <1>5. NAv \in 0 .. Size /\ NUs \in 0 .. Size /\ Av(0) \in Descs
    BY Bounds, WindowTypes, Sizes
  <1>6. \A i \in 0 .. NAv' - 1 : i + 1 \in 0 .. NAv - 1 /\ Av(i)' = Av(i + 1)
    BY <1>2, <1>5, Sizes
  <1>7. 0 \in 0 .. NAv - 1
    BY <1>2, <1>5
  <1>8. Typed'
    BY <1>1, <1>2, <1>5, IncIndex, Zenon DEF Typed, DeviceTakes
  <1>9. Counted'
    <2>1. Av(0) \notin taken
      BY <1>7, Zenon DEF Distinct
    <2>2. Cardinality(taken') = Cardinality(taken) + 1
      BY <1>2, <2>1, TakenFinite, FS_AddElement, Zenon
    <2> QED
      BY <1>2, <1>3, <1>4, <1>5, <2>2, TakenFinite, Sizes DEF Counted
  <1>10. Distinct'
    <2>1. \A i, j \in 0 .. NAv' - 1 : Av(i)' = Av(j)' => i = j
      <3> SUFFICES ASSUME NEW i \in 0 .. NAv' - 1, NEW j \in 0 .. NAv' - 1, Av(i)' = Av(j)'
                   PROVE  i = j
        OBVIOUS
      <3>1. i + 1 = j + 1
        BY <1>6, Zenon DEF Distinct
      <3> QED
        BY <1>2, <1>5, <3>1
    <2>2. \A i \in 0 .. NAv' - 1 : Av(i)' # Av(0)
      <3> SUFFICES ASSUME NEW i \in 0 .. NAv' - 1, Av(i)' = Av(0) PROVE FALSE
        OBVIOUS
      <3>1. i + 1 = 0
        BY <1>6, <1>7, Zenon DEF Distinct
      <3> QED
        BY <1>2, <1>5, <3>1
    <2>3. \A i \in 0 .. NAv' - 1 : Av(i)' \notin taken'
      BY <1>2, <1>6, <2>2, Zenon DEF Distinct
    <2>4. \A i \in 0 .. NUs' - 1 : Us(i)'.id \notin taken'
      BY <1>2, <1>4, <1>7, Zenon DEF Distinct
    <2>5. \A i \in 0 .. NAv' - 1, j \in 0 .. NUs' - 1 : Av(i)' # Us(j)'.id
      BY <1>4, <1>6, Zenon DEF Distinct
    <2>6. DriverHas' => /\ \A i \in 0 .. NAv' - 1 : Av(i)' # elem'.id
                        /\ \A i \in 0 .. NUs' - 1 : Us(i)'.id # elem'.id
                        /\ elem'.id \notin taken'
      BY <1>1, <1>2, <1>3, <1>4, <1>6, <1>7, Zenon DEF Distinct
    <2>7. \A i, j \in 0 .. NUs' - 1 : Us(i)'.id = Us(j)'.id /\ Us(i)'.id < Size => i = j
      BY <1>4, Zenon DEF Distinct
    <2> QED
      BY <2>1, <2>3, <2>4, <2>5, <2>6, <2>7, Zenon DEF Distinct
  <1>11. Lengths'
    BY <1>1, <1>4 DEF Lengths
  <1>12. Numbered'
    <2>1. \A i : Clean(i)' => Clean(i)
      BY <1>1, <1>4, Zenon DEF Clean
    <2> QED
      BY <1>1, <1>3, <1>4, <2>1, Zenon DEF Numbered
  <1>13. Local' /\ ElemLength' /\ FrameLenExact'
    BY <1>1, Zenon DEF Local, ElemLength, FrameLenExact
  <1>14. FramesInOrder'
    BY <1>1, <1>3, Zenon DEF FramesInOrder
  <1> QED
    BY <1>8, <1>9, <1>10, <1>11, <1>12, <1>13, <1>14, Zenon

\* The device writes an element behind what is returned: a filled buffer it
\* had taken, or a bad entry instead of one.
LEMMA UseMoves ==
  ASSUME RxInv, NEW d \in taken, NEW e \in Elem, e.id \in {d, Size}, dev_pc = "idle",
         used_ring' = [used_ring EXCEPT ![used_idx % Size] = e],
         taken' = taken \ {d}, dev_pc' = "filled", UNCHANGED <<driver, used_idx, dev_idx>>
  PROVE  /\ Counted' /\ Distinct' /\ Local'
         /\ NUs' = NUs + 1 /\ NUs \in 0 .. Size
         /\ \A k : k = NUs => Us(k)' = e
         /\ \A k \in 0 .. NUs - 1 : Us(k)' = Us(k)
         /\ UNCHANGED <<pc, elem, done, Base, frame_len>>
  <1> USE DEF RxInv
  <1>1. UNCHANGED <<pc, avail_ring, avail_idx, last_used_idx, elem, frame_len, done>>
    BY Zenon DEF driver
  <1>2. NUs' = NUs + 1 /\ (\A k : k = NUs => Us(k)' = e)
        /\ (\A k \in 0 .. NUs - 1 : Us(k)' = Us(k)) /\ FirstReturned' = FirstReturned
    BY <1>1, UseWindow, Zenon
  <1>3. NAv' = NAv /\ \A k : Av(k)' = Av(k)
    BY <1>1, OfferKept, Zenon
  <1>4. NAv \in 0 .. Size /\ NUs \in 0 .. Size /\ NAv + NUs + InHand < Size
        /\ (\A k \in 0 .. Size : Av(k) \in Descs)
    BY Bounds, WindowTypes, Zenon
  <1>5. Base' = Base /\ InHand' = InHand /\ (DriverHas' <=> DriverHas)
    BY <1>1, Zenon DEF Base, InHand, DriverHas
  <1>6. Counted'
    <2>1. Cardinality(taken') = Cardinality(taken) - 1
      BY TakenFinite, FS_RemoveElement, Zenon
    <2> QED
      BY <1>2, <1>3, <1>4, <1>5, <2>1, TakenFinite, Sizes DEF Counted, InHand
  <1>7. \A i \in 0 .. NUs' - 1 : (i = NUs /\ Us(i)' = e) \/ (i \in 0 .. NUs - 1 /\ Us(i)' = Us(i))
    BY <1>2, <1>4
  <1>8. d \in Descs /\ Size \notin Descs /\ taken \subseteq Descs
    BY Sizes DEF Typed, Descs
  <1>9. Distinct'
    <2>1. \A i, j \in 0 .. NUs' - 1 : Us(i)'.id = Us(j)'.id /\ Us(i)'.id < Size => i = j
      <3> SUFFICES ASSUME NEW i \in 0 .. NUs' - 1, NEW j \in 0 .. NUs' - 1,
                          Us(i)'.id = Us(j)'.id, Us(i)'.id < Size
                   PROVE  i = j
        OBVIOUS
      <3>1. Us(i)'.id # Size
        BY Sizes
      <3>2. \A k \in 0 .. NUs - 1 : Us(k).id # d
        BY Zenon DEF Distinct
      <3>3. (i = NUs) <=> (j = NUs)
        BY <1>7, <3>1, <3>2
      <3> QED
        BY <1>7, <3>3, Zenon DEF Distinct
    <2>2. \A i \in 0 .. NUs' - 1 : Us(i)'.id \notin taken'
      BY <1>7, <1>8, Zenon DEF Distinct
    <2>3. \A i \in 0 .. NAv' - 1, j \in 0 .. NUs' - 1 : Av(i)' # Us(j)'.id
      <3> TAKE i \in 0 .. NAv' - 1, j \in 0 .. NUs' - 1
      <3>1. i \in 0 .. NAv - 1 /\ Av(i)' = Av(i) /\ Av(i) # d /\ Av(i) # Size
        BY <1>3, <1>4, <1>8, Sizes DEF Distinct
      <3> QED
        BY <1>7, <3>1, Zenon DEF Distinct
    <2>4. DriverHas' => /\ \A i \in 0 .. NAv' - 1 : Av(i)' # elem'.id
                        /\ \A i \in 0 .. NUs' - 1 : Us(i)'.id # elem'.id
                        /\ elem'.id \notin taken'
      <3> SUFFICES ASSUME DriverHas PROVE /\ \A i \in 0 .. NAv' - 1 : Av(i)' # elem'.id
                                          /\ \A i \in 0 .. NUs' - 1 : Us(i)'.id # elem'.id
                                          /\ elem'.id \notin taken'
        BY <1>5, Zenon
      <3>1. elem.id # d /\ elem.id # Size
        BY Sizes DEF Distinct, DriverHas
      <3> QED
        BY <1>1, <1>3, <1>7, <3>1, Zenon DEF Distinct
    <2>5. \A i \in 0 .. NAv' - 1 : Av(i)' \notin taken'
      BY <1>3, Zenon DEF Distinct
    <2>6. \A i, j \in 0 .. NAv' - 1 : Av(i)' = Av(j)' => i = j
      BY <1>3, Zenon DEF Distinct
    <2> QED
      BY <2>1, <2>2, <2>3, <2>4, <2>5, <2>6, Zenon DEF Distinct
  <1>10. Local'
    <2>1. pc = "check" => used_ring'[last_used_idx % Size] = used_ring[last_used_idx % Size]
      <3> SUFFICES ASSUME pc = "check" PROVE used_idx % Size # last_used_idx % Size
        BY DEF Typed
      <3>1. FirstReturned = Inc(last_used_idx) /\ InHand = 1
        BY Zenon DEF FirstReturned, InHand
      <3>2. last_used_idx \in Index /\ used_idx \in Index /\ FirstReturned \in Index
        BY FirstIndex, Zenon DEF Typed
      <3>3. NUs = Published /\ NUs + 1 \in 0 .. Size - 1 /\ 0 \in 0 .. Size - 1
        BY <1>4, <3>1, Bounds, Sizes DEF NUs, Unpublished
      <3>4. Slot(FirstReturned, NUs) = used_idx % Size
        BY <3>2, <3>3, SlotFacts, Zenon DEF Published
      <3>5. Slot(FirstReturned, NUs) = Slot(last_used_idx, NUs + 1)
        BY <1>4, <3>1, <3>2, NextSlots, Zenon
      <3>6. Slot(last_used_idx, 0) = last_used_idx % Size
        BY <3>2, SlotFacts, Zenon
      <3>7. NUs + 1 # 0
        BY <1>4
      <3> QED
        BY <3>2, <3>3, <3>4, <3>5, <3>6, <3>7, SlotInjective, Zenon
    <2> QED
      BY <1>1, <2>1, Zenon DEF Local
  <1> QED
    BY <1>1, <1>2, <1>4, <1>5, <1>6, <1>9, <1>10, Zenon

\* The next frame goes to a buffer of the device, and behind the others.
LEMMA FillKeeps ==
  ASSUME RxInv, NEW d \in Descs, NEW n \in FrameLens, NEW len \in Reported(n), DeviceFills(d, n, len)
  PROVE  RxInv'
  <1> USE DEF RxInv
  <1> DEFINE e == [id |-> d, len |-> len]
  <1>1. d \in taken /\ n \in Nat /\ d \in 0 .. Size
    BY RxAssumption DEF DeviceFills, Descs
  <1>2. e \in Elem /\ e.id = d /\ e.len = len
    BY <1>1, RxAssumption DEF Elem, Reported
  <1>3. /\ dev_pc = "idle" /\ used_ring' = [used_ring EXCEPT ![used_idx % Size] = e]
        /\ taken' = taken \ {d} /\ dev_pc' = "filled" /\ arrived' = Inc(arrived)
        /\ UNCHANGED <<driver, used_idx, dev_idx>>
    BY Zenon DEF DeviceFills
  <1> HIDE DEF e
  <1>4. /\ Counted' /\ Distinct' /\ Local'
        /\ NUs' = NUs + 1 /\ NUs \in 0 .. Size
        /\ (\A k : k = NUs => Us(k)' = e)
        /\ (\A k \in 0 .. NUs - 1 : Us(k)' = Us(k))
        /\ UNCHANGED <<pc, elem, done, Base, frame_len>>
    BY <1>1, <1>2, <1>3, UseMoves, Zenon
  <1>5. [num |-> arrived, len |-> n] \in [num : Index, len : Nat]
    BY <1>1, Zenon DEF Typed
  <1>6. buf' = [buf EXCEPT ![d] = [num |-> arrived, len |-> n]]
    BY Zenon DEF DeviceFills
  <1>7. /\ buf'[d].num = arrived /\ buf'[d].len = n
        /\ \A c \in Descs \ {d} : buf'[c] = buf[c]
    BY <1>6, Zenon DEF Typed
  <1>8. Typed'
    <2>1. buf' \in [Descs -> [num : Index, len : Nat]]
      BY <1>5, <1>6, Zenon DEF Typed
    <2>2. used_ring' \in [Descs -> Elem]
      BY <1>2, <1>3, Zenon DEF Typed
    <2> QED
      BY <1>3, <2>1, <2>2, IncIndex, Zenon DEF Typed, driver
  <1>9. \A i \in 0 .. NUs' - 1 : i = NUs \/ i \in 0 .. NUs - 1
    BY <1>4
  <1>10. \A i \in 0 .. NUs - 1 : Us(i) \in Elem /\ Us(i).id # d
    <2>1. \A i \in 0 .. NUs - 1 : i \in 0 .. Size
      BY <1>4, Sizes
    <2> QED
      BY <1>1, <2>1, WindowTypes, Zenon DEF Distinct
  <1>11. \A i \in 0 .. NUs - 1 : Us(i).id < Size => buf'[Us(i).id] = buf[Us(i).id]
    BY <1>7, <1>10, Sizes DEF Elem, Descs
  <1>12. Lengths'
    <2> SUFFICES ASSUME NEW i \in 0 .. NUs' - 1, Us(i)'.id < Size
                 PROVE  Us(i)'.len \in Reported(buf'[Us(i)'.id].len)
      BY Zenon DEF Lengths
    <2>1. CASE i = NUs
      BY <1>2, <1>4, <1>7, <2>1, Zenon
    <2>2. CASE i \in 0 .. NUs - 1
      BY <1>4, <1>11, <2>2, Zenon DEF Lengths
    <2> QED
      BY <1>9, <2>1, <2>2, Zenon
  <1>13. DriverHas => elem.id \in Descs \ {d}
    <2>1. DriverHas => elem.id # d
      BY <1>1, Zenon DEF Distinct
    <2>2. DriverHas => elem.id \in Descs
      BY Sizes DEF DriverHas, Typed, Elem, Descs
    <2> QED
      BY <2>1, <2>2, Zenon
  <1>14. DriverHas => buf'[elem.id] = buf[elem.id]
    BY <1>7, <1>13, Zenon
  <1>15. ElemLength' /\ FramesInOrder'
    BY <1>4, <1>14, Zenon DEF ElemLength, FramesInOrder, DriverHas
  <1>16. FrameLenExact'
    BY <1>4, <1>14, Zenon DEF FrameLenExact, DriverHas, Local
  <1>17. \A i \in 0 .. NUs : Clean(i)' => Clean(i)
    BY <1>4 DEF Clean
  <1>18. Numbered'
    <2>1. Base \in Index /\ arrived \in Index /\ NUs \in 0 .. IndexMod - 2
      BY <1>4, IncIndex, Sizes DEF Base, Typed
    <2>2. ASSUME NEW i \in 0 .. NUs' - 1, Clean(i + 1)' PROVE buf'[Us(i)'.id].num = Step(Base', i)
      <3>1. CASE i = NUs
        <4>1. Clean(NUs)
          BY <1>4, <2>2, <3>1 DEF Clean
        <4>2. arrived = Step(Base, NUs)
          BY <4>1, Zenon DEF Numbered
        <4> QED
          BY <1>2, <1>4, <1>7, <3>1, <4>2, Zenon
      <3>2. CASE i \in 0 .. NUs - 1
        <4>1. i + 1 \in 0 .. NUs
          BY <1>4, <3>2
        <4>2. Clean(i + 1)
          BY <1>17, <2>2, <4>1, Zenon
        <4>3. Us(i).id < Size
          BY <3>2, <4>2 DEF Clean
        <4>4. buf[Us(i).id].num = Step(Base, i)
          BY <3>2, <4>2, Zenon DEF Numbered
        <4> QED
          BY <1>4, <1>11, <3>2, <4>3, <4>4, Zenon
      <3> QED
        BY <1>9, <3>1, <3>2, Zenon
    <2>3. ASSUME Clean(NUs)' PROVE arrived' = Step(Base', NUs')
      <3>1. Clean(NUs)
        BY <1>4, <2>3 DEF Clean
      <3>2. arrived = Step(Base, NUs)
        BY <3>1, Zenon DEF Numbered
      <3>3. Inc(arrived) = Step(Base, NUs + 1)
        BY <2>1, <3>2, StepInc, Zenon
      <3> QED
        BY <1>3, <1>4, <3>3, Zenon
    <2> QED
      BY <2>2, <2>3, Zenon DEF Numbered
  <1> QED
    BY <1>4, <1>8, <1>12, <1>15, <1>16, <1>18, Zenon

\* A bad entry goes behind the others; after it no frame is parsed.
LEMMA ErrKeeps ==
  ASSUME RxInv, NEW d \in Descs, DeviceErrs(d)
  PROVE  RxInv'
  <1> USE DEF RxInv
  <1> DEFINE e == [id |-> Size, len |-> 0]
  <1>1. e \in Elem /\ e.id = Size
    BY Sizes DEF Elem
  <1>2. /\ dev_pc = "idle" /\ used_ring' = [used_ring EXCEPT ![used_idx % Size] = e]
        /\ d \in taken /\ taken' = taken \ {d} /\ dev_pc' = "filled"
        /\ UNCHANGED <<driver, used_idx, dev_idx, buf, arrived>>
    BY Zenon DEF DeviceErrs
  <1> HIDE DEF e
  <1>3. /\ Counted' /\ Distinct' /\ Local'
        /\ NUs' = NUs + 1 /\ NUs \in 0 .. Size
        /\ (\A k : k = NUs => Us(k)' = e)
        /\ (\A k \in 0 .. NUs - 1 : Us(k)' = Us(k))
        /\ UNCHANGED <<pc, elem, done, Base, frame_len>>
    BY <1>1, <1>2, UseMoves, Zenon
  <1>4. Typed'
    <2>1. used_ring' \in [Descs -> Elem]
      BY <1>1, <1>2, Zenon DEF Typed
    <2> QED
      BY <1>2, <2>1, Zenon DEF Typed, driver
  <1>5. \A i \in 0 .. NUs' - 1 : i = NUs \/ i \in 0 .. NUs - 1
    BY <1>3
  <1>6. Lengths'
    BY <1>1, <1>2, <1>3, <1>5, Sizes DEF Lengths
  <1>7. ElemLength' /\ FramesInOrder' /\ FrameLenExact'
    BY <1>2, <1>3, Zenon DEF ElemLength, FramesInOrder, FrameLenExact, DriverHas
  <1>8. \A n : NUs \in 0 .. n - 1 => ~ Clean(n)'
    BY <1>1, <1>3, Sizes DEF Clean
  <1>9. Numbered'
    <2>1. ASSUME NEW i \in 0 .. NUs' - 1, Clean(i + 1)' PROVE buf'[Us(i)'.id].num = Step(Base', i)
      <3>1. i \in 0 .. NUs - 1
        <4>1. i = NUs => NUs \in 0 .. (i + 1) - 1
          BY <1>3, Zenon
        <4> QED
          BY <1>5, <1>8, <2>1, <4>1, Zenon
      <3>2. Clean(i + 1)
        <4>1. \A j \in 0 .. (i + 1) - 1 : j \in 0 .. NUs - 1
          BY <1>3, <3>1
        <4> QED
          BY <1>3, <2>1, <4>1, Zenon DEF Clean
      <3> QED
        BY <1>2, <1>3, <3>1, <3>2, Zenon DEF Numbered
    <2>2. ~ Clean(NUs)'
      <3>1. NUs \in 0 .. NUs' - 1
        BY <1>3
      <3> QED
        BY <1>1, <1>3, <3>1, Sizes DEF Clean
    <2> QED
      BY <2>1, <2>2, Zenon DEF Numbered
  <1> QED
    BY <1>3, <1>4, <1>6, <1>7, <1>9, Zenon

\* used.idx counted up moves nothing, and is not taken for an empty ring.
LEMMA PublishKeeps ==
  ASSUME RxInv, DevicePublishes
  PROVE  RxInv'
  <1> USE DEF RxInv
  <1>1. UNCHANGED <<used_ring, buf, dev_idx, taken, arrived, pc, avail_ring,
                    avail_idx, last_used_idx, elem, frame_len, done>>
    BY Zenon DEF DevicePublishes, driver
  <1>2. NUs' = NUs /\ \A k : Us(k)' = Us(k)
    BY PublishWindow, Zenon
  <1>3. NAv' = NAv /\ \A k : Av(k)' = Av(k)
    BY <1>1, OfferKept, Zenon
  <1>4. InHand' = InHand /\ Base' = Base /\ (DriverHas' <=> DriverHas)
    BY <1>1, Zenon DEF InHand, Base, DriverHas
  <1>5. Typed'
    BY <1>1, IncIndex, Zenon DEF Typed, DevicePublishes
  <1>6. Counted' /\ Distinct'
    BY <1>1, <1>2, <1>3, <1>4, Zenon DEF Counted, Distinct
  <1>7. Lengths'
    BY <1>1, <1>2, Zenon DEF Lengths
  <1>8. Numbered'
    <2>1. \A i : Clean(i)' => Clean(i)
      BY <1>1, <1>2 DEF Clean
    <2> QED
      BY <1>1, <1>2, <1>4, <2>1, Zenon DEF Numbered
  <1>9. Local'
    <2>1. ASSUME pc = "elem" PROVE last_used_idx # used_idx'
      <3>1. FirstReturned = last_used_idx /\ last_used_idx \in Index /\ used_idx \in Index
        BY <2>1, Zenon DEF FirstReturned, Typed
      <3>2. Dist(last_used_idx, used_idx) \in 0 .. Size
        BY <3>1, Bounds, Zenon DEF Published
      <3>3. Dist(last_used_idx, Inc(used_idx)) > 0
        BY <3>1, <3>2, DistFacts, Sizes
      <3>4. Inc(used_idx) # last_used_idx
        BY <3>1, <3>3, IncIndex, DistFacts
      <3> QED
        BY <3>4, Zenon DEF DevicePublishes
    <2> QED
      BY <1>1, <2>1, Zenon DEF Local
  <1>10. ElemLength' /\ FramesInOrder' /\ FrameLenExact'
    BY <1>1, <1>4, Zenon DEF ElemLength, FramesInOrder, FrameLenExact
  <1> QED
    BY <1>5, <1>6, <1>7, <1>8, <1>9, <1>10, Zenon

\* Every step of driver and device keeps the invariant.
LEMMA StepRx == RxInv /\ [Next]_vars => RxInv'
  <1> SUFFICES ASSUME RxInv, [Next]_vars PROVE RxInv'
    OBVIOUS
  <1>1. CASE Poll
    BY <1>1, PollKeeps, Zenon
  <1>2. CASE DriverStep
    BY <1>2, PollKeeps, LoadKeeps, CheckKeeps, ProcessKeeps, RecycleKeeps, OfferKeeps,
       AdvanceKeeps, Zenon DEF DriverStep
  <1>3. CASE DeviceStep
    BY <1>3, TakeKeeps, FillKeeps, ErrKeeps, PublishKeeps, Zenon DEF DeviceStep
  <1>4. CASE UNCHANGED vars
    <2>1. UNCHANGED <<used_ring, used_idx, buf, dev_idx, taken, dev_pc, arrived, pc, avail_ring,
                      avail_idx, last_used_idx, elem, frame_len, done>>
      BY <1>4, Zenon DEF vars, driver, device
    <2>2. UNCHANGED <<FirstReturned, InHand, Base>> /\ (DriverHas' <=> DriverHas)
      BY <2>1, Zenon DEF FirstReturned, InHand, Base, DriverHas
    <2>3. NAv' = NAv /\ (\A k : Av(k)' = Av(k)) /\ NUs' = NUs /\ (\A k : Us(k)' = Us(k))
      BY <2>1, <2>2, OfferKept, ReturnedKept, Zenon
    <2>4. Typed' /\ Local' /\ ElemLength' /\ FramesInOrder' /\ FrameLenExact'
      BY <2>1, <2>2 DEF RxInv, Typed, Local, ElemLength, FramesInOrder, FrameLenExact
    <2>5. Counted' /\ Distinct' /\ Lengths'
      BY <2>1, <2>2, <2>3, Zenon DEF RxInv, Counted, Distinct, Lengths
    <2>6. \A i : Clean(i)' => Clean(i)
      BY <2>1, <2>3, Zenon DEF Clean
    <2>7. Numbered'
      BY <2>1, <2>2, <2>3, <2>6, Zenon DEF RxInv, Numbered
    <2> QED
      BY <2>4, <2>5, <2>7, Zenon DEF RxInv
  <1> QED
    BY <1>1, <1>2, <1>3, <1>4, Zenon DEF Next

\* In every reachable state each descriptor has one place.
LEMMA Reachable == Spec => []RxInv
  BY InitRx, StepRx, PTL DEF Spec

-----------------------------------------------------------------------------
(***************************************************************************)
(* What the driver promises                                                *)
(***************************************************************************)
\* The sets the properties speak of are those of the windows.
LEMMA WindowSets ==
  ASSUME Typed, Counted
  PROVE  /\ OnOffer = {Av(k) : k \in 0 .. NAv - 1}
         /\ Returned = {Us(k).id : k \in 0 .. NUs - 1}
  <1>1. OnOffer = {Av(k) : k \in 0 .. NAv - 1}
    BY Zenon DEF OnOffer, Entries, Av, NAv, Slot, Step, Dist
  <1>2. Dist(FirstReturned, IF dev_pc = "filled" THEN Inc(used_idx) ELSE used_idx) = NUs
    <2>1. FirstReturned \in Index /\ used_idx \in Index
      BY FirstIndex, Zenon DEF Typed
    <2>2. Published \in 0 .. Size
      BY Bounds, Zenon
    <2>3. CASE dev_pc = "filled"
      <3>1. Dist(FirstReturned, Inc(used_idx)) = Published + 1
        BY <2>1, <2>2, DistFacts, Sizes DEF Published
      <3> QED
        BY <2>3, <3>1, Zenon DEF NUs, Unpublished
    <2>4. CASE dev_pc # "filled"
      BY <2>2, <2>4 DEF NUs, Unpublished, Published
    <2> QED
      BY <2>3, <2>4, Zenon
  <1>3. Entries(used_ring, FirstReturned, IF dev_pc = "filled" THEN Inc(used_idx) ELSE used_idx)
          = {Us(k) : k \in 0 .. NUs - 1}
    BY <1>2, Zenon DEF Entries, Us, Slot, Step, Dist
  <1>4. Returned = {Us(k).id : k \in 0 .. NUs - 1}
    BY <1>3, Zenon DEF Returned
  <1> QED
    BY <1>1, <1>4, Zenon

\* As many descriptors are on offer as the indices say.
LEMMA OfferExact ==
  ASSUME RxInv
  PROVE  Cardinality(OnOffer) = NAv
  <1> USE DEF RxInv
  <1>1. NAv \in Nat /\ OnOffer = {Av(k) : k \in 0 .. NAv - 1}
    BY Bounds, WindowSets
  <1> DEFINE f == [k \in 0 .. NAv - 1 |-> Av(k)]
  <1>2. \A i, j \in 0 .. NAv - 1 : Av(i) = Av(j) => i = j
    BY Zenon DEF Distinct
  <1>3. f \in Bijection(0 .. NAv - 1, OnOffer)
    BY <1>1, <1>2, Zenon DEF Bijection, Injection, Surjection, IsInjective
  <1>4. ExistsBijection(0 .. NAv - 1, OnOffer)
    BY <1>3, Zenon DEF ExistsBijection
  <1>5. IsFiniteSet(0 .. NAv - 1) /\ Cardinality(0 .. NAv - 1) = NAv
    BY <1>1, FS_Interval
  <1> QED
    BY <1>4, <1>5, FS_Bijection, Zenon

\* The invariant implies what the runs check.
LEMMA RxConsequences ==
  ASSUME RxInv
  PROVE  RingsExact /\ BufferIsDrivers
  <1> USE DEF RxInv
  <1>1. OnOffer = {Av(k) : k \in 0 .. NAv - 1} /\ Returned = {Us(k).id : k \in 0 .. NUs - 1}
    BY WindowSets, Zenon
  <1>2. BufferIsDrivers
    BY <1>1, Zenon DEF BufferIsDrivers, Distinct
  <1>3. Cardinality(OnOffer) = (avail_idx - dev_idx) % IndexMod
    BY OfferExact, Zenon DEF NAv, Dist
  <1>4. OnOffer \cap taken = {} /\ OnOffer \cap Returned = {} /\ taken \cap Returned = {}
    BY <1>1 DEF Distinct
  <1>5. Dist(last_used_idx, used_idx) <= IF pc = "advance" THEN Size + 1 ELSE Size
    <2>1. last_used_idx \in Index /\ used_idx \in Index /\ Published \in 0 .. Size
          /\ Published + InHand <= Size
      BY Bounds, Sizes DEF Typed, InHand, NUs, Unpublished
    <2>2. CASE FirstReturned = last_used_idx
      BY <2>1, <2>2, Sizes DEF Published
    <2>3. CASE FirstReturned = Inc(last_used_idx)
               /\ pc \in {"check", "process", "recycle", "offer", "advance"}
      <3>1. Dist(last_used_idx, used_idx) = Published + 1
        BY <2>1, <2>3, DistFacts, Sizes DEF Published
      <3>2. pc # "advance" => InHand = 1
        BY <2>3, Zenon DEF InHand
      <3> QED
        BY <2>1, <3>1, <3>2, Sizes
    <2> QED
      BY <2>2, <2>3, Zenon DEF FirstReturned
  <1>6. RingsExact
    BY <1>3, <1>4, <1>5, Zenon DEF RingsExact, Dist
  <1> QED
    BY <1>2, <1>6, Zenon

\* Neither ring is overrun and none holds a descriptor twice, whatever the
\* size of the queue and wherever the indices wrap.
THEOREM RingsAreExact == Spec => []RingsExact
  BY Reachable, RxConsequences, PTL

\* The driver parses a frame only in a buffer that is its own.
THEOREM BufferIsOwn == Spec => []BufferIsDrivers
  BY Reachable, RxConsequences, PTL

\* The frame that is parsed is the one that arrived next.
THEOREM FramesAreInOrder == Spec => []FramesInOrder
  <1>1. RxInv => FramesInOrder
    BY Zenon DEF RxInv
  <1> QED
    BY <1>1, Reachable, PTL

\* The length reported is the length of the frame, up to the caller's limit,
\* if the device counts the header, and is beyond the limit exactly if the
\* device reports less than a header (frame_len = len - sizeof(...)).
THEOREM FrameLengths == Spec => []FrameLenExact
  <1>1. RxInv => FrameLenExact
    BY Zenon DEF RxInv
  <1> QED
    BY <1>1, Reachable, PTL
=============================================================================

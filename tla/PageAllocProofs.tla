-------------------------- MODULE PageAllocProofs --------------------------
(***************************************************************************)
(* Proofs about PageAlloc for every page size, heap layout and set of      *)
(* requests.                                                               *)
(***************************************************************************)
EXTENDS PageAlloc, FiniteSetTheorems, SequenceTheorems, TLAPS

-----------------------------------------------------------------------------
(***************************************************************************)
(* Unlinking.  Unlink names the m-th kept list position as the one of rank *)
(* m; the first lemma says that there is exactly one.                      *)
(***************************************************************************)

\* In a finite set of positions the ranks are exactly 1 .. its size, each
\* taken once.
LEMMA RankBijective ==
  ASSUME NEW N \in Nat, NEW P \in SUBSET (1 .. N)
  PROVE  /\ IsFiniteSet(P)
         /\ Cardinality(P) \in Nat
         /\ \A i \in P : Rank(P, i) \in 1 .. Cardinality(P)
         /\ \A i, j \in P : Rank(P, i) = Rank(P, j) => i = j
         /\ \A m \in 1 .. Cardinality(P) : \E i \in P : Rank(P, i) = m
<1> DEFINE Low(i) == {j \in P : j <= i}
           r == [i \in P |-> Rank(P, i)]
<1>0. P \subseteq Int
  OBVIOUS
<1>1. IsFiniteSet(P) /\ Cardinality(P) \in Nat
  <2>1. IsFiniteSet(1 .. N)
    BY FS_Interval
  <2> QED
    BY <2>1, FS_Subset, FS_CardinalityType, Zenon
<1>2. ASSUME NEW i \in P
      PROVE  /\ IsFiniteSet(Low(i))
             /\ Rank(P, i) = Cardinality(Low(i))
             /\ Rank(P, i) \in 1 .. Cardinality(P)
  <2>1. Low(i) \subseteq P /\ i \in Low(i)
    OBVIOUS
  <2>2. IsFiniteSet(Low(i)) /\ Cardinality(Low(i)) <= Cardinality(P)
    BY <1>1, <2>1, FS_Subset, Zenon
  <2>3. Cardinality(Low(i)) \in Nat /\ Cardinality(Low(i)) # 0
    BY <2>1, <2>2, FS_CardinalityType, FS_EmptySet, Zenon
  <2> QED
    BY <1>1, <2>2, <2>3 DEF Rank
<1>3. ASSUME NEW i \in P, NEW j \in P, i < j
      PROVE  Rank(P, i) < Rank(P, j)
  <2>0. i \in Int /\ j \in Int
    BY <1>0, Zenon
  <2>1. Low(i) \subseteq Low(j) /\ j \in Low(j) /\ j \notin Low(i)
    <3>1. \A k \in Low(i) : k \in P /\ k \in Int /\ k <= i
      BY <1>0, Zenon
    <3>2. \A k \in Low(i) : k <= j
      BY <2>0, <3>1, <1>3
    <3>3. j <= j /\ ~ (j <= i)
      BY <2>0, <1>3
    <3> QED
      BY <3>1, <3>2, <3>3, Zenon
  <2>2. Cardinality(Low(i)) <= Cardinality(Low(j)) /\ Cardinality(Low(i)) # Cardinality(Low(j))
    BY <2>1, <1>2, FS_Subset, Zenon
  <2> QED
    BY <2>2, <1>1, <1>2
<1>4. \A i, j \in P : Rank(P, i) = Rank(P, j) => i = j
  <2> SUFFICES ASSUME NEW i \in P, NEW j \in P, i # j
               PROVE  Rank(P, i) # Rank(P, j)
    OBVIOUS
  <2>1. i < j \/ j < i
    BY <1>0
  <2>2. Rank(P, i) \in Int /\ Rank(P, j) \in Int
    <3>1. \A k \in P : Rank(P, k) \in 1 .. Cardinality(P)
      BY <1>2, Zenon
    <3> QED
      BY <3>1
  <2>3. Rank(P, i) < Rank(P, j) \/ Rank(P, j) < Rank(P, i)
    BY <2>1, <1>3, Zenon
  <2> QED
    BY <2>2, <2>3
<1>5. r \in Injection(P, 1 .. Cardinality(P))
  BY <1>2, <1>4, Zenon DEF Injection, IsInjective
<1>6. IsFiniteSet(1 .. Cardinality(P)) /\ Cardinality(1 .. Cardinality(P)) = Cardinality(P)
  BY <1>1, FS_Interval
<1>7. r \in Surjection(P, 1 .. Cardinality(P))
  BY <1>5, <1>6, FS_Injection, Zenon
<1>8. \A m \in 1 .. Cardinality(P) : \E i \in P : Rank(P, i) = m
  BY <1>7, Zenon DEF Surjection
<1> QED
  BY <1>1, <1>2, <1>4, <1>8, Zenon

\* Unlinking R keeps exactly the elements outside R, and a list without
\* repetitions stays one.
LEMMA UnlinkKeeps ==
  ASSUME NEW S, NEW s \in Seq(S), NEW R
  PROVE  LET u == Unlink(s, R) IN
         /\ u \in Seq(S)
         /\ Len(u) = Cardinality(Outside(s, R))
         /\ {u[m] : m \in 1 .. Len(u)} = {s[i] : i \in 1 .. Len(s)} \ R
         /\ (\A i, j \in 1 .. Len(s) : s[i] = s[j] => i = j)
              => (\A l, m \in 1 .. Len(u) : u[l] = u[m] => l = m)
<1> DEFINE keep == Outside(s, R)
           c == Cardinality(keep)
           pos(m) == CHOOSE i \in keep : Rank(keep, i) = m
           u == Unlink(s, R)
<1>1. Len(s) \in Nat /\ keep \in SUBSET (1 .. Len(s))
  BY DEF Outside
<1>2. /\ c \in Nat
      /\ \A i \in keep : Rank(keep, i) \in 1 .. c
      /\ \A i, j \in keep : Rank(keep, i) = Rank(keep, j) => i = j
      /\ \A m \in 1 .. c : \E i \in keep : Rank(keep, i) = m
  <2> HIDE DEF keep
  <2> QED
    BY <1>1, RankBijective, Zenon
<1>3. u = [m \in 1 .. c |-> s[pos(m)]]
  BY Zenon DEF Unlink
<1>4. \A m \in 1 .. c : pos(m) \in keep /\ Rank(keep, pos(m)) = m
  <2> HIDE DEF keep
  <2> QED
    BY <1>2, Zenon
<1>5. \A i \in keep : s[i] \in S /\ s[i] \notin R
  BY DEF Outside, Inside
<1> HIDE DEF keep, c, u
<1>6. u \in Seq(S) /\ Len(u) = c
  <2>1. \A m \in 1 .. c : s[pos(m)] \in S
    BY <1>4, <1>5, Zenon
  <2> HIDE DEF pos
  <2>2. u \in [1 .. c -> S]
    BY <1>3, <2>1, Zenon
  <2> QED
    BY <1>2, <2>2
<1>7. \A m \in 1 .. c : u[m] = s[pos(m)]
  BY <1>3, Zenon
<1> HIDE DEF pos
<1>8. {u[m] : m \in 1 .. Len(u)} = {s[i] : i \in 1 .. Len(s)} \ R
  <2>1. ASSUME NEW m \in 1 .. c
        PROVE  u[m] \in {s[i] : i \in 1 .. Len(s)} \ R
    BY <1>1, <1>4, <1>5, <1>7, Zenon
  <2>2. ASSUME NEW i \in 1 .. Len(s), s[i] \notin R
        PROVE  \E m \in 1 .. c : s[i] = u[m]
    <3>1. i \in keep
      BY <2>2, Zenon DEF keep, Outside, Inside
    <3>2. Rank(keep, i) \in 1 .. c /\ pos(Rank(keep, i)) = i
      BY <3>1, <1>2, <1>4, Zenon
    <3> QED
      BY <3>2, <1>7, Zenon
  <2> QED
    BY <1>6, <2>1, <2>2
<1>9. ASSUME \A i, j \in 1 .. Len(s) : s[i] = s[j] => i = j,
             NEW l \in 1 .. c, NEW m \in 1 .. c, u[l] = u[m]
      PROVE  l = m
  <2>1. pos(l) = pos(m)
    BY <1>1, <1>4, <1>7, <1>9, Zenon
  <2> QED
    BY <2>1, <1>4, Zenon
<1> QED
  BY <1>6, <1>8, <1>9, Zenon DEF c, keep, u

\* How many positions are left.
LEMMA OutsideCount ==
  ASSUME NEW S, NEW s \in Seq(S), NEW R
  PROVE  /\ Cardinality(Inside(s, R)) \in Nat
         /\ Cardinality(Outside(s, R)) = Len(s) - Cardinality(Inside(s, R))
<1>1. Len(s) \in Nat /\ Inside(s, R) \in SUBSET (1 .. Len(s))
  BY DEF Inside
<1>2. IsFiniteSet(1 .. Len(s)) /\ Cardinality(1 .. Len(s)) = Len(s)
  <2>1. \A k \in Nat : IsFiniteSet(1 .. k) /\ Cardinality(1 .. k) = k
    BY FS_Interval
  <2> QED
    BY <1>1, <2>1, Zenon
<1>3. IsFiniteSet(Inside(s, R)) /\ Cardinality(Inside(s, R)) \in Nat
  BY <1>1, <1>2, FS_Subset, FS_CardinalityType, Zenon
<1>4. (1 .. Len(s)) \cap Inside(s, R) = Inside(s, R)
  BY <1>1, Zenon
<1>5. Cardinality((1 .. Len(s)) \ Inside(s, R))
        = Cardinality(1 .. Len(s)) - Cardinality((1 .. Len(s)) \cap Inside(s, R))
  BY <1>2, <1>3, FS_Difference, Zenon
<1> QED
  BY <1>2, <1>3, <1>4, <1>5, Zenon DEF Outside

\* A run of n frames has n elements.
LEMMA RunSize ==
  ASSUME NEW f \in Int, NEW n \in Nat
  PROVE  IsFiniteSet(Run(f, n)) /\ Cardinality(Run(f, n)) = n
<1>1. f + n - 1 \in Int
  OBVIOUS
<1>2. IsFiniteSet(f .. (f + n - 1))
      /\ Cardinality(f .. (f + n - 1)) = IF f > f + n - 1 THEN 0 ELSE (f + n - 1) - f + 1
  BY <1>1, FS_Interval, Zenon
<1> QED
  BY <1>2 DEF Run

\* The scan of mem_alloc counts list nodes inside the run; in a list without
\* repetitions the count is n exactly when the whole run is on the list.
LEMMA CountFindsRun ==
  ASSUME NEW s \in Seq(Int), NEW f \in Int, NEW n \in Nat,
         \A i, j \in 1 .. Len(s) : s[i] = s[j] => i = j
  PROVE  Cardinality(Inside(s, Run(f, n))) = n
           <=> Run(f, n) \subseteq {s[i] : i \in 1 .. Len(s)}
<1> DEFINE R == Run(f, n)
           In == Inside(s, R)
           g == [i \in In |-> s[i]]
<1>1. IsFiniteSet(R) /\ Cardinality(R) = n
  BY RunSize, Zenon
<1>2. In \subseteq 1 .. Len(s) /\ \A i \in In : s[i] \in R
  BY Zenon DEF Inside
<1> HIDE DEF R, In
<1>3. g \in Injection(In, R)
  BY <1>2, Zenon DEF Injection, IsInjective
<1> HIDE DEF g
<1>4. Cardinality(In) = Cardinality(R) <=> g \in Surjection(In, R)
  BY <1>1, <1>3, FS_Injection, Zenon
<1> USE DEF g
<1>5. g \in Surjection(In, R) <=> \A t \in R : \E i \in In : s[i] = t
  BY <1>2, Zenon DEF Surjection
<1>6. (\A t \in R : \E i \in In : s[i] = t) <=> R \subseteq {s[i] : i \in 1 .. Len(s)}
  <2>1. \A i \in 1 .. Len(s) : s[i] \in R => i \in In
    BY Zenon DEF R, In, Inside
  <2> QED
    BY <1>2, <2>1
<1> QED
  BY <1>1, <1>4, <1>5, <1>6, Zenon DEF R, In

-----------------------------------------------------------------------------
(***************************************************************************)
(* The invariant.  The three properties are inductive together: the count  *)
(* keeps AllocOne from taking the head of an empty list, and the partition *)
(* keeps a frame that is freed from being on the list already.             *)
(***************************************************************************)
Inv == TypeOK /\ HeapPartition /\ CountExact

\* The bounds of the heap, and so its frames, are integers (page_allocator_init).
LEMMA LayoutInt == heap_start \in Int /\ heap_end \in Int /\ HeapFrames \subseteq Int
<1>1. \A x \in Int : x \div PageSize \in Int
  BY PageSizeAssumption
<1>2. virt_to_phys(HeapSym) \in Int /\ virt_to_phys(StackLimit) \in Int
  BY LayoutAssumption DEF virt_to_phys
<1>3. heap_start \in Int
  BY <1>1, <1>2, PageSizeAssumption DEF heap_start
<1>4. heap_end \in Int
  <2>1. heap_start * PageSize + MaxHeap \in Int
    BY <1>3, PageSizeAssumption, LayoutAssumption
  <2> QED
    BY <1>1, <1>2, <2>1, Zenon DEF heap_end
<1> QED
  BY <1>3, <1>4 DEF HeapFrames

\* A list of heap frames is a list of integers.
LEMMA SeqOfInts == ASSUME NEW s \in Seq(HeapFrames) PROVE s \in Seq(Int)
<1>1. Len(s) \in Nat /\ s \in [1 .. Len(s) -> HeapFrames]
  OBVIOUS
<1>2. s \in [1 .. Len(s) -> Int]
  BY <1>1, LayoutInt, Zenon
<1> QED
  BY <1>1, <1>2

\* The number of pages mem_alloc computes for a size is a natural number.
LEMMA PagesForNat == \A size \in Sizes : PagesFor(size) \in Nat
  BY PageSizeAssumption, ArgsAssumption DEF PagesFor

\* page_allocator_init establishes the invariant: it links every frame once.
LEMMA InitInv == Init => Inv
<1> SUFFICES ASSUME Init PROVE Inv
  OBVIOUS
<1> DEFINE frames == IF heap_end > heap_start THEN heap_end - heap_start ELSE 0
<1>1. frames \in Nat /\ heap_start \in Int /\ heap_end \in Int
  BY LayoutInt
<1>2. /\ free_list = [i \in 1 .. frames |-> heap_start + i - 1]
      /\ free_page_count = frames
      /\ held = {} /\ ret = NullRet(0)
  BY Zenon DEF Init, page_allocator_init
<1>3. \A i \in 1 .. frames : heap_start + i - 1 \in HeapFrames
  BY <1>1 DEF HeapFrames
<1>4. \A f \in HeapFrames : f - heap_start + 1 \in 1 .. frames
                            /\ heap_start + (f - heap_start + 1) - 1 = f
  BY <1>1 DEF HeapFrames
<1> HIDE DEF frames
<1>5. free_list \in Seq(HeapFrames) /\ Len(free_list) = frames
      /\ \A i \in 1 .. frames : free_list[i] = heap_start + i - 1
  <2>1. free_list \in [1 .. frames -> HeapFrames]
    BY <1>2, <1>3, Zenon
  <2>2. free_list \in Seq(HeapFrames) /\ Len(free_list) = frames
    BY <1>1, <2>1
  <2> QED
    BY <1>2, <2>2, Zenon
<1>6. TypeOK
  BY <1>1, <1>2, <1>5 DEF TypeOK, NullRet
<1>7. Listed = HeapFrames
  BY <1>3, <1>4, <1>5 DEF Listed
<1>8. \A i, j \in 1 .. frames : heap_start + i - 1 = heap_start + j - 1 => i = j
  BY <1>1
<1> QED
  BY <1>2, <1>5, <1>6, <1>7, <1>8, Zenon DEF Inv, HeapPartition, CountExact

\* The free list with the run of AllocRun unlinked.
LEMMA AllocRunList ==
  ASSUME Inv, NEW n \in Nat, NEW i \in 1 .. Len(free_list), StartsRun(i, n)
  PROVE  LET R == Run(free_list[i], n)
             u == Unlink(free_list, R)
         IN  /\ R \subseteq Listed
             /\ u \in Seq(HeapFrames)
             /\ Len(u) = Len(free_list) - n
             /\ {u[m] : m \in 1 .. Len(u)} = Listed \ R
             /\ \A l, m \in 1 .. Len(u) : u[l] = u[m] => l = m
<1> DEFINE R == Run(free_list[i], n)
<1>1. free_list \in Seq(HeapFrames) /\ free_list \in Seq(Int) /\ free_list[i] \in Int
  <2>1. free_list \in Seq(HeapFrames)
    BY Zenon DEF Inv, TypeOK
  <2>2. free_list \in Seq(Int)
    BY <2>1, SeqOfInts, Zenon
  <2> QED
    BY <2>1, <2>2
<1>2. \A j, k \in 1 .. Len(free_list) : free_list[j] = free_list[k] => j = k
  BY Zenon DEF Inv, HeapPartition
<1>3. Cardinality(Inside(free_list, R)) = n
  BY Zenon DEF StartsRun
<1>4. R \subseteq Listed
  BY <1>1, <1>2, <1>3, CountFindsRun, Zenon DEF Listed
<1>5. Len(Unlink(free_list, R)) = Len(free_list) - n
  BY <1>1, <1>3, UnlinkKeeps, OutsideCount
<1> HIDE DEF R
<1> DEFINE u == Unlink(free_list, R)
<1>6. /\ u \in Seq(HeapFrames)
      /\ {u[m] : m \in 1 .. Len(u)}
           = {free_list[k] : k \in 1 .. Len(free_list)} \ R
      /\ \A l, m \in 1 .. Len(u) : u[l] = u[m] => l = m
  <2>1. LET v == Unlink(free_list, R) IN
        /\ v \in Seq(HeapFrames)
        /\ Len(v) = Cardinality(Outside(free_list, R))
        /\ {v[m] : m \in 1 .. Len(v)} = {free_list[k] : k \in 1 .. Len(free_list)} \ R
        /\ (\A j, k \in 1 .. Len(free_list) : free_list[j] = free_list[k] => j = k)
             => (\A l, m \in 1 .. Len(v) : v[l] = v[m] => l = m)
    BY <1>1, UnlinkKeeps, Zenon
  <2> QED
    BY <2>1, <1>2, Zenon
<1> QED
  BY <1>4, <1>5, <1>6, Zenon DEF R, Listed

\* What the invariant says, spelled out for the provers.
LEMMA InvFacts ==
  ASSUME Inv
  PROVE  /\ free_list \in Seq(HeapFrames) /\ Len(free_list) \in Nat
         /\ free_page_count = Len(free_list)
         /\ held \subseteq HeapFrames /\ HeapFrames \subseteq Int
         /\ ret \in [ok : BOOLEAN, frame : Int, count : Int]
         /\ Listed \cup held = HeapFrames /\ Listed \cap held = {}
         /\ \A j, k \in 1 .. Len(free_list) : free_list[j] = free_list[k] => j = k
  BY LayoutInt, Zenon DEF Inv, TypeOK, HeapPartition, CountExact

\* Taking the head of a list without repetitions removes its frame.
LEMMA TailKeeps ==
  ASSUME NEW S, NEW s \in Seq(S), s # <<>>,
         \A i, j \in 1 .. Len(s) : s[i] = s[j] => i = j
  PROVE  LET t == Tail(s) IN
         /\ Head(s) \in {s[i] : i \in 1 .. Len(s)}
         /\ t \in Seq(S) /\ Len(t) = Len(s) - 1
         /\ {t[m] : m \in 1 .. Len(t)} = {s[i] : i \in 1 .. Len(s)} \ {Head(s)}
         /\ \A l, m \in 1 .. Len(t) : t[l] = t[m] => l = m
<1> DEFINE t == Tail(s)
<1>1. Len(s) \in Nat /\ Len(s) >= 1 /\ Head(s) = s[1]
  OBVIOUS
<1>2. t \in Seq(S) /\ Len(t) = Len(s) - 1 /\ \A m \in 1 .. Len(t) : t[m] = s[m + 1]
  OBVIOUS
<1> HIDE DEF t
<1>3. \A m \in 1 .. Len(t) : m + 1 \in 1 .. Len(s) /\ m + 1 # 1
  BY <1>1, <1>2
<1>4. \A i \in 1 .. Len(s) : i # 1 => i - 1 \in 1 .. Len(t) /\ t[i - 1] = s[i]
  BY <1>1, <1>2
<1>5. 1 \in 1 .. Len(s)
  BY <1>1
<1>6. {t[m] : m \in 1 .. Len(t)} = {s[i] : i \in 1 .. Len(s)} \ {Head(s)}
  <2>1. ASSUME NEW m \in 1 .. Len(t)
        PROVE  t[m] \in {s[i] : i \in 1 .. Len(s)} \ {Head(s)}
    BY <1>1, <1>2, <1>3, <1>5, Zenon
  <2>2. ASSUME NEW i \in 1 .. Len(s), s[i] # Head(s)
        PROVE  \E m \in 1 .. Len(t) : t[m] = s[i]
    BY <1>1, <1>4, <2>2, Zenon
  <2> QED
    BY <2>1, <2>2
<1>7. \A l, m \in 1 .. Len(t) : t[l] = t[m] => l = m
  <2> TAKE l, m \in 1 .. Len(t)
  <2> HAVE t[l] = t[m]
  <2>1. l + 1 = m + 1
    BY <1>2, <1>3
  <2> QED
    BY <2>1, <1>2
<1> QED
  BY <1>1, <1>2, <1>5, <1>6, <1>7, Zenon DEF t

\* Pushing a frame that is not on the list.
LEMMA PushKeeps ==
  ASSUME NEW S, NEW s \in Seq(S), NEW f \in S,
         f \notin {s[i] : i \in 1 .. Len(s)},
         \A i, j \in 1 .. Len(s) : s[i] = s[j] => i = j
  PROVE  LET p == <<f>> \o s IN
         /\ p \in Seq(S) /\ Len(p) = Len(s) + 1
         /\ {p[m] : m \in 1 .. Len(p)} = {s[i] : i \in 1 .. Len(s)} \cup {f}
         /\ \A l, m \in 1 .. Len(p) : p[l] = p[m] => l = m
<1> DEFINE p == <<f>> \o s
<1>1. Len(s) \in Nat
  OBVIOUS
<1>2. p \in Seq(S) /\ Len(p) = Len(s) + 1
      /\ \A m \in 1 .. Len(p) : p[m] = IF m = 1 THEN f ELSE s[m - 1]
  OBVIOUS
<1> HIDE DEF p
<1>3. \A i \in 1 .. Len(s) : i + 1 \in 1 .. Len(p) /\ p[i + 1] = s[i]
  BY <1>1, <1>2
<1>4. \A m \in 1 .. Len(p) : m # 1 => m - 1 \in 1 .. Len(s) /\ p[m] = s[m - 1]
  BY <1>1, <1>2
<1>5. 1 \in 1 .. Len(p) /\ p[1] = f
  BY <1>1, <1>2
<1>6. {p[m] : m \in 1 .. Len(p)} = {s[i] : i \in 1 .. Len(s)} \cup {f}
  <2>1. ASSUME NEW m \in 1 .. Len(p)
        PROVE  p[m] \in {s[i] : i \in 1 .. Len(s)} \cup {f}
    BY <1>4, <1>5
  <2> QED
    BY <2>1, <1>3, <1>5
<1>7. \A l, m \in 1 .. Len(p) : p[l] = p[m] => l = m
  <2> TAKE l, m \in 1 .. Len(p)
  <2> HAVE p[l] = p[m]
  <2>1. CASE l = 1 \/ m = 1
    BY <2>1, <1>4, <1>5
  <2>2. CASE l # 1 /\ m # 1
    <3>1. l - 1 = m - 1
      BY <2>2, <1>4, Zenon
    <3> QED
      BY <3>1, <1>2
  <2> QED
    BY <2>1, <2>2, Zenon
<1> QED
  BY <1>2, <1>6, <1>7, Zenon DEF p

-----------------------------------------------------------------------------
(***************************************************************************)
(* One lemma per operation that changes the list: the invariant holds      *)
(* again, and the step is one of the abstract heap.                        *)
(***************************************************************************)

\* mem_alloc of one page.
LEMMA AllocOneStep ==
  ASSUME Inv, NEW size \in Sizes, AllocOne(size)
  PROVE  Inv' /\ Heap!Take(1)
<1> DEFINE f == Head(free_list)
<1>1. free_list # <<>>
  BY InvFacts DEF AllocOne
<1>2. /\ f \in Listed
      /\ free_list' \in Seq(HeapFrames)
      /\ Len(free_list') = Len(free_list) - 1
      /\ Listed' = Listed \ {f}
      /\ \A l, m \in 1 .. Len(free_list') : free_list'[l] = free_list'[m] => l = m
  <2>1. free_list \in Seq(HeapFrames)
        /\ \A j, k \in 1 .. Len(free_list) : free_list[j] = free_list[k] => j = k
    BY InvFacts, Zenon
  <2>2. LET t == Tail(free_list) IN
        /\ Head(free_list) \in {free_list[k] : k \in 1 .. Len(free_list)}
        /\ t \in Seq(HeapFrames) /\ Len(t) = Len(free_list) - 1
        /\ {t[m] : m \in 1 .. Len(t)}
             = {free_list[k] : k \in 1 .. Len(free_list)} \ {Head(free_list)}
        /\ \A l, m \in 1 .. Len(t) : t[l] = t[m] => l = m
    BY <1>1, <2>1, TailKeeps, Zenon
  <2>3. free_list' = Tail(free_list)
    BY Zenon DEF AllocOne
  <2> QED
    BY <2>2, <2>3, ZenonT(40) DEF Listed
<1>3. /\ free_page_count' = Len(free_list')
      /\ free_page_count' \in Nat
      /\ held' = held \cup {f}
      /\ ret' = RunRet(f, 1)
  BY <1>2, InvFacts DEF AllocOne
<1>4. f \in HeapFrames /\ f \in Int
  BY <1>2, InvFacts, Zenon
<1>5. TypeOK'
  BY <1>2, <1>3, <1>4, InvFacts DEF TypeOK, RunRet
<1>6. HeapPartition'
  BY <1>2, <1>3, InvFacts DEF HeapPartition
<1>7. Run(f, 1) = {f}
  BY <1>4 DEF Run
<1>8. Heap!Take(1)
  BY <1>2, <1>3, <1>7, Zenon DEF Heap!Take, Heap!Run, Heap!RunRet, Run, RunRet
<1> QED
  BY <1>3, <1>5, <1>6, <1>8, Zenon DEF Inv, CountExact

\* mem_alloc of several pages that finds a run.
LEMMA AllocRunStep ==
  ASSUME Inv, NEW size \in Sizes, AllocRun(size)
  PROVE  Inv' /\ Heap!Take(PagesFor(size))
<1> DEFINE n == PagesFor(size)
<1>1. n \in Nat
  BY PagesForNat, Zenon
<1> HIDE DEF n
<1>2. PICK i \in 1 .. Len(free_list) :
        /\ StartsRun(i, n)
        /\ free_list' = Unlink(free_list, Run(free_list[i], n))
        /\ free_page_count' = free_page_count - n
        /\ held' = held \cup Run(free_list[i], n)
        /\ ret' = RunRet(free_list[i], n)
  BY Zenon DEF AllocRun, n
<1> DEFINE f == free_list[i]
           R == Run(f, n)
<1>3. /\ R \subseteq Listed
      /\ free_list' \in Seq(HeapFrames)
      /\ Len(free_list') = Len(free_list) - n
      /\ Listed' = Listed \ R
      /\ \A l, m \in 1 .. Len(free_list') : free_list'[l] = free_list'[m] => l = m
  <2>1. LET S == Run(free_list[i], n)
            u == Unlink(free_list, S)
        IN  /\ S \subseteq Listed
            /\ u \in Seq(HeapFrames)
            /\ Len(u) = Len(free_list) - n
            /\ {u[m] : m \in 1 .. Len(u)} = Listed \ S
            /\ \A l, m \in 1 .. Len(u) : u[l] = u[m] => l = m
    BY <1>1, <1>2, AllocRunList, Zenon
  <2>2. free_list' = Unlink(free_list, R)
    BY <1>2, Zenon
  <2>3. Listed' = {free_list'[m] : m \in 1 .. Len(free_list')}
    BY Zenon DEF Listed
  <2> QED
    BY <2>1, <2>2, <2>3, Zenon
<1>4. f \in Listed /\ f \in Int
  BY InvFacts, Zenon DEF Listed
<1> HIDE DEF f, R
<1>5. /\ free_page_count' = Len(free_list')
      /\ free_page_count' \in Nat
  BY <1>2, <1>3, InvFacts
<1>6. held' = held \cup R /\ ret' = RunRet(f, n)
  BY <1>2, Zenon DEF f, R
<1>7. TypeOK'
  <2>1. held' \subseteq HeapFrames
    BY <1>3, <1>6, InvFacts, Zenon
  <2>2. ret' \in [ok : BOOLEAN, frame : Int, count : Int]
    BY <1>1, <1>4, <1>6 DEF RunRet
  <2> QED
    BY <1>3, <1>5, <2>1, <2>2, Zenon DEF TypeOK
<1>8. HeapPartition'
  BY <1>3, <1>6, InvFacts, Zenon DEF HeapPartition
<1>9. Heap!Take(n)
  BY <1>3, <1>4, <1>6, Zenon DEF Heap!Take, Heap!Run, Heap!RunRet, R, Run, RunRet
<1> QED
  BY <1>5, <1>7, <1>8, <1>9, Zenon DEF Inv, CountExact, n

\* mem_free of a page of the heap.
LEMMA FreePageStep ==
  ASSUME Inv, NEW addr \in FreeArgs, FreePage(addr)
  PROVE  Inv' /\ \E f \in held : Heap!GiveBack(f)
<1> DEFINE f == FrameOf(addr)
<1>1. f \in held /\ f \in HeapFrames /\ f \notin Listed
  BY InvFacts, Zenon DEF FreePage
<1>2. /\ free_list' = <<f>> \o free_list
      /\ free_page_count' = free_page_count + 1
      /\ held' = held \ {f} /\ ret' = ret
  BY Zenon DEF FreePage
<1> HIDE DEF f
<1>3. /\ free_list' \in Seq(HeapFrames)
      /\ Len(free_list') = Len(free_list) + 1
      /\ Listed' = Listed \cup {f}
      /\ \A l, m \in 1 .. Len(free_list') : free_list'[l] = free_list'[m] => l = m
  <2>1. free_list \in Seq(HeapFrames)
        /\ \A j, k \in 1 .. Len(free_list) : free_list[j] = free_list[k] => j = k
    BY InvFacts
  <2>2. f \notin {free_list[k] : k \in 1 .. Len(free_list)}
    BY <1>1, Zenon DEF Listed
  <2>3. LET p == <<f>> \o free_list IN
        /\ p \in Seq(HeapFrames) /\ Len(p) = Len(free_list) + 1
        /\ {p[m] : m \in 1 .. Len(p)}
             = {free_list[k] : k \in 1 .. Len(free_list)} \cup {f}
        /\ \A l, m \in 1 .. Len(p) : p[l] = p[m] => l = m
    BY <1>1, <2>1, <2>2, PushKeeps, Zenon
  <2>4. Listed' = {free_list'[m] : m \in 1 .. Len(free_list')}
    BY Zenon DEF Listed
  <2>5. Listed = {free_list[k] : k \in 1 .. Len(free_list)}
    BY Zenon DEF Listed
  <2> QED
    BY <1>2, <2>3, <2>4, <2>5, Zenon
<1>4. free_page_count' = Len(free_list') /\ free_page_count' \in Nat
  BY <1>2, <1>3, InvFacts
<1>5. TypeOK'
  BY <1>2, <1>3, <1>4, InvFacts, Zenon DEF TypeOK
<1>6. HeapPartition'
  BY <1>1, <1>2, <1>3, InvFacts DEF HeapPartition
<1>7. Heap!GiveBack(f)
  BY <1>2, <1>3, Zenon DEF Heap!GiveBack
<1> QED
  BY <1>1, <1>4, <1>5, <1>6, <1>7, Zenon DEF Inv, CountExact

\* NULL for more pages than are free, or for no run among those that are.
LEMMA RefuseStep ==
  ASSUME Inv, NEW size \in Sizes, AllocTooMany(size) \/ AllocFragmented(size)
  PROVE  Inv' /\ Heap!Refuse(PagesFor(size))
<1> DEFINE n == PagesFor(size)
<1>1. n \in Nat
  BY PagesForNat, Zenon
<1>2. /\ ret' = NullRet(n)
      /\ UNCHANGED <<free_list, free_page_count, held>>
  BY Zenon DEF AllocTooMany, AllocFragmented
<1> HIDE DEF n
<1>3. Inv' /\ Listed' = Listed
  BY <1>1, <1>2 DEF Inv, TypeOK, HeapPartition, CountExact, Listed, NullRet
<1>4. ASSUME NEW f \in Listed, Run(f, n) \subseteq Listed
      PROVE  FALSE
  <2>1. PICK i \in 1 .. Len(free_list) : f = free_list[i]
    BY Zenon DEF Listed
  <2>2. f \in HeapFrames /\ f \in Int /\ Run(f, n) \subseteq HeapFrames
    BY <1>4, InvFacts, Zenon
  <2>3. free_list \in Seq(Int)
    BY InvFacts, SeqOfInts, Zenon
  <2>4. Cardinality(Inside(free_list, Run(f, n))) = n
    BY <1>1, <1>4, <2>2, <2>3, InvFacts, CountFindsRun, ZenonT(40) DEF Listed
  <2>5. CASE AllocTooMany(size)
    <3>1. n > Len(free_list)
      BY <2>5, InvFacts, Zenon DEF AllocTooMany, n
    <3>2. Cardinality(Outside(free_list, Run(f, n))) = Len(free_list) - n
      BY <2>3, <2>4, OutsideCount, Zenon
    <3>3. Cardinality(Outside(free_list, Run(f, n))) \in Nat
      <4>1. Outside(free_list, Run(f, n)) \in SUBSET (1 .. Len(free_list))
        BY Zenon DEF Outside
      <4> QED
        BY <4>1, InvFacts, RankBijective, Zenon
    <3> QED
      BY <1>1, <3>1, <3>2, <3>3, InvFacts
  <2>6. CASE AllocFragmented(size)
    <3>1. f + n <= heap_end
      <4>1. heap_start \in Int /\ heap_end \in Int
        BY LayoutInt, Zenon
      <4>2. CASE n = 0
        BY <2>2, <4>1, <4>2 DEF HeapFrames
      <4>3. CASE n # 0
        <5>1. f + n - 1 \in Run(f, n)
          BY <1>1, <2>2, <4>3 DEF Run
        <5> QED
          BY <1>1, <2>2, <4>1, <5>1 DEF HeapFrames
      <4> QED
        BY <4>2, <4>3, Zenon
    <3>2. StartsRun(i, n)
      BY <2>1, <2>4, <3>1, Zenon DEF StartsRun
    <3> QED
      BY <2>6, <3>2, Zenon DEF AllocFragmented, n
  <2> QED
    BY <2>5, <2>6, Zenon
<1>5. Heap!Refuse(n)
  BY <1>2, <1>3, <1>4, Zenon DEF Heap!Refuse, Heap!Run, Heap!NullRet, Run, NullRet
<1> QED
  BY <1>3, <1>5, Zenon DEF n

-----------------------------------------------------------------------------
\* Every step keeps the invariant and is a step of the abstract heap, or none.
LEMMA StepLemma ==
  ASSUME Inv, [Next]_vars
  PROVE  Inv' /\ [Heap!HeapNext]_<<Listed, held, ret>>
<1> DEFINE C == {PagesFor(size) : size \in Sizes}
<1>1. ASSUME UNCHANGED vars
      PROVE  Inv' /\ UNCHANGED <<Listed, held, ret>>
  BY <1>1 DEF vars, Inv, TypeOK, HeapPartition, CountExact, Listed
<1>2. ASSUME NEW size \in Sizes, AllocZero(size)
      PROVE  Inv' /\ Heap!RefuseZero
  BY <1>2 DEF AllocZero, Inv, TypeOK, HeapPartition, CountExact, Listed, NullRet,
              Heap!RefuseZero, Heap!NullRet
<1>3. ASSUME NEW size \in Sizes, AllocTooMany(size) \/ AllocFragmented(size)
      PROVE  Inv' /\ Heap!HeapNext
  BY <1>3, RefuseStep, Zenon DEF Heap!HeapNext
<1>4. ASSUME NEW size \in Sizes, AllocOne(size)
      PROVE  Inv' /\ Heap!HeapNext
  <2>1. PagesFor(size) = 1
    BY <1>4, Zenon DEF AllocOne
  <2> QED
    BY <1>4, <2>1, AllocOneStep, Zenon DEF Heap!HeapNext
<1>5. ASSUME NEW size \in Sizes, AllocRun(size)
      PROVE  Inv' /\ Heap!HeapNext
  BY <1>5, AllocRunStep, Zenon DEF Heap!HeapNext
<1>6. ASSUME NEW addr \in FreeArgs, FreePage(addr)
      PROVE  Inv' /\ Heap!HeapNext
  BY <1>6, FreePageStep, Zenon DEF Heap!HeapNext
<1>7. ASSUME NEW addr \in FreeArgs, FreeIgnored(addr)
      PROVE  UNCHANGED vars
  BY <1>7, Zenon DEF FreeIgnored
<1> QED
  BY <1>1, <1>2, <1>3, <1>4, <1>5, <1>6, <1>7
     DEF Next, mem_alloc, mem_free, Heap!HeapNext

\* TypeOK is an invariant of the allocator (page_allocator_init, mem_alloc,
\* mem_free): the list holds only frames of the heap.
THEOREM TypeCorrect == Spec => []TypeOK
<1>1. Inv => TypeOK
  BY Zenon DEF Inv
<1>2. Inv /\ [Next]_vars => Inv'
  BY StepLemma, Zenon
<1> QED
  BY InitInv, <1>1, <1>2, PTL DEF Spec

\* No frame is ever in two hands, on the list twice, or lost, for every heap
\* size and every sequence of single- and multi-page calls.
THEOREM PartitionHolds == Spec => []HeapPartition
<1>1. Inv => HeapPartition
  BY Zenon DEF Inv
<1>2. Inv /\ [Next]_vars => Inv'
  BY StepLemma
<1> QED
  BY InitInv, <1>1, <1>2, PTL DEF Spec

\* free_page_count is always the length of the free list, which mem_alloc
\* relies on when it dereferences the head.
THEOREM CountHolds == Spec => []CountExact
<1>1. Inv => CountExact
  BY Zenon DEF Inv
<1>2. Inv /\ [Next]_vars => Inv'
  BY StepLemma
<1> QED
  BY InitInv, <1>1, <1>2, PTL DEF Spec

\* The free-list allocator implements the abstract heap: what mem_alloc
\* returns is a free contiguous run, and NULL means there was none.
THEOREM ImplementsHeap == Spec => HeapContract
<1>1. Init => Heap!HeapInit
  <2> SUFFICES ASSUME Init PROVE Heap!HeapInit
    OBVIOUS
  <2>1. held = {} /\ ret = NullRet(0)
    BY Zenon DEF Init
  <2>2. Listed = HeapFrames
    BY <2>1, InitInv, InvFacts, Zenon
  <2> QED
    BY <2>1, <2>2, Zenon DEF Heap!HeapInit, Heap!NullRet, NullRet
<1>2. Inv /\ [Next]_vars => Inv' /\ [Heap!HeapNext]_(Heap!heapVars)
  BY StepLemma, Zenon DEF Heap!heapVars
<1> QED
  BY InitInv, <1>1, <1>2, PTL DEF Spec, HeapContract, Heap!HeapSpec
=============================================================================

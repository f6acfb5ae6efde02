------------------------- MODULE IndexedHeapProofs -------------------------
(***************************************************************************)
(* Proofs about FrequentItemsIndexedHeap: map, heap, slots and free list   *)
(* stay consistent, the module implements FrequentItems, and so what       *)
(* FrequentItemsProofs shows of the counters holds of the counters Go      *)
(* keeps, for every map size, set of keys and set of instances.            *)
(***************************************************************************)
EXTENDS FrequentItemsIndexedHeap, SumTheorems, FiniteSetTheorems, TLAPS

-----------------------------------------------------------------------------
(* The order of a heap, as the set of the pairs of positions of which the  *)
(* first has the lesser counter.                                           *)

IsOrder(R, n) ==
  /\ \A a, b \in 1 .. n : ~ (<<a, b>> \in R /\ <<b, a>> \in R)
  /\ \A a, b, c \in 1 .. n : <<a, b>> \notin R /\ <<b, c>> \notin R => <<a, c>> \notin R

(* Only the counter at i may be out of order: less than its parent, but    *)
(* not its children less than that; or its children less than it, but not  *)
(* less than its parent.                                                   *)
OrderedBelow(R, n, i) ==
  /\ \A j \in 2 .. n : j # i => <<j, j \div 2>> \notin R
  /\ \A j \in 2 .. n : j \div 2 = i /\ i > 1 => <<j, i \div 2>> \notin R

OrderedAbove(R, n, i) ==
  /\ \A j \in 2 .. n : j \div 2 # i => <<j, j \div 2>> \notin R
  /\ \A j \in 2 .. n : j \div 2 = i /\ i > 1 => <<j, i \div 2>> \notin R

Exchanged(a, i, j) == IF a = i THEN j ELSE IF a = j THEN i ELSE a

(* Where the parent of a position is.                                      *)
LEMMA Halves ==
  \A j \in Nat : j > 1 => /\ j \div 2 \in Nat /\ 0 < j \div 2 /\ j \div 2 < j
                          /\ 2 * (j \div 2) <= j /\ j <= 2 * (j \div 2) + 1
OBVIOUS

(* A counter less than its parent is exchanged with it: only the place of  *)
(* the parent may now be out of order.                                     *)
LEMMA RaisedOrder ==
  ASSUME NEW n \in Nat, NEW i \in 2 .. n, NEW R, NEW Q,
         IsOrder(R, n), OrderedBelow(R, n, i), <<i, i \div 2>> \in R,
         \A a, b \in 1 .. n :
           <<a, b>> \in Q <=> <<Exchanged(a, i, i \div 2), Exchanged(b, i, i \div 2)>> \in R
  PROVE  OrderedBelow(Q, n, i \div 2)
<1> DEFINE p == i \div 2
<1>1. p \in 1 .. n /\ p < i /\ p \in Int /\ i \in Int /\ n \in Int
  BY Halves
<1>2. \A j \in 2 .. n : j \div 2 \in 1 .. n /\ j \div 2 < j /\ j \in 1 .. n
  BY Halves
<1>3. ASSUME NEW j \in 2 .. n, j # p PROVE <<j, j \div 2>> \notin Q
  <2> DEFINE q == j \div 2
  <2>1. q \in 1 .. n /\ q < j /\ j \in 1 .. n
    BY <1>2
  <2>2. CASE j = i
    <3>1. <<j, q>> \in Q <=> <<p, i>> \in R
      BY <1>1, <2>1, <2>2 DEF Exchanged
    <3> QED BY <1>1, <3>1 DEF IsOrder
  <2>3. CASE j # i /\ q = i
    <3>1. <<j, q>> \in Q <=> <<j, p>> \in R
      BY <1>1, <1>3, <2>1, <2>3 DEF Exchanged
    <3> QED BY <1>1, <2>1, <2>3, <3>1 DEF OrderedBelow
  <2>4. CASE j # i /\ q = p
    <3>1. <<j, q>> \in Q <=> <<j, i>> \in R
      BY <1>1, <1>3, <2>1, <2>4 DEF Exchanged
    <3>2. <<j, p>> \notin R
      BY <2>4 DEF OrderedBelow
    <3>3. <<p, i>> \notin R
      BY <1>1 DEF IsOrder
    <3> QED BY <1>1, <2>1, <3>1, <3>2, <3>3 DEF IsOrder
  <2>5. CASE j # i /\ q # i /\ q # p
    <3>1. <<j, q>> \in Q <=> <<j, q>> \in R
      BY <1>1, <1>3, <2>1, <2>5 DEF Exchanged
    <3> QED BY <2>5, <3>1 DEF OrderedBelow
  <2> QED BY <2>2, <2>3, <2>4, <2>5
<1>4. ASSUME NEW j \in 2 .. n, j \div 2 = p, p > 1 PROVE <<j, p \div 2>> \notin Q
  <2> DEFINE q == p \div 2
  <2>1. q \in 1 .. n /\ q < p /\ p \in 2 .. n /\ j \in 1 .. n /\ j # p
    BY <1>1, <1>2, <1>4
  <2>2. <<p, q>> \notin R
    BY <1>1, <2>1 DEF OrderedBelow
  <2>3. CASE j = i
    <3>1. <<j, q>> \in Q <=> <<p, q>> \in R
      BY <1>1, <2>1, <2>3 DEF Exchanged
    <3> QED BY <2>2, <3>1
  <2>4. CASE j # i
    <3>1. <<j, q>> \in Q <=> <<j, q>> \in R
      BY <1>1, <2>1, <2>4 DEF Exchanged
    <3>2. <<j, p>> \notin R
      BY <1>4, <2>4 DEF OrderedBelow
    <3> QED BY <1>1, <2>1, <2>2, <3>1, <3>2 DEF IsOrder
  <2> QED BY <2>3, <2>4
<1> QED BY <1>3, <1>4 DEF OrderedBelow

(* A counter exchanged with the lesser child: only the place of that child *)
(* may now be out of order.                                                *)
LEMMA LoweredOrder ==
  ASSUME NEW n \in Nat, NEW i \in 1 .. n, NEW R, NEW Q, NEW c \in 2 .. n,
         IsOrder(R, n), OrderedAbove(R, n, i), <<c, i>> \in R, c \div 2 = i,
         \A j \in 2 .. n : j \div 2 = i => <<j, c>> \notin R,
         \A a, b \in 1 .. n :
           <<a, b>> \in Q <=> <<Exchanged(a, i, c), Exchanged(b, i, c)>> \in R
  PROVE  OrderedAbove(Q, n, c)
<1>1. c \in 1 .. n /\ i < c /\ c \in Int /\ i \in Int /\ n \in Int
  BY Halves
<1>2. \A j \in 2 .. n : j \div 2 \in 1 .. n /\ j \div 2 < j /\ j \in 1 .. n
  BY Halves
<1>3. ASSUME NEW j \in 2 .. n, j \div 2 # c PROVE <<j, j \div 2>> \notin Q
  <2> DEFINE q == j \div 2
  <2>1. q \in 1 .. n /\ q < j /\ j \in 1 .. n
    BY <1>2
  <2>2. CASE j = i
    <3>1. <<j, q>> \in Q <=> <<c, q>> \in R
      BY <1>1, <1>3, <2>1, <2>2 DEF Exchanged
    <3>2. i > 1
      BY <2>2
    <3> QED BY <2>2, <3>1, <3>2 DEF OrderedAbove
  <2>3. CASE j = c
    <3>1. <<j, q>> \in Q <=> <<i, c>> \in R
      BY <1>1, <2>1, <2>3 DEF Exchanged
    <3> QED BY <1>1, <3>1 DEF IsOrder
  <2>4. CASE j # c /\ q = i
    <3>1. <<j, q>> \in Q <=> <<j, c>> \in R
      BY <1>1, <2>1, <2>4 DEF Exchanged
    <3> QED BY <2>4, <3>1
  <2>5. CASE j # c /\ j # i /\ q # i
    <3>1. <<j, q>> \in Q <=> <<j, q>> \in R
      BY <1>1, <1>3, <2>1, <2>5 DEF Exchanged
    <3> QED BY <2>5, <3>1 DEF OrderedAbove
  <2> QED BY <2>2, <2>3, <2>4, <2>5
<1>4. ASSUME NEW j \in 2 .. n, j \div 2 = c, c > 1 PROVE <<j, c \div 2>> \notin Q
  <2>1. j \in 1 .. n /\ j # c /\ j # i /\ c < j
    BY <1>1, <1>2, <1>4
  <2>2. <<j, i>> \in Q <=> <<j, c>> \in R
    BY <1>1, <2>1 DEF Exchanged
  <2>3. <<j, c>> \notin R
    BY <1>1, <1>4 DEF OrderedAbove
  <2> QED BY <2>2, <2>3
<1> QED BY <1>3, <1>4 DEF OrderedAbove

(* In an ordered heap nothing is less than the top.                        *)
LEMMA TopIsLeast ==
  ASSUME NEW n \in Nat, NEW R, IsOrder(R, n), \A j \in 2 .. n : <<j, j \div 2>> \notin R
  PROVE  \A j \in 1 .. n : <<j, 1>> \notin R
<1> DEFINE G == {m \in Nat : \A j \in 1 .. n : j <= m => <<j, 1>> \notin R}
<1>1. 0 \in G
  OBVIOUS
<1>2. ASSUME NEW m \in Nat, m \in G PROVE m + 1 \in G
  <2> SUFFICES ASSUME NEW j \in 1 .. n, j = m + 1 PROVE <<j, 1>> \notin R
    BY <1>2
  <2>1. CASE j = 1
    BY <2>1 DEF IsOrder
  <2>2. CASE j # 1
    <3>1. j \in 2 .. n /\ j \div 2 \in 1 .. n /\ j \div 2 <= m /\ 1 \in 1 .. n
      BY <2>2, Halves
    <3>2. <<j \div 2, 1>> \notin R /\ <<j, j \div 2>> \notin R
      BY <1>2, <3>1
    <3> QED BY <3>1, <3>2 DEF IsOrder
  <2> QED BY <2>1, <2>2
<1>3. n \in G
  <2> HIDE DEF G
  <2> QED BY <1>1, <1>2, NatSetInduction
<1>4. \A j \in 1 .. n : j <= n
  OBVIOUS
<1> QED BY <1>3, <1>4, Zenon

-----------------------------------------------------------------------------
(* What an instance holds. *)

Counter == [hash : Nat, estimate : Amounts, heapIndex : Nat]
Maps    == UNION {[S -> Slot] : S \in SUBSET Key}
Fields  == [items : Maps, heap : Seq(Slot), pool : [Slot -> Counter],
            free : Seq(Slot), maxError : Amounts, totalWeight : Amounts]

(* The slots in the heap, each of which knows its place.                   *)
Held(x)   == {x.heap[i] : i \in 1 .. Len(x.heap)}
Placed(x) == \A i \in 1 .. Len(x.heap) : x.pool[x.heap[i]].heapIndex = i

(* The map leads to the slots in the heap, one for each key.               *)
Mapped(x) ==
  /\ \A k \in DOMAIN x.items : x.items[k] \in Held(x) /\ x.pool[x.items[k]].hash = k
  /\ \A slot \in Held(x) : /\ x.pool[slot].hash \in DOMAIN x.items
                           /\ x.items[x.pool[slot].hash] = slot
  /\ Len(x.heap) = Cardinality(DOMAIN x.items)

(* The other slots are free, each of them once.                            *)
Spare(x) ==
  /\ \A i, j \in 1 .. Len(x.free) : x.free[i] = x.free[j] => i = j
  /\ \A slot \in Slot : slot \in Held(x) <=> ~ \E i \in 1 .. Len(x.free) : x.free[i] = slot
  /\ Len(x.heap) + Len(x.free) = MapSize

Sound(x) == x \in Fields /\ Placed(x) /\ Mapped(x) /\ Spare(x) /\ HeapOrdered(x)

Fresh(x) == \A k \in DOMAIN x.items : Estimate(x, k) > x.maxError
Good(x)  == Sound(x) /\ Fresh(x)

(* What sifting leaves alone: y has the counters of x, in another order.   *)
Rearranged(x, y) ==
  /\ y.items = x.items /\ y.free = x.free
  /\ y.maxError = x.maxError /\ y.totalWeight = x.totalWeight
  /\ Len(y.heap) = Len(x.heap) /\ Held(y) = Held(x)
  /\ \A slot \in Slot : /\ y.pool[slot].hash = x.pool[slot].hash
                        /\ y.pool[slot].estimate = x.pool[slot].estimate

Order(x) ==
  {q \in (1 .. Len(x.heap)) \X (1 .. Len(x.heap)) : LessCounter(At(x, q[1]), At(x, q[2]))}

LEMMA AmountsAre == \A n \in Amounts : n \in Nat /\ n \in Int /\ n >= 0 /\ n <= MaxInt
BY MaxIntAssumption DEF Amounts, MaxIntAssumption

LEMMA KeysAre == \A k \in Key : k \in Nat /\ k \in Int
BY KeyAssumption DEF KeyAssumption

(* What the type of the fields says of each of them.                       *)
LEMMA FieldsAre ==
  ASSUME NEW x \in Fields
  PROVE  /\ x.items \in [DOMAIN x.items -> Slot] /\ DOMAIN x.items \subseteq Key
         /\ IsFiniteSet(DOMAIN x.items) /\ Cardinality(DOMAIN x.items) \in Nat
         /\ x.heap \in Seq(Slot) /\ Len(x.heap) \in Nat /\ DOMAIN x.heap = 1 .. Len(x.heap)
         /\ \A i \in 1 .. Len(x.heap) : x.heap[i] \in Slot
         /\ x.free \in Seq(Slot) /\ Len(x.free) \in Nat /\ DOMAIN x.free = 1 .. Len(x.free)
         /\ \A i \in 1 .. Len(x.free) : x.free[i] \in Slot
         /\ x.pool \in [Slot -> Counter]
         /\ \A slot \in Slot : /\ x.pool[slot].hash \in Nat /\ x.pool[slot].heapIndex \in Nat
                               /\ x.pool[slot].estimate \in Amounts
         /\ x.maxError \in Amounts /\ x.totalWeight \in Amounts
<1>1. /\ x.items \in Maps /\ x.heap \in Seq(Slot) /\ x.pool \in [Slot -> Counter]
      /\ x.free \in Seq(Slot) /\ x.maxError \in Amounts /\ x.totalWeight \in Amounts
  BY DEF Fields
<1>2. PICK S \in SUBSET Key : x.items \in [S -> Slot]
  BY <1>1 DEF Maps
<1>3. IsFiniteSet(S)
  BY FS_Subset, KeyAssumption DEF KeyAssumption
<1>4. /\ Len(x.heap) \in Nat /\ DOMAIN x.heap = 1 .. Len(x.heap)
      /\ \A i \in 1 .. Len(x.heap) : x.heap[i] \in Slot
  BY <1>1
<1>5. /\ Len(x.free) \in Nat /\ DOMAIN x.free = 1 .. Len(x.free)
      /\ \A i \in 1 .. Len(x.free) : x.free[i] \in Slot
  BY <1>1
<1>6. \A slot \in Slot : /\ x.pool[slot].hash \in Nat /\ x.pool[slot].heapIndex \in Nat
                         /\ x.pool[slot].estimate \in Amounts
  BY <1>1 DEF Counter
<1> QED BY <1>1, <1>2, <1>3, <1>4, <1>5, <1>6, FS_CardinalityType

(* Counters are compared by numbers.                                       *)
LEMMA OrderIs ==
  ASSUME NEW x \in Fields
  PROVE  /\ IsOrder(Order(x), Len(x.heap))
         /\ \A a, b \in 1 .. Len(x.heap) :
              <<a, b>> \in Order(x) <=> LessCounter(At(x, a), At(x, b))
<1> DEFINE n == Len(x.heap)
           e(a) == At(x, a).estimate
           h(a) == At(x, a).hash
<1>1. \A a \in 1 .. n : e(a) \in Int /\ h(a) \in Int
  BY FieldsAre, AmountsAre DEF At
<1>2. \A a, b \in 1 .. n : <<a, b>> \in Order(x) <=> LessCounter(At(x, a), At(x, b))
  BY DEF Order
<1>3. \A a, b \in 1 .. n : <<a, b>> \in Order(x) <=> e(a) < e(b) \/ (e(a) = e(b) /\ h(a) < h(b))
  BY <1>2 DEF LessCounter
<1> HIDE DEF e, h
<1>4. ASSUME NEW a \in 1 .. n, NEW b \in 1 .. n PROVE ~ (<<a, b>> \in Order(x) /\ <<b, a>> \in Order(x))
  BY <1>1, <1>3
<1>5. ASSUME NEW a \in 1 .. n, NEW b \in 1 .. n, NEW c \in 1 .. n,
             <<a, b>> \notin Order(x), <<b, c>> \notin Order(x)
      PROVE  <<a, c>> \notin Order(x)
  <2>1. e(a) \in Int /\ e(b) \in Int /\ e(c) \in Int /\ h(a) \in Int /\ h(b) \in Int /\ h(c) \in Int
    BY <1>1
  <2>2. ~ (e(a) < e(b) \/ (e(a) = e(b) /\ h(a) < h(b))) /\ ~ (e(b) < e(c) \/ (e(b) = e(c) /\ h(b) < h(c)))
    BY <1>3, <1>5
  <2>3. ~ (e(a) < e(c) \/ (e(a) = e(c) /\ h(a) < h(c)))
    BY <2>1, <2>2
  <2> QED BY <1>3, <2>3
<1> QED BY <1>2, <1>4, <1>5 DEF IsOrder

(* The heap order of the run, in terms of the relation.                    *)
LEMMA OrderedIs ==
  ASSUME NEW x \in Fields
  PROVE  HeapOrdered(x) <=> \A j \in 2 .. Len(x.heap) : <<j, j \div 2>> \notin Order(x)
<1>1. \A j \in 2 .. Len(x.heap) : j \in 1 .. Len(x.heap) /\ j \div 2 \in 1 .. Len(x.heap)
  BY FieldsAre, Halves
<1> QED BY <1>1, OrderIs DEF HeapOrdered

(* The top has the least estimate.                                         *)
LEMMA TopIs ==
  ASSUME NEW x \in Fields, HeapOrdered(x), NEW i \in 1 .. Len(x.heap)
  PROVE  At(x, 1).estimate <= At(x, i).estimate
<1>1. <<i, 1>> \notin Order(x)
  BY TopIsLeast, OrderIs, OrderedIs, FieldsAre
<1>2. 1 \in 1 .. Len(x.heap) /\ At(x, 1).estimate \in Int /\ At(x, i).estimate \in Int
  BY FieldsAre, AmountsAre DEF At
<1> QED BY <1>1, <1>2, OrderIs DEF LessCounter

(* swapHeap.                                                               *)
LEMMA SwapIs ==
  ASSUME NEW x \in Fields, Placed(x), NEW i \in 1 .. Len(x.heap), NEW j \in 1 .. Len(x.heap), i # j
  PROVE  /\ SwapHeap(x, i, j) \in Fields /\ Placed(SwapHeap(x, i, j))
         /\ Rearranged(x, SwapHeap(x, i, j))
         /\ \A a, b \in 1 .. Len(x.heap) :
              <<a, b>> \in Order(SwapHeap(x, i, j))
                <=> <<Exchanged(a, i, j), Exchanged(b, i, j)>> \in Order(x)
<1> DEFINE n == Len(x.heap)
           y == SwapHeap(x, i, j)
           H == [x.heap EXCEPT ![i] = x.heap[j], ![j] = x.heap[i]]
           P == [x.pool EXCEPT ![x.heap[j]].heapIndex = i, ![x.heap[i]].heapIndex = j]
<1>0. /\ n \in Nat /\ x.heap \in [1 .. n -> Slot] /\ x.pool \in [Slot -> Counter]
      /\ x.heap[i] \in Slot /\ x.heap[j] \in Slot /\ x.heap[i] # x.heap[j]
  <2>1. n \in Nat /\ x.heap \in [1 .. n -> Slot] /\ x.pool \in [Slot -> Counter]
    BY FieldsAre
  <2>2. x.heap[i] # x.heap[j]
    BY DEF Placed
  <2> QED BY <2>1, <2>2
<1>1. y = [x EXCEPT !.heap = H, !.pool = P]
  BY DEF SwapHeap
<1>2. H \in Seq(Slot) /\ Len(H) = n
  <2>1. H \in [1 .. n -> Slot]
    BY <1>0
  <2> QED BY <1>0, <2>1
<1>3. /\ P \in [Slot -> Counter]
      /\ \A slot \in Slot : /\ P[slot].hash = x.pool[slot].hash
                            /\ P[slot].estimate = x.pool[slot].estimate
                            /\ P[slot].heapIndex = IF slot = x.heap[i] THEN j
                                                   ELSE IF slot = x.heap[j] THEN i
                                                   ELSE x.pool[slot].heapIndex
  <2> DEFINE Q == [x.pool EXCEPT ![x.heap[j]].heapIndex = i]
             p == x.heap[i]
             q == x.heap[j]
  <2>1. p \in Slot /\ q \in Slot /\ p # q /\ i \in Nat /\ j \in Nat
    BY <1>0
  <2>2. P = [Q EXCEPT ![p] = [@ EXCEPT !.heapIndex = j]]
        /\ Q = [x.pool EXCEPT ![q] = [@ EXCEPT !.heapIndex = i]]
    OBVIOUS
  <2> HIDE DEF P, Q, p, q
  <2>3. /\ Q \in [Slot -> Counter] /\ \A slot \in Slot \ {q} : Q[slot] = x.pool[slot]
        /\ Q[q].hash = x.pool[q].hash /\ Q[q].estimate = x.pool[q].estimate /\ Q[q].heapIndex = i
    BY <1>0, <2>1, <2>2 DEF Counter
  <2>4. /\ P \in [Slot -> Counter] /\ \A slot \in Slot \ {p} : P[slot] = Q[slot]
        /\ P[p].hash = Q[p].hash /\ P[p].estimate = Q[p].estimate /\ P[p].heapIndex = j
    BY <2>1, <2>2, <2>3 DEF Counter
  <2> QED BY <2>1, <2>3, <2>4 DEF p, q
<1>4. \A a \in 1 .. n : H[a] = x.heap[Exchanged(a, i, j)] /\ Exchanged(a, i, j) \in 1 .. n
  BY <1>0 DEF Exchanged
<1> HIDE DEF H, P
<1>5. /\ y.heap = H /\ y.pool = P /\ y.items = x.items /\ y.free = x.free
      /\ y.maxError = x.maxError /\ y.totalWeight = x.totalWeight /\ y \in Fields
  BY <1>1, <1>2, <1>3 DEF Fields
<1> HIDE DEF y
<1>6. Placed(y)
  <2> SUFFICES ASSUME NEW a \in 1 .. n PROVE P[H[a]].heapIndex = a
    BY <1>2, <1>5 DEF Placed
  <2>1. x.pool[x.heap[a]].heapIndex = a /\ x.heap[a] \in Slot
    BY <1>0 DEF Placed
  <2>2. x.pool[x.heap[i]].heapIndex = i /\ x.pool[x.heap[j]].heapIndex = j
    BY DEF Placed
  <2>3. CASE a = i
    BY <1>0, <1>3, <1>4, <2>3 DEF Exchanged
  <2>4. CASE a = j
    BY <1>0, <1>3, <1>4, <2>4 DEF Exchanged
  <2>5. CASE a # i /\ a # j
    <3>1. H[a] = x.heap[a] /\ x.heap[a] # x.heap[i] /\ x.heap[a] # x.heap[j]
      BY <1>4, <2>1, <2>2, <2>5 DEF Exchanged
    <3> QED BY <1>3, <2>1, <3>1
  <2> QED BY <2>3, <2>4, <2>5
<1>7. Held(y) = Held(x)
  <2>1. ASSUME NEW slot \in Held(x) PROVE slot \in Held(y)
    <3>1. PICK a \in 1 .. n : slot = x.heap[a]
      BY DEF Held
    <3>2. Exchanged(a, i, j) \in 1 .. n /\ Exchanged(Exchanged(a, i, j), i, j) = a
      BY DEF Exchanged
    <3>3. slot = H[Exchanged(a, i, j)]
      BY <1>4, <3>1, <3>2
    <3> QED BY <1>2, <1>5, <3>2, <3>3 DEF Held
  <2>2. ASSUME NEW slot \in Held(y) PROVE slot \in Held(x)
    <3>1. PICK a \in 1 .. n : slot = H[a]
      BY <1>2, <1>5 DEF Held
    <3> QED BY <1>4, <3>1 DEF Held
  <2> QED BY <2>1, <2>2
<1>8. Rearranged(x, y)
  BY <1>2, <1>3, <1>5, <1>7 DEF Rearranged
<1>9. ASSUME NEW a \in 1 .. n, NEW b \in 1 .. n
      PROVE  <<a, b>> \in Order(y) <=> <<Exchanged(a, i, j), Exchanged(b, i, j)>> \in Order(x)
  <2> DEFINE c == Exchanged(a, i, j)
             d == Exchanged(b, i, j)
  <2>1. c \in 1 .. n /\ d \in 1 .. n /\ H[a] = x.heap[c] /\ H[b] = x.heap[d]
    BY <1>4
  <2> HIDE DEF c, d
  <2>2. x.heap[c] \in Slot /\ x.heap[d] \in Slot
    BY <1>0, <2>1
  <2>3. /\ At(y, a).hash = At(x, c).hash /\ At(y, a).estimate = At(x, c).estimate
        /\ At(y, b).hash = At(x, d).hash /\ At(y, b).estimate = At(x, d).estimate
    BY <1>3, <1>5, <2>1, <2>2 DEF At
  <2>4. LessCounter(At(y, a), At(y, b)) <=> LessCounter(At(x, c), At(x, d))
    BY <2>3 DEF LessCounter
  <2>5. <<a, b>> \in Order(y) <=> LessCounter(At(y, a), At(y, b))
    BY <1>2, <1>5, OrderIs
  <2>6. <<c, d>> \in Order(x) <=> LessCounter(At(x, c), At(x, d))
    BY <2>1, OrderIs
  <2> QED BY <2>4, <2>5, <2>6 DEF c, d
<1> QED BY <1>5, <1>6, <1>8, <1>9 DEF y

-----------------------------------------------------------------------------
(* The folds, as the sequences of their values. *)

RaiseSteps(f, base, seq) ==
  f[0] = base /\ \A k \in 1 .. Len(seq) : f[k] = Raised(f[k - 1], seq[k])

(* heapUp as the sequence of its turns.                                    *)
LEMMA RaiseFold ==
  ASSUME NEW X, NEW D, NEW seq \in Seq(D), NEW base \in X,
         \A w \in X, d \in D : Raised(w, d) \in X
  PROVE  \E f \in [0 .. Len(seq) -> X] :
           FoldLeft(Raised, base, seq) = f[Len(seq)] /\ RaiseSteps(f, base, seq)
<1> DEFINE n == Len(seq)
           step == [z \in X \X (1 .. n) |-> Raised(z[1], seq[z[2]])]
           IsFold(g) == g = [s \in SUBSET (1 .. n) |->
                               IF s = {} THEN base ELSE Raised(g[s \ {Max(s)}], seq[Max(s)])]
           chosen == CHOOSE g : IsFold(g)
<1>0. n \in Nat /\ DOMAIN seq = 1 .. n /\ \A i \in 1 .. n : seq[i] \in D
  OBVIOUS
<1>1. ASSUME NEW w \in X, NEW i \in 1 .. n
      PROVE  Raised(w, seq[i]) \in X /\ step[<<w, i>>] = Raised(w, seq[i])
  BY <1>0
<1>2. step \in [X \X (1 .. n) -> X]
  BY <1>1
<1> HIDE DEF step
<1>3. ASSUME NEW s \in SUBSET (1 .. n), s # {} PROVE Max(s) \in 1 .. n /\ s \ {Max(s)} \in SUBSET (1 .. n)
  BY <1>0, <1>3, MaxOfPart
<1>4. \E g : IsFold(g)
  <2>1. PICK g \in [SUBSET (1 .. n) -> X] : Folded(g, base, step, n)
    BY <1>0, <1>2, FoldExists
  <2>2. ASSUME NEW s \in SUBSET (1 .. n)
        PROVE  g[s] = IF s = {} THEN base ELSE Raised(g[s \ {Max(s)}], seq[Max(s)])
    BY <1>1, <1>3, <2>1 DEF Folded, Rest
  <2>3. IsFold(g)
    BY <2>2
  <2> QED BY <2>3
<1>5. IsFold(chosen)
  BY <1>4
<1>6. FoldLeft(Raised, base, seq) = chosen[1 .. n]
  BY <1>0 DEF FoldLeft, MapThenFoldSet
<1> HIDE DEF chosen
<1>7. Follows(chosen, X, base, step, n)
  <2>1. chosen[{}] = base
    BY <1>5
  <2>2. ASSUME NEW s \in SUBSET (1 .. n), s # {}, chosen[Rest(s)] \in X
        PROVE  chosen[s] = step[<<chosen[Rest(s)], Max(s)>>]
    BY <1>1, <1>3, <1>5, <2>2 DEF Rest
  <2> QED BY <2>1, <2>2 DEF Follows
<1>8. PICK f \in [0 .. n -> X] : Steps(f, base, step, n) /\ chosen[1 .. n] = f[n]
  <2> HIDE DEF IsFold, n
  <2>1. \E f \in [0 .. n -> X] : Unrolled(f, X, base, step, n)
    BY <1>0, <1>2, FoldSteps
  <2>2. PICK f \in [0 .. n -> X] : Unrolled(f, X, base, step, n)
    BY <2>1
  <2>3. Steps(f, base, step, n) /\ chosen[1 .. n] = f[n]
    BY <1>7, <2>2 DEF Unrolled
  <2> QED BY <2>3
<1>9. ASSUME NEW k \in 1 .. n PROVE f[k] = Raised(f[k - 1], seq[k])
  <2>1. f[k - 1] \in X
    BY <1>0
  <2> QED BY <1>1, <1>8, <2>1 DEF Steps
<1> QED BY <1>6, <1>8, <1>9 DEF Steps, RaiseSteps

LowerSteps(f, base, seq) ==
  f[0] = base /\ \A k \in 1 .. Len(seq) : f[k] = Lowered(f[k - 1], seq[k])

(* heapDown as the sequence of its turns.                                  *)
LEMMA LowerFold ==
  ASSUME NEW X, NEW D, NEW seq \in Seq(D), NEW base \in X,
         \A w \in X, d \in D : Lowered(w, d) \in X
  PROVE  \E f \in [0 .. Len(seq) -> X] :
           FoldLeft(Lowered, base, seq) = f[Len(seq)] /\ LowerSteps(f, base, seq)
<1> DEFINE n == Len(seq)
           step == [z \in X \X (1 .. n) |-> Lowered(z[1], seq[z[2]])]
           IsFold(g) == g = [s \in SUBSET (1 .. n) |->
                               IF s = {} THEN base ELSE Lowered(g[s \ {Max(s)}], seq[Max(s)])]
           chosen == CHOOSE g : IsFold(g)
<1>0. n \in Nat /\ DOMAIN seq = 1 .. n /\ \A i \in 1 .. n : seq[i] \in D
  OBVIOUS
<1>1. ASSUME NEW w \in X, NEW i \in 1 .. n
      PROVE  Lowered(w, seq[i]) \in X /\ step[<<w, i>>] = Lowered(w, seq[i])
  BY <1>0
<1>2. step \in [X \X (1 .. n) -> X]
  BY <1>1
<1> HIDE DEF step
<1>3. ASSUME NEW s \in SUBSET (1 .. n), s # {} PROVE Max(s) \in 1 .. n /\ s \ {Max(s)} \in SUBSET (1 .. n)
  BY <1>0, <1>3, MaxOfPart
<1>4. \E g : IsFold(g)
  <2>1. PICK g \in [SUBSET (1 .. n) -> X] : Folded(g, base, step, n)
    BY <1>0, <1>2, FoldExists
  <2>2. ASSUME NEW s \in SUBSET (1 .. n)
        PROVE  g[s] = IF s = {} THEN base ELSE Lowered(g[s \ {Max(s)}], seq[Max(s)])
    BY <1>1, <1>3, <2>1 DEF Folded, Rest
  <2>3. IsFold(g)
    BY <2>2
  <2> QED BY <2>3
<1>5. IsFold(chosen)
  BY <1>4
<1>6. FoldLeft(Lowered, base, seq) = chosen[1 .. n]
  BY <1>0 DEF FoldLeft, MapThenFoldSet
<1> HIDE DEF chosen
<1>7. Follows(chosen, X, base, step, n)
  <2>1. chosen[{}] = base
    BY <1>5
  <2>2. ASSUME NEW s \in SUBSET (1 .. n), s # {}, chosen[Rest(s)] \in X
        PROVE  chosen[s] = step[<<chosen[Rest(s)], Max(s)>>]
    BY <1>1, <1>3, <1>5, <2>2 DEF Rest
  <2> QED BY <2>1, <2>2 DEF Follows
<1>8. PICK f \in [0 .. n -> X] : Steps(f, base, step, n) /\ chosen[1 .. n] = f[n]
  <2> HIDE DEF IsFold, n
  <2>1. \E f \in [0 .. n -> X] : Unrolled(f, X, base, step, n)
    BY <1>0, <1>2, FoldSteps
  <2>2. PICK f \in [0 .. n -> X] : Unrolled(f, X, base, step, n)
    BY <2>1
  <2>3. Steps(f, base, step, n) /\ chosen[1 .. n] = f[n]
    BY <1>7, <2>2 DEF Unrolled
  <2> QED BY <2>3
<1>9. ASSUME NEW k \in 1 .. n PROVE f[k] = Lowered(f[k - 1], seq[k])
  <2>1. f[k - 1] \in X
    BY <1>0
  <2> QED BY <1>1, <1>8, <2>1 DEF Steps
<1> QED BY <1>6, <1>8, <1>9 DEF Steps, LowerSteps

ExpireSteps(f, base, seq) ==
  f[0] = base /\ \A k \in 1 .. Len(seq) : f[k] = WithoutExpired(f[k - 1], seq[k])

(* removeExpired as the sequence of its turns.                             *)
LEMMA ExpireFold ==
  ASSUME NEW X, NEW D, NEW seq \in Seq(D), NEW base \in X,
         \A w \in X, d \in D : WithoutExpired(w, d) \in X
  PROVE  \E f \in [0 .. Len(seq) -> X] :
           FoldLeft(WithoutExpired, base, seq) = f[Len(seq)] /\ ExpireSteps(f, base, seq)
<1> DEFINE n == Len(seq)
           step == [z \in X \X (1 .. n) |-> WithoutExpired(z[1], seq[z[2]])]
           IsFold(g) == g = [s \in SUBSET (1 .. n) |->
                               IF s = {} THEN base ELSE WithoutExpired(g[s \ {Max(s)}], seq[Max(s)])]
           chosen == CHOOSE g : IsFold(g)
<1>0. n \in Nat /\ DOMAIN seq = 1 .. n /\ \A i \in 1 .. n : seq[i] \in D
  OBVIOUS
<1>1. ASSUME NEW w \in X, NEW i \in 1 .. n
      PROVE  WithoutExpired(w, seq[i]) \in X /\ step[<<w, i>>] = WithoutExpired(w, seq[i])
  BY <1>0
<1>2. step \in [X \X (1 .. n) -> X]
  BY <1>1
<1> HIDE DEF step
<1>3. ASSUME NEW s \in SUBSET (1 .. n), s # {} PROVE Max(s) \in 1 .. n /\ s \ {Max(s)} \in SUBSET (1 .. n)
  BY <1>0, <1>3, MaxOfPart
<1>4. \E g : IsFold(g)
  <2>1. PICK g \in [SUBSET (1 .. n) -> X] : Folded(g, base, step, n)
    BY <1>0, <1>2, FoldExists
  <2>2. ASSUME NEW s \in SUBSET (1 .. n)
        PROVE  g[s] = IF s = {} THEN base ELSE WithoutExpired(g[s \ {Max(s)}], seq[Max(s)])
    BY <1>1, <1>3, <2>1 DEF Folded, Rest
  <2>3. IsFold(g)
    BY <2>2
  <2> QED BY <2>3
<1>5. IsFold(chosen)
  BY <1>4
<1>6. FoldLeft(WithoutExpired, base, seq) = chosen[1 .. n]
  BY <1>0 DEF FoldLeft, MapThenFoldSet
<1> HIDE DEF chosen
<1>7. Follows(chosen, X, base, step, n)
  <2>1. chosen[{}] = base
    BY <1>5
  <2>2. ASSUME NEW s \in SUBSET (1 .. n), s # {}, chosen[Rest(s)] \in X
        PROVE  chosen[s] = step[<<chosen[Rest(s)], Max(s)>>]
    BY <1>1, <1>3, <1>5, <2>2 DEF Rest
  <2> QED BY <2>1, <2>2 DEF Follows
<1>8. PICK f \in [0 .. n -> X] : Steps(f, base, step, n) /\ chosen[1 .. n] = f[n]
  <2> HIDE DEF IsFold, n
  <2>1. \E f \in [0 .. n -> X] : Unrolled(f, X, base, step, n)
    BY <1>0, <1>2, FoldSteps
  <2>2. PICK f \in [0 .. n -> X] : Unrolled(f, X, base, step, n)
    BY <2>1
  <2>3. Steps(f, base, step, n) /\ chosen[1 .. n] = f[n]
    BY <1>7, <2>2 DEF Unrolled
  <2> QED BY <2>3
<1>9. ASSUME NEW k \in 1 .. n PROVE f[k] = WithoutExpired(f[k - 1], seq[k])
  <2>1. f[k - 1] \in X
    BY <1>0
  <2> QED BY <1>1, <1>8, <2>1 DEF Steps
<1> QED BY <1>6, <1>8, <1>9 DEF Steps, ExpireSteps

-----------------------------------------------------------------------------
(* Sifting. *)

LEMMA StaysRearranged ==
  ASSUME NEW x, NEW y, NEW z, Rearranged(x, y), Rearranged(y, z)
  PROVE  Rearranged(x, z)
BY DEF Rearranged

LEMMA RearrangedSelf == ASSUME NEW x PROVE Rearranged(x, x)
BY DEF Rearranged

(* A turn of heapUp.                                                       *)
LEMMA RaisedIs ==
  ASSUME NEW x \in Fields, Placed(x), NEW i \in 1 .. Len(x.heap), NEW slot,
         OrderedBelow(Order(x), Len(x.heap), i)
  PROVE  LET z == Raised(<<x, i>>, slot)
         IN /\ z[1] \in Fields /\ Placed(z[1]) /\ Rearranged(x, z[1]) /\ z[2] \in 1 .. Len(x.heap)
            /\ z = <<z[1], z[2]>>
            /\ OrderedBelow(Order(z[1]), Len(x.heap), z[2])
            /\ (z = <<x, i>> /\ HeapOrdered(x)) \/ z[2] < i
<1> DEFINE n == Len(x.heap)
           p == i \div 2
<1>0. n \in Nat /\ i \in Int
  BY FieldsAre
<1>1. CASE i > 1 /\ LessCounter(At(x, i), At(x, p))
  <2>1. i \in 2 .. n /\ p \in 1 .. n /\ p < i /\ i # p
    BY <1>0, <1>1, Halves
  <2>2. <<i, p>> \in Order(x)
    BY <1>1, <2>1, OrderIs
  <2> DEFINE y == SwapHeap(x, i, p)
  <2>3. /\ y \in Fields /\ Placed(y) /\ Rearranged(x, y)
        /\ \A a, b \in 1 .. n : <<a, b>> \in Order(y) <=> <<Exchanged(a, i, p), Exchanged(b, i, p)>> \in Order(x)
    BY <2>1, SwapIs
  <2>4. Raised(<<x, i>>, slot) = <<y, p>>
    BY <1>1 DEF Raised
  <2> HIDE DEF y
  <2>5. OrderedBelow(Order(y), n, p)
    BY <1>0, <2>1, <2>2, <2>3, OrderIs, RaisedOrder
  <2> QED BY <2>1, <2>3, <2>4, <2>5
<1>2. CASE ~ (i > 1 /\ LessCounter(At(x, i), At(x, p)))
  <2>1. Raised(<<x, i>>, slot) = <<x, i>>
    BY <1>2 DEF Raised
  <2>2. HeapOrdered(x)
    <3> SUFFICES ASSUME NEW j \in 2 .. n PROVE <<j, j \div 2>> \notin Order(x)
      BY OrderedIs
    <3>1. CASE j # i
      BY <3>1 DEF OrderedBelow
    <3>2. CASE j = i
      <4>1. p \in 1 .. n /\ i > 1
        BY <1>0, <3>2, Halves
      <4> QED BY <1>2, <3>2, <4>1, OrderIs
    <3> QED BY <3>1, <3>2
  <2> QED BY <2>1, <2>2, RearrangedSelf
<1> QED BY <1>1, <1>2

(* heapUp: a counter out of order below finds its place.                   *)
LEMMA HeapUpIs ==
  ASSUME NEW x \in Fields, Placed(x), NEW i \in 1 .. Len(x.heap),
         OrderedBelow(Order(x), Len(x.heap), i)
  PROVE  /\ HeapUp(x, i) \in Fields /\ Placed(HeapUp(x, i)) /\ HeapOrdered(HeapUp(x, i))
         /\ Rearranged(x, HeapUp(x, i))
<1> DEFINE n == Len(x.heap)
           X == {w \in Fields \X (1 .. n) : /\ Placed(w[1]) /\ Rearranged(x, w[1])
                                            /\ OrderedBelow(Order(w[1]), n, w[2])}
<1>0. n \in Nat /\ x.heap \in Seq(Slot) /\ i \in Int
  BY FieldsAre
<1>1. <<x, i>> \in X
  BY RearrangedSelf
<1>2. ASSUME NEW w \in X, NEW slot
      PROVE  LET z == Raised(w, slot)
             IN z \in X /\ ((z = w /\ HeapOrdered(w[1])) \/ z[2] < w[2])
  <2> DEFINE y == w[1]
             z == Raised(w, slot)
  <2>1. /\ y \in Fields /\ Placed(y) /\ Rearranged(x, y) /\ w[2] \in 1 .. Len(y.heap) /\ Len(y.heap) = n
        /\ OrderedBelow(Order(y), Len(y.heap), w[2]) /\ w = <<y, w[2]>>
    BY DEF Rearranged
  <2>2. /\ z[1] \in Fields /\ Placed(z[1]) /\ Rearranged(y, z[1]) /\ z[2] \in 1 .. n
        /\ z = <<z[1], z[2]>> /\ OrderedBelow(Order(z[1]), n, z[2])
        /\ (z = <<y, w[2]>> /\ HeapOrdered(y)) \/ z[2] < w[2]
    BY <2>1, RaisedIs
  <2> HIDE DEF z
  <2>3. Rearranged(x, z[1])
    BY <2>1, <2>2, StaysRearranged
  <2>4. z \in X
    BY <2>2, <2>3
  <2> QED BY <2>1, <2>2, <2>4 DEF z
<1> HIDE DEF X
<1>a. \A w \in X, slot \in Slot : Raised(w, slot) \in X
  BY <1>2
<1>3. PICK f \in [0 .. n -> X] :
           FoldLeft(Raised, <<x, i>>, x.heap) = f[n] /\ RaiseSteps(f, <<x, i>>, x.heap)
  <2> DEFINE seq == x.heap
             base == <<x, i>>
  <2>1. seq \in Seq(Slot) /\ base \in X
    BY <1>0, <1>1
  <2> HIDE DEF seq, base
  <2>2. \A w \in X, d \in Slot : Raised(w, d) \in X
    BY <1>a
  <2>3. \E f \in [0 .. Len(seq) -> X] :
           FoldLeft(Raised, base, seq) = f[Len(seq)] /\ RaiseSteps(f, base, seq)
    BY <2>1, <2>2, RaiseFold
  <2> QED BY <2>3 DEF seq, base
<1> DEFINE G == {k \in Nat : k <= n => HeapOrdered(f[k][1]) \/ f[k][2] + k <= i}
<1>4. 0 \in G
  <2>1. f[0][2] = i /\ i + 0 <= i
    BY <1>0, <1>3 DEF RaiseSteps
  <2> QED BY <2>1
<1>5. ASSUME NEW k \in Nat, k \in G PROVE k + 1 \in G
  <2> SUFFICES ASSUME k + 1 <= n PROVE HeapOrdered(f[k + 1][1]) \/ f[k + 1][2] + (k + 1) <= i
    OBVIOUS
  <2>1. k \in 0 .. n /\ k + 1 \in 0 .. n /\ k + 1 \in 1 .. n /\ (k + 1) - 1 = k
    BY <1>0
  <2>2. f[k] \in X /\ f[k + 1] \in X /\ f[k + 1] = Raised(f[k], x.heap[k + 1])
    BY <1>3, <2>1 DEF RaiseSteps
  <2>3. (f[k + 1] = f[k] /\ HeapOrdered(f[k][1])) \/ f[k + 1][2] < f[k][2]
    BY <1>2, <2>2
  <2>4. f[k][2] \in 1 .. n /\ f[k + 1][2] \in 1 .. n
    BY <2>2 DEF X
  <2>5. CASE HeapOrdered(f[k][1])
    <3>1. Raised(f[k], x.heap[k + 1]) = f[k]
      <4> DEFINE y == f[k][1]
                 j == f[k][2]
      <4>1. y \in Fields /\ Len(y.heap) = n /\ j \in 1 .. n
        BY <2>2 DEF X, Rearranged
      <4> HIDE DEF y, j
      <4>2. ~ (j > 1 /\ LessCounter(At(y, j), At(y, j \div 2)))
        BY <2>5, <4>1 DEF HeapOrdered, y
      <4> QED BY <4>2 DEF Raised, y, j
    <3> QED BY <2>2, <2>5, <3>1
  <2>6. CASE ~ HeapOrdered(f[k][1])
    <3>1. f[k][2] + k <= i
      BY <1>5, <2>1, <2>6
    <3> HIDE DEF G
    <3> QED BY <2>3, <2>4, <2>6, <3>1
  <2> QED BY <2>5, <2>6
<1>6. n \in G
  <2> HIDE DEF G
  <2> QED BY <1>0, <1>4, <1>5, NatSetInduction
<1>7. f[n] \in X /\ f[n][2] \in 1 .. n
  <2>1. n \in 0 .. n
    BY <1>0
  <2>2. f[n] \in X
    BY <1>3, <2>1
  <2> QED BY <2>2 DEF X
<1>8. HeapOrdered(f[n][1])
  BY <1>0, <1>6, <1>7
<1>9. HeapUp(x, i) = f[n][1]
  BY <1>3 DEF HeapUp
<1> QED BY <1>7, <1>8, <1>9 DEF X

(* The child heapDown looks at is in the heap and not above the other.     *)
LEMMA SmallerChildIs ==
  ASSUME NEW x \in Fields, NEW i \in 1 .. Len(x.heap), 2 * i <= Len(x.heap)
  PROVE  LET c == SmallerChild(x, i)
         IN /\ c \in 2 .. Len(x.heap) /\ c \div 2 = i
            /\ \A j \in 2 .. Len(x.heap) : j \div 2 = i => <<j, c>> \notin Order(x)
<1> DEFINE n == Len(x.heap)
           left == 2 * i
           right == left + 1
           c == SmallerChild(x, i)
<1>0. n \in Nat /\ i \in Int
  BY FieldsAre
<1>1. \A j \in 2 .. n : j \div 2 = i => j = left \/ j = right
  BY <1>0
<1>2. left \in 2 .. n /\ left \div 2 = i /\ right \div 2 = i
  BY <1>0
<1>3. \A a, b \in 1 .. n : <<a, b>> \in Order(x) => <<b, a>> \notin Order(x)
  BY OrderIs DEF IsOrder
<1>4. CASE right <= n /\ LessCounter(At(x, right), At(x, left))
  <2>1. c = right
    BY <1>4 DEF SmallerChild
  <2>2. right \in 1 .. n /\ left \in 1 .. n /\ right \in 2 .. n
    BY <1>0, <1>2, <1>4
  <2>3. <<right, left>> \in Order(x)
    BY <1>4, <2>2, OrderIs
  <2> HIDE DEF c, left, right
  <2>4. \A j \in 2 .. n : j \div 2 = i => <<j, c>> \notin Order(x)
    BY <1>1, <1>3, <2>1, <2>2, <2>3
  <2> QED BY <1>2, <2>1, <2>2, <2>4 DEF c
<1>5. CASE ~ (right <= n /\ LessCounter(At(x, right), At(x, left)))
  <2>1. c = left
    BY <1>5 DEF SmallerChild
  <2>2. left \in 1 .. n
    BY <1>2
  <2>3. right \in 2 .. n => <<right, left>> \notin Order(x)
    <3>1. SUFFICES ASSUME right \in 2 .. n PROVE <<right, left>> \notin Order(x)
      OBVIOUS
    <3>2. right \in 1 .. n /\ right <= n
      BY <1>0, <3>1
    <3> QED BY <1>5, <2>2, <3>2, OrderIs
  <2> HIDE DEF c, left, right
  <2>4. \A j \in 2 .. n : j \div 2 = i => <<j, c>> \notin Order(x)
    BY <1>1, <1>3, <2>1, <2>2, <2>3
  <2> QED BY <1>2, <2>1, <2>4 DEF c
<1> QED BY <1>4, <1>5

(* A turn of heapDown.                                                     *)
LEMMA LoweredIs ==
  ASSUME NEW x \in Fields, Placed(x), NEW i \in 1 .. Len(x.heap), NEW slot,
         OrderedAbove(Order(x), Len(x.heap), i)
  PROVE  LET z == Lowered(<<x, i>>, slot)
         IN /\ z[1] \in Fields /\ Placed(z[1]) /\ Rearranged(x, z[1]) /\ z[2] \in 1 .. Len(x.heap)
            /\ z = <<z[1], z[2]>>
            /\ OrderedAbove(Order(z[1]), Len(x.heap), z[2])
            /\ (z = <<x, i>> /\ HeapOrdered(x)) \/ i < z[2]
<1> DEFINE n == Len(x.heap)
           c == SmallerChild(x, i)
<1>0. n \in Nat /\ i \in Int
  BY FieldsAre
<1>1. CASE 2 * i <= n /\ LessCounter(At(x, c), At(x, i))
  <2>1. /\ c \in 2 .. n /\ c \div 2 = i
        /\ \A j \in 2 .. n : j \div 2 = i => <<j, c>> \notin Order(x)
    BY <1>1, SmallerChildIs
  <2>2. c \in 1 .. n /\ i < c /\ i # c
    BY <1>0, <2>1, Halves
  <2>3. <<c, i>> \in Order(x)
    BY <1>1, <2>2, OrderIs
  <2> DEFINE y == SwapHeap(x, i, c)
  <2>4. /\ y \in Fields /\ Placed(y) /\ Rearranged(x, y)
        /\ \A a, b \in 1 .. n : <<a, b>> \in Order(y) <=> <<Exchanged(a, i, c), Exchanged(b, i, c)>> \in Order(x)
    BY <2>2, SwapIs
  <2>5. Lowered(<<x, i>>, slot) = <<y, c>>
    BY <1>1 DEF Lowered
  <2> HIDE DEF y, c
  <2>6. OrderedAbove(Order(y), n, c)
    BY <1>0, <2>1, <2>3, <2>4, OrderIs, LoweredOrder
  <2> QED BY <2>2, <2>4, <2>5, <2>6
<1>2. CASE ~ (2 * i <= n /\ LessCounter(At(x, c), At(x, i)))
  <2>1. Lowered(<<x, i>>, slot) = <<x, i>>
    BY <1>2 DEF Lowered
  <2>2. HeapOrdered(x)
    <3> SUFFICES ASSUME NEW j \in 2 .. n PROVE <<j, j \div 2>> \notin Order(x)
      BY OrderedIs
    <3>1. CASE j \div 2 # i
      BY <3>1 DEF OrderedAbove
    <3>2. CASE j \div 2 = i
      <4>1. 2 * i <= n /\ j \in 1 .. n
        BY <1>0, <3>2, Halves
      <4>2. c \in 2 .. n /\ <<j, c>> \notin Order(x)
        BY <3>2, <4>1, SmallerChildIs
      <4>3. c \in 1 .. n /\ <<c, i>> \notin Order(x)
        BY <1>2, <4>1, <4>2, OrderIs
      <4> HIDE DEF c
      <4>4. <<j, i>> \notin Order(x)
        BY <4>1, <4>2, <4>3, OrderIs DEF IsOrder
      <4> QED BY <3>2, <4>4
    <3> QED BY <3>1, <3>2
  <2> QED BY <2>1, <2>2, RearrangedSelf
<1> QED BY <1>1, <1>2

(* heapDown: a counter out of order above finds its place.                 *)
LEMMA HeapDownIs ==
  ASSUME NEW x \in Fields, Placed(x), NEW i \in 1 .. Len(x.heap),
         OrderedAbove(Order(x), Len(x.heap), i)
  PROVE  /\ HeapDown(x, i) \in Fields /\ Placed(HeapDown(x, i)) /\ HeapOrdered(HeapDown(x, i))
         /\ Rearranged(x, HeapDown(x, i))
<1> DEFINE n == Len(x.heap)
           X == {w \in Fields \X (1 .. n) : /\ Placed(w[1]) /\ Rearranged(x, w[1])
                                            /\ OrderedAbove(Order(w[1]), n, w[2])}
<1>0. n \in Nat /\ x.heap \in Seq(Slot) /\ i \in Int
  BY FieldsAre
<1>1. <<x, i>> \in X
  BY RearrangedSelf
<1>2. ASSUME NEW w \in X, NEW slot
      PROVE  LET z == Lowered(w, slot)
             IN z \in X /\ ((z = w /\ HeapOrdered(w[1])) \/ w[2] < z[2])
  <2> DEFINE y == w[1]
             z == Lowered(w, slot)
  <2>1. /\ y \in Fields /\ Placed(y) /\ Rearranged(x, y) /\ w[2] \in 1 .. Len(y.heap) /\ Len(y.heap) = n
        /\ OrderedAbove(Order(y), Len(y.heap), w[2]) /\ w = <<y, w[2]>>
    BY DEF Rearranged
  <2>2. /\ z[1] \in Fields /\ Placed(z[1]) /\ Rearranged(y, z[1]) /\ z[2] \in 1 .. n
        /\ z = <<z[1], z[2]>> /\ OrderedAbove(Order(z[1]), n, z[2])
        /\ (z = <<y, w[2]>> /\ HeapOrdered(y)) \/ w[2] < z[2]
    BY <2>1, LoweredIs
  <2> HIDE DEF z
  <2>3. Rearranged(x, z[1])
    BY <2>1, <2>2, StaysRearranged
  <2>4. z \in X
    BY <2>2, <2>3
  <2> QED BY <2>1, <2>2, <2>4 DEF z
<1> HIDE DEF X
<1>a. \A w \in X, slot \in Slot : Lowered(w, slot) \in X
  BY <1>2
<1>3. PICK f \in [0 .. n -> X] :
           FoldLeft(Lowered, <<x, i>>, x.heap) = f[n] /\ LowerSteps(f, <<x, i>>, x.heap)
  <2> DEFINE seq == x.heap
             base == <<x, i>>
  <2>1. seq \in Seq(Slot) /\ base \in X
    BY <1>0, <1>1
  <2> HIDE DEF seq, base
  <2>2. \A w \in X, d \in Slot : Lowered(w, d) \in X
    BY <1>a
  <2>3. \E f \in [0 .. Len(seq) -> X] :
           FoldLeft(Lowered, base, seq) = f[Len(seq)] /\ LowerSteps(f, base, seq)
    BY <2>1, <2>2, LowerFold
  <2> QED BY <2>3 DEF seq, base
<1> DEFINE G == {k \in Nat : k <= n => HeapOrdered(f[k][1]) \/ i + k <= f[k][2]}
<1>4. 0 \in G
  <2>1. f[0][2] = i /\ i + 0 <= i
    BY <1>0, <1>3 DEF LowerSteps
  <2> QED BY <2>1
<1>5. ASSUME NEW k \in Nat, k \in G PROVE k + 1 \in G
  <2> SUFFICES ASSUME k + 1 <= n PROVE HeapOrdered(f[k + 1][1]) \/ i + (k + 1) <= f[k + 1][2]
    OBVIOUS
  <2>1. k \in 0 .. n /\ k + 1 \in 0 .. n /\ k + 1 \in 1 .. n /\ (k + 1) - 1 = k
    BY <1>0
  <2>2. f[k] \in X /\ f[k + 1] \in X /\ f[k + 1] = Lowered(f[k], x.heap[k + 1])
    BY <1>3, <2>1 DEF LowerSteps
  <2>3. (f[k + 1] = f[k] /\ HeapOrdered(f[k][1])) \/ f[k][2] < f[k + 1][2]
    BY <1>2, <2>2
  <2>4. f[k][2] \in 1 .. n /\ f[k + 1][2] \in 1 .. n
    BY <2>2 DEF X
  <2>5. CASE HeapOrdered(f[k][1])
    <3>1. Lowered(f[k], x.heap[k + 1]) = f[k]
      <4> DEFINE y == f[k][1]
                 j == f[k][2]
      <4>1. y \in Fields /\ Len(y.heap) = n /\ j \in 1 .. n
        BY <2>2 DEF X, Rearranged
      <4> HIDE DEF y, j
      <4>2. ~ (2 * j <= Len(y.heap) /\ LessCounter(At(y, SmallerChild(y, j)), At(y, j)))
        <5>1. SUFFICES ASSUME 2 * j <= Len(y.heap) PROVE ~ LessCounter(At(y, SmallerChild(y, j)), At(y, j))
          OBVIOUS
        <5>2. SmallerChild(y, j) \in 2 .. Len(y.heap) /\ SmallerChild(y, j) \div 2 = j
          BY <4>1, <5>1, SmallerChildIs
        <5> QED BY <2>5, <5>2 DEF HeapOrdered, y
      <4> QED BY <4>2 DEF Lowered, y, j
    <3> QED BY <2>2, <2>5, <3>1
  <2>6. CASE ~ HeapOrdered(f[k][1])
    <3>1. i + k <= f[k][2]
      BY <1>5, <2>1, <2>6
    <3> HIDE DEF G
    <3> QED BY <1>0, <2>3, <2>4, <2>6, <3>1
  <2> QED BY <2>5, <2>6
<1>6. n \in G
  <2> HIDE DEF G
  <2> QED BY <1>0, <1>4, <1>5, NatSetInduction
<1>7. f[n] \in X /\ f[n][2] \in 1 .. n
  <2>1. n \in 0 .. n
    BY <1>0
  <2>2. f[n] \in X
    BY <1>3, <2>1
  <2> QED BY <2>2 DEF X
<1>8. HeapOrdered(f[n][1])
  BY <1>0, <1>6, <1>7
<1>9. HeapDown(x, i) = f[n][1]
  BY <1>3 DEF HeapDown
<1> QED BY <1>7, <1>8, <1>9 DEF X

-----------------------------------------------------------------------------
(* One operation of the heap.                                              *)

LEMMA FieldsRecord ==
  ASSUME NEW x \in Fields
  PROVE  x = [items |-> x.items, heap |-> x.heap, pool |-> x.pool, free |-> x.free,
              maxError |-> x.maxError, totalWeight |-> x.totalWeight]
BY DEF Fields

(* An estimate is that of the slot the map leads to.                       *)
LEMMA CountsAre ==
  ASSUME NEW x \in Fields
  PROVE  /\ Counts(x) \in [Key -> Amounts]
         /\ \A k \in Key : Counts(x)[k] = Estimate(x, k)
         /\ \A k \in Key : k \notin DOMAIN x.items => Estimate(x, k) = 0
         /\ \A k \in DOMAIN x.items : Estimate(x, k) = x.pool[x.items[k]].estimate
         /\ \A k \in Key : Estimate(x, k) \in Amounts
<1>1. 0 \in Amounts
  BY MaxIntAssumption DEF Amounts, MaxIntAssumption
<1>2. /\ x.items \in [DOMAIN x.items -> Slot] /\ DOMAIN x.items \subseteq Key
      /\ \A slot \in Slot : x.pool[slot].estimate \in Amounts
  BY FieldsAre
<1>3. \A k \in DOMAIN x.items : x.pool[x.items[k]].estimate \in Amounts
  BY <1>2
<1>4. \A k \in Key : Estimate(x, k) \in Amounts
  BY <1>1, <1>3 DEF Estimate
<1> QED BY <1>2, <1>4 DEF Counts, Estimate

LEMMA HeldAre ==
  ASSUME NEW x \in Fields
  PROVE  /\ Held(x) \subseteq Slot
         /\ \A i \in 1 .. Len(x.heap) : x.heap[i] \in Held(x)
BY FieldsAre DEF Held

(* Sifting leaves map and free list as they were.                          *)
LEMMA RearrangedSound ==
  ASSUME NEW x \in Fields, Mapped(x), Spare(x),
         NEW y \in Fields, Placed(y), HeapOrdered(y), Rearranged(x, y)
  PROVE  /\ Sound(y) /\ Counts(y) = Counts(x) /\ DOMAIN y.items = DOMAIN x.items
         /\ y.maxError = x.maxError /\ y.totalWeight = x.totalWeight
<1>1. /\ y.items = x.items /\ y.free = x.free /\ y.maxError = x.maxError
      /\ y.totalWeight = x.totalWeight /\ Len(y.heap) = Len(x.heap) /\ Held(y) = Held(x)
      /\ \A slot \in Slot : /\ y.pool[slot].hash = x.pool[slot].hash
                            /\ y.pool[slot].estimate = x.pool[slot].estimate
  BY DEF Rearranged
<1>2. Held(x) \subseteq Slot /\ x.items \in [DOMAIN x.items -> Slot]
  BY HeldAre, FieldsAre
<1>3. Mapped(y)
  BY <1>1, <1>2 DEF Mapped
<1>4. Spare(y)
  BY <1>1 DEF Spare
<1>5. \A k \in Key : Estimate(y, k) = Estimate(x, k)
  BY <1>1, <1>2 DEF Estimate
<1> QED BY <1>1, <1>3, <1>4, <1>5 DEF Sound, Counts

(* insertCounter, of a key without a counter, when there is room.          *)
LEMMA InsertCounterIs ==
  ASSUME NEW x, Sound(x), NEW k \in Key \ DOMAIN x.items, NEW n \in Amounts,
         Cardinality(DOMAIN x.items) < MapSize
  PROVE  LET z == InsertCounter(x, k, n)
         IN /\ Sound(z) /\ Counts(z) = [Counts(x) EXCEPT ![k] = n]
            /\ DOMAIN z.items = DOMAIN x.items \cup {k}
            /\ z.maxError = x.maxError /\ z.totalWeight = x.totalWeight
<1> DEFINE D == DOMAIN x.items
           m == Len(x.heap)
           l == Len(x.free)
           slot == Last(x.free)
           i == m + 1
           c == [hash |-> k, estimate |-> n, heapIndex |-> i]
           y == [x EXCEPT !.free = Front(@), !.pool[slot] = c,
                          !.items = With(@, k, slot), !.heap = Append(@, slot)]
<1>1. x \in Fields /\ Placed(x) /\ Mapped(x) /\ Spare(x) /\ HeapOrdered(x)
  BY DEF Sound
<1>2. /\ x.items \in [D -> Slot] /\ D \subseteq Key /\ IsFiniteSet(D) /\ Cardinality(D) \in Nat
      /\ x.heap \in Seq(Slot) /\ m \in Nat /\ x.free \in Seq(Slot) /\ l \in Nat
      /\ x.pool \in [Slot -> Counter] /\ \A a \in 1 .. m : x.heap[a] \in Slot
      /\ \A a \in 1 .. l : x.free[a] \in Slot
      /\ x.maxError \in Amounts /\ x.totalWeight \in Amounts
  BY <1>1, FieldsAre
<1>3. m = Cardinality(D) /\ m + l = MapSize /\ l > 0 /\ i \in Nat
  BY <1>1, <1>2, MapSizeAssumption DEF Mapped, Spare, MapSizeAssumption
<1>4. slot \in Slot /\ slot = x.free[l] /\ slot \notin Held(x)
  <2>1. slot = x.free[l] /\ l \in 1 .. l
    BY <1>2, <1>3 DEF Last
  <2> HIDE DEF slot
  <2>2. slot \in Slot
    BY <1>2, <2>1
  <2> QED BY <1>1, <2>1, <2>2 DEF Spare
<1>5. c \in Counter /\ k \in Nat
  BY <1>2, <1>3, KeysAre DEF Counter
<1>6. /\ y.free = Front(x.free) /\ y.pool = [x.pool EXCEPT ![slot] = c]
      /\ y.items = With(x.items, k, slot) /\ y.heap = Append(x.heap, slot)
      /\ y.maxError = x.maxError /\ y.totalWeight = x.totalWeight
      /\ y = [items |-> y.items, heap |-> y.heap, pool |-> y.pool, free |-> y.free,
              maxError |-> y.maxError, totalWeight |-> y.totalWeight]
  <2>1. x = [items |-> x.items, heap |-> x.heap, pool |-> x.pool, free |-> x.free,
             maxError |-> x.maxError, totalWeight |-> x.totalWeight]
    BY <1>1, FieldsRecord
  <2> DEFINE F == Front(x.free)
             P == [x.pool EXCEPT ![slot] = c]
             I == With(x.items, k, slot)
             H == Append(x.heap, slot)
  <2>2. y = [x EXCEPT !.free = F, !.pool = P, !.items = I, !.heap = H]
    OBVIOUS
  <2> HIDE DEF y, F, P, I, H
  <2>3. y = [items |-> I, heap |-> H, pool |-> P, free |-> F,
             maxError |-> x.maxError, totalWeight |-> x.totalWeight]
    BY <2>1, <2>2
  <2> QED BY <2>3 DEF F, P, I, H
<1>7. InsertCounter(x, k, n) = HeapUp(y, i)
  BY DEF InsertCounter
<1> HIDE DEF y, slot, c
<1>8. /\ Len(y.free) = l - 1 /\ y.free \in Seq(Slot)
      /\ \A a \in 1 .. (l - 1) : y.free[a] = x.free[a]
  BY <1>2, <1>3, <1>6 DEF Front
<1>9. /\ Len(y.heap) = i /\ y.heap \in Seq(Slot) /\ y.heap[i] = slot
      /\ \A a \in 1 .. m : y.heap[a] = x.heap[a]
  BY <1>2, <1>4, <1>6
<1>10. /\ y.items \in [D \cup {k} -> Slot] /\ y.items[k] = slot
       /\ \A j \in D : y.items[j] = x.items[j]
  BY <1>2, <1>4, <1>6 DEF With
<1>11. /\ y.pool \in [Slot -> Counter] /\ y.pool[slot] = c
       /\ \A s \in Slot \ {slot} : y.pool[s] = x.pool[s]
  BY <1>2, <1>4, <1>5, <1>6
<1>12. c.hash = k /\ c.estimate = n /\ c.heapIndex = i
  BY DEF c
<1>13. y \in Fields
  <2>1. y.items \in Maps
    BY <1>2, <1>10 DEF Maps
  <2> QED BY <1>2, <1>6, <1>8, <1>9, <1>11, <2>1 DEF Fields
<1>14. Held(y) = Held(x) \cup {slot}
  <2>1. ASSUME NEW s \in Held(y) PROVE s \in Held(x) \cup {slot}
    <3>1. PICK a \in 1 .. i : s = y.heap[a]
      BY <1>9 DEF Held
    <3>2. a \in 1 .. m \/ a = i
      BY <1>2
    <3> QED BY <1>9, <3>1, <3>2 DEF Held
  <2>2. ASSUME NEW s \in Held(x) PROVE s \in Held(y)
    <3>1. PICK a \in 1 .. m : s = x.heap[a]
      BY DEF Held
    <3>2. a \in 1 .. i
      BY <1>2
    <3> QED BY <1>9, <3>1, <3>2 DEF Held
  <2>3. slot \in Held(y)
    <3>1. i \in 1 .. i
      BY <1>3
    <3> QED BY <1>9, <3>1 DEF Held
  <2> QED BY <2>1, <2>2, <2>3
<1>15. \A a \in 1 .. m : x.heap[a] # slot /\ y.pool[x.heap[a]] = x.pool[x.heap[a]]
  BY <1>2, <1>4, <1>11 DEF Held
<1>16. Placed(y)
  <2> SUFFICES ASSUME NEW a \in 1 .. i PROVE y.pool[y.heap[a]].heapIndex = a
    BY <1>9 DEF Placed
  <2>1. CASE a \in 1 .. m
    BY <1>1, <1>9, <1>15, <2>1 DEF Placed
  <2>2. CASE a = i
    BY <1>9, <1>11, <1>12, <2>2
  <2> QED BY <1>2, <2>1, <2>2
<1>17. Mapped(y)
  <2>1. ASSUME NEW j \in D \cup {k} PROVE y.items[j] \in Held(y) /\ y.pool[y.items[j]].hash = j
    <3>1. CASE j = k
      BY <1>10, <1>11, <1>12, <1>14, <3>1
    <3>2. CASE j \in D
      <4>1. x.items[j] \in Held(x) /\ x.pool[x.items[j]].hash = j /\ x.items[j] \in Slot
        BY <1>1, <1>2, <3>2 DEF Mapped
      <4>2. x.items[j] # slot
        BY <1>4, <4>1
      <4> QED BY <1>10, <1>11, <1>14, <3>2, <4>1, <4>2
    <3> QED BY <3>1, <3>2
  <2>2. ASSUME NEW s \in Held(y)
        PROVE  y.pool[s].hash \in D \cup {k} /\ y.items[y.pool[s].hash] = s
    <3>1. CASE s = slot
      BY <1>10, <1>11, <1>12, <3>1
    <3>2. CASE s # slot
      <4>1. s \in Held(x) /\ s \in Slot
        BY <1>1, <1>14, <3>2, HeldAre
      <4>2. x.pool[s].hash \in D /\ x.items[x.pool[s].hash] = s
        BY <1>1, <4>1 DEF Mapped
      <4> QED BY <1>10, <1>11, <3>2, <4>1, <4>2
    <3> QED BY <3>1, <3>2
  <2>3. Cardinality(D \cup {k}) = i
    BY <1>2, <1>3, FS_AddElement
  <2> QED BY <1>9, <1>10, <2>1, <2>2, <2>3 DEF Mapped
<1>18. Spare(y)
  <2>1. ASSUME NEW a \in 1 .. Len(y.free), NEW b \in 1 .. Len(y.free), y.free[a] = y.free[b] PROVE a = b
    <3>1. a \in 1 .. (l - 1) /\ b \in 1 .. (l - 1) /\ a \in 1 .. l /\ b \in 1 .. l
      BY <1>2, <1>8
    <3> QED BY <1>1, <1>8, <2>1, <3>1 DEF Spare
  <2>2. ASSUME NEW s \in Slot PROVE s \in Held(y) <=> ~ \E a \in 1 .. Len(y.free) : y.free[a] = s
    <3>1. s \in Held(x) <=> ~ \E a \in 1 .. l : x.free[a] = s
      BY <1>1 DEF Spare
    <3>2. CASE s = slot
      <4>1. \A a \in 1 .. (l - 1) : a \in 1 .. l /\ a # l /\ l \in 1 .. l
        BY <1>2
      <4>2. \A a \in 1 .. (l - 1) : x.free[a] # slot
        BY <1>1, <1>4, <4>1 DEF Spare
      <4> QED BY <1>8, <1>14, <3>2, <4>2
    <3>3. CASE s # slot
      <4>1. s \in Held(y) <=> s \in Held(x)
        BY <1>14, <3>3
      <4>2. \A a \in 1 .. l : x.free[a] = s => a \in 1 .. (l - 1)
        BY <1>2, <1>4, <3>3
      <4>3. \A a \in 1 .. (l - 1) : a \in 1 .. l
        BY <1>2
      <4>4. (\E a \in 1 .. l : x.free[a] = s) <=> (\E a \in 1 .. (l - 1) : y.free[a] = s)
        BY <1>8, <4>2, <4>3
      <4> QED BY <1>8, <3>1, <4>1, <4>4
    <3> QED BY <3>2, <3>3
  <2>3. Len(y.heap) + Len(y.free) = MapSize
    <3>1. m \in Int /\ l \in Int /\ m + l = MapSize /\ Len(y.free) = l - 1 /\ Len(y.heap) = m + 1
      BY <1>2, <1>3, <1>8, <1>9
    <3> HIDE DEF m, l
    <3> QED BY <3>1
  <2> QED BY <2>1, <2>2, <2>3 DEF Spare
<1>19. OrderedBelow(Order(y), Len(y.heap), i)
  <2>1. ASSUME NEW j \in 2 .. i, j # i PROVE <<j, j \div 2>> \notin Order(y)
    <3>1. j \in 1 .. m /\ j \div 2 \in 1 .. m /\ j \in 2 .. m
      BY <1>2, <2>1, Halves
    <3>2. ~ LessCounter(At(x, j), At(x, j \div 2))
      BY <1>1, <3>1 DEF HeapOrdered
    <3>3. At(y, j) = At(x, j) /\ At(y, j \div 2) = At(x, j \div 2)
      BY <1>9, <1>15, <3>1 DEF At
    <3>4. j \in 1 .. i /\ j \div 2 \in 1 .. i
      BY <1>2, <3>1
    <3> QED BY <1>9, <1>13, <3>2, <3>3, <3>4, OrderIs
  <2>2. \A j \in 2 .. i : j \div 2 # i
    BY <1>3, Halves
  <2> QED BY <1>9, <2>1, <2>2 DEF OrderedBelow
<1>20. \A j \in Key : Estimate(y, j) = IF j = k THEN n ELSE Estimate(x, j)
  <2> SUFFICES ASSUME NEW j \in Key PROVE Estimate(y, j) = IF j = k THEN n ELSE Estimate(x, j)
    OBVIOUS
  <2>1. CASE j = k
    BY <1>10, <1>11, <1>12, <2>1 DEF Estimate
  <2>2. CASE j # k /\ j \in D
    <3>1. x.items[j] \in Held(x) /\ x.items[j] \in Slot
      BY <1>1, <1>2, <2>2 DEF Mapped
    <3>2. x.items[j] # slot
      BY <1>4, <3>1
    <3> QED BY <1>10, <1>11, <2>2, <3>1, <3>2 DEF Estimate
  <2>3. CASE j # k /\ j \notin D
    BY <1>10, <2>3 DEF Estimate
  <2> QED BY <2>1, <2>2, <2>3
<1>21. /\ HeapUp(y, i) \in Fields /\ Placed(HeapUp(y, i)) /\ HeapOrdered(HeapUp(y, i))
       /\ Rearranged(y, HeapUp(y, i))
  <2>1. i \in 1 .. Len(y.heap)
    BY <1>3, <1>9
  <2> QED BY <1>13, <1>16, <1>19, <2>1, HeapUpIs
<1>22. /\ Sound(HeapUp(y, i)) /\ Counts(HeapUp(y, i)) = Counts(y)
       /\ DOMAIN HeapUp(y, i).items = DOMAIN y.items
       /\ HeapUp(y, i).maxError = y.maxError /\ HeapUp(y, i).totalWeight = y.totalWeight
  BY <1>13, <1>17, <1>18, <1>21, RearrangedSound
<1>23. Counts(y) = [Counts(x) EXCEPT ![k] = n]
  BY <1>20 DEF Counts
<1> QED BY <1>6, <1>7, <1>10, <1>22, <1>23

(* The growth of a counter, in addResidual: from there it sinks.           *)
LEMMA GrownIs ==
  ASSUME NEW x, Sound(x), NEW k \in DOMAIN x.items, NEW r \in Nat,
         x.pool[x.items[k]].estimate + r \in Amounts
  PROVE  LET z == HeapDown([x EXCEPT !.pool[x.items[k]].estimate = @ + r],
                           x.pool[x.items[k]].heapIndex)
         IN /\ Sound(z)
            /\ Counts(z) = [Counts(x) EXCEPT ![k] = x.pool[x.items[k]].estimate + r]
            /\ DOMAIN z.items = DOMAIN x.items
            /\ z.maxError = x.maxError /\ z.totalWeight = x.totalWeight
<1> DEFINE D == DOMAIN x.items
           m == Len(x.heap)
           slot == x.items[k]
           n == x.pool[slot].estimate + r
           p == x.pool[slot].heapIndex
           y == [x EXCEPT !.pool[slot].estimate = @ + r]
<1>1. x \in Fields /\ Placed(x) /\ Mapped(x) /\ Spare(x) /\ HeapOrdered(x)
  BY DEF Sound
<1>2. /\ x.items \in [D -> Slot] /\ D \subseteq Key /\ m \in Nat
      /\ x.pool \in [Slot -> Counter] /\ \A a \in 1 .. m : x.heap[a] \in Slot
      /\ \A s \in Slot : x.pool[s].estimate \in Amounts /\ x.pool[s].hash \in Nat
      /\ slot \in Slot
  BY <1>1, FieldsAre
<1>3. slot \in Held(x) /\ x.pool[slot].hash = k
  BY <1>1 DEF Mapped
<1>4. p \in 1 .. m /\ x.heap[p] = slot /\ \A a \in 1 .. m : x.heap[a] = slot => a = p
  <2>1. PICK q \in 1 .. m : x.heap[q] = slot
    BY <1>3 DEF Held
  <2>2. p = q
    BY <1>1, <2>1 DEF Placed
  <2> HIDE DEF p, slot
  <2>3. \A a \in 1 .. m : x.heap[a] = slot => a = p
    BY <1>1 DEF Placed, p
  <2> QED BY <2>1, <2>2, <2>3
<1>5. n \in Amounts /\ n \in Int /\ x.pool[slot].estimate \in Int /\ x.pool[slot].estimate <= n
  <2>1. n \in Amounts
    OBVIOUS
  <2>2. x.pool[slot].estimate \in Nat /\ n = x.pool[slot].estimate + r
    BY <1>2, AmountsAre
  <2> QED BY <2>1, <2>2
<1>6. /\ y.items = x.items /\ y.heap = x.heap /\ y.free = x.free
      /\ y.maxError = x.maxError /\ y.totalWeight = x.totalWeight
      /\ y.pool \in [Slot -> Counter] /\ y \in Fields
      /\ \A s \in Slot : /\ y.pool[s].hash = x.pool[s].hash
                         /\ y.pool[s].heapIndex = x.pool[s].heapIndex
                         /\ y.pool[s].estimate = IF s = slot THEN n ELSE x.pool[s].estimate
  <2> DEFINE P == [x.pool EXCEPT ![slot].estimate = @ + r]
  <2>1. y = [x EXCEPT !.pool = P]
    OBVIOUS
  <2>2. /\ P \in [Slot -> Counter]
        /\ \A s \in Slot : /\ P[s].hash = x.pool[s].hash
                           /\ P[s].heapIndex = x.pool[s].heapIndex
                           /\ P[s].estimate = IF s = slot THEN n ELSE x.pool[s].estimate
    <3>1. P = [x.pool EXCEPT ![slot] = [@ EXCEPT !.estimate = n]]
      OBVIOUS
    <3> HIDE DEF P, slot, n
    <3> QED BY <1>2, <1>5, <3>1 DEF Counter
  <2> HIDE DEF y, P
  <2> QED BY <1>1, <2>1, <2>2 DEF Fields
<1> HIDE DEF y, n, p
<1>7. Placed(y) /\ Held(y) = Held(x)
  BY <1>1, <1>2, <1>6 DEF Placed, Held
<1>8. Mapped(y) /\ Spare(y)
  <2>1. Held(x) \subseteq Slot
    BY <1>1, HeldAre
  <2>2. x.items \in [D -> Slot] /\ Mapped(x) /\ Spare(x)
    BY <1>1, <1>2
  <2>3. /\ y.items = x.items /\ y.heap = x.heap /\ y.free = x.free /\ Held(y) = Held(x)
        /\ \A s \in Slot : y.pool[s].hash = x.pool[s].hash
    BY <1>6, <1>7
  <2> HIDE DEF slot
  <2>4. Mapped(y)
    BY <2>1, <2>2, <2>3 DEF Mapped
  <2>5. Spare(y)
    BY <2>2, <2>3 DEF Spare
  <2> QED BY <2>4, <2>5
<1>9. ASSUME NEW a \in 1 .. m, NEW b \in 1 .. m, b # p, <<a, b>> \notin Order(x)
      PROVE  <<a, b>> \notin Order(y)
  <2> DEFINE u == x.heap[a]
             v == x.heap[b]
  <2>1. u \in Slot /\ v \in Slot /\ v # slot
    BY <1>2, <1>4, <1>9
  <2>2. ~ LessCounter(x.pool[u], x.pool[v])
    BY <1>1, <1>9, OrderIs DEF At
  <2> HIDE DEF u, v, slot
  <2>3. /\ x.pool[u].estimate \in Int /\ x.pool[v].estimate \in Int
        /\ y.pool[u].estimate \in Int /\ x.pool[u].estimate <= y.pool[u].estimate
        /\ y.pool[v].estimate = x.pool[v].estimate
        /\ y.pool[u].hash = x.pool[u].hash /\ y.pool[v].hash = x.pool[v].hash
        /\ x.pool[u].hash \in Nat /\ x.pool[v].hash \in Nat
    <3>1. x.pool[u].estimate \in Amounts /\ x.pool[v].estimate \in Amounts
      BY <1>2, <2>1
    <3>2. x.pool[u].estimate \in Int /\ x.pool[v].estimate \in Int
      BY <3>1, AmountsAre
    <3>3. y.pool[u].estimate = IF u = slot THEN n ELSE x.pool[u].estimate
      BY <1>6, <2>1
    <3>4. y.pool[u].estimate \in Int /\ x.pool[u].estimate <= y.pool[u].estimate
      BY <1>5, <3>2, <3>3
    <3> QED BY <1>2, <1>6, <2>1, <3>2, <3>4
  <2>4. ~ LessCounter(y.pool[u], y.pool[v])
    <3>1. ~(x.pool[u].estimate < x.pool[v].estimate) /\
          ~(x.pool[u].estimate = x.pool[v].estimate /\ x.pool[u].hash < x.pool[v].hash)
      BY <2>2 DEF LessCounter
    <3>2. ~(y.pool[u].estimate < y.pool[v].estimate)
      BY <2>3, <3>1
    <3>3. ~(y.pool[u].estimate = y.pool[v].estimate /\ y.pool[u].hash < y.pool[v].hash)
      BY <2>3, <3>1
    <3> QED BY <3>2, <3>3 DEF LessCounter
  <2> QED BY <1>6, <2>4, OrderIs DEF At, u, v
<1>10. OrderedAbove(Order(y), Len(y.heap), p)
  <2>1. \A j \in 2 .. m : j \in 1 .. m /\ j \div 2 \in 1 .. m /\ j \div 2 < j
    BY <1>2, Halves
  <2>2. \A j \in 2 .. m : <<j, j \div 2>> \notin Order(x)
    BY <1>1, OrderedIs
  <2>3. ASSUME NEW j \in 2 .. m, j \div 2 # p PROVE <<j, j \div 2>> \notin Order(y)
    BY <1>9, <2>1, <2>2, <2>3
  <2>4. ASSUME NEW j \in 2 .. m, j \div 2 = p, p > 1 PROVE <<j, p \div 2>> \notin Order(y)
    <3>1. p \in 2 .. m /\ p \div 2 \in 1 .. m /\ p \div 2 < p /\ p \div 2 # p
      BY <1>4, <2>1, <2>4
    <3>2. <<j, p>> \notin Order(x) /\ <<p, p \div 2>> \notin Order(x)
      BY <2>2, <2>4, <3>1
    <3>3. <<j, p \div 2>> \notin Order(x)
      BY <1>1, <1>4, <2>1, <3>1, <3>2, OrderIs DEF IsOrder
    <3> QED BY <1>9, <2>1, <3>1, <3>3
  <2> QED BY <1>6, <2>3, <2>4 DEF OrderedAbove
<1> DEFINE z == HeapDown(y, p)
<1>11. z \in Fields /\ Placed(z) /\ HeapOrdered(z) /\ Rearranged(y, z)
  BY <1>4, <1>6, <1>7, <1>10, HeapDownIs
<1> HIDE DEF z
<1>12. /\ Sound(z) /\ Counts(z) = Counts(y) /\ DOMAIN z.items = DOMAIN y.items
       /\ z.maxError = y.maxError /\ z.totalWeight = y.totalWeight
  BY <1>6, <1>8, <1>11, RearrangedSound
<1>13. Counts(y) = [Counts(x) EXCEPT ![k] = n]
  <2>1. ASSUME NEW j \in Key PROVE Estimate(y, j) = IF j = k THEN n ELSE Estimate(x, j)
    <3>1. CASE j = k
      BY <1>2, <1>6, <3>1 DEF Estimate
    <3>2. CASE j # k /\ j \in D
      <4>1. x.pool[x.items[j]].hash = j /\ x.items[j] \in Slot
        BY <1>1, <1>2, <3>2 DEF Mapped
      <4>2. x.items[j] # slot
        BY <1>3, <3>2, <4>1
      <4> QED BY <1>6, <3>2, <4>1, <4>2 DEF Estimate
    <3>3. CASE j # k /\ j \notin D
      BY <1>6, <3>3 DEF Estimate
    <3> QED BY <3>1, <3>2, <3>3
  <2> QED BY <2>1 DEF Counts
<1> QED BY <1>6, <1>12, <1>13 DEF z, y, p, n

(* removeAt of the top, first half: the heap without its least counter.    *)
LEMMA FillHoleIs ==
  ASSUME NEW x, Sound(x), x.heap # <<>>
  PROVE  LET g == FillHole(x, 1)
         IN /\ g \in Fields /\ Placed(g) /\ HeapOrdered(g)
            /\ g.items = x.items /\ g.free = x.free
            /\ g.maxError = x.maxError /\ g.totalWeight = x.totalWeight
            /\ Len(g.heap) = Len(x.heap) - 1 /\ Held(g) = Held(x) \ {x.heap[1]}
            /\ \A slot \in Slot : /\ g.pool[slot].hash = x.pool[slot].hash
                                  /\ g.pool[slot].estimate = x.pool[slot].estimate
<1> DEFINE m == Len(x.heap)
           top == x.heap[1]
           slot == Last(x.heap)
           y == [x EXCEPT !.heap = Front(@)]
           z == [y EXCEPT !.heap[1] = slot, !.pool[slot].heapIndex = 1]
           H == [Front(x.heap) EXCEPT ![1] = slot]
           P == [x.pool EXCEPT ![slot].heapIndex = 1]
<1>1. x \in Fields /\ Placed(x) /\ HeapOrdered(x)
  BY DEF Sound
<1>2. /\ x.heap \in Seq(Slot) /\ m \in Nat /\ m > 0 /\ \A a \in 1 .. m : x.heap[a] \in Slot
      /\ x.pool \in [Slot -> Counter]
  <2>1. x.heap \in Seq(Slot) /\ m \in Nat /\ \A a \in 1 .. m : x.heap[a] \in Slot
        /\ x.pool \in [Slot -> Counter]
    BY <1>1, FieldsAre
  <2>2. m > 0
    BY <2>1
  <2> QED BY <2>1, <2>2
<1>3. /\ Front(x.heap) \in Seq(Slot) /\ Len(Front(x.heap)) = m - 1
      /\ \A a \in 1 .. (m - 1) : Front(x.heap)[a] = x.heap[a]
      /\ slot = x.heap[m] /\ slot \in Slot
  BY <1>2 DEF Front, Last
<1>4. \A a, b \in 1 .. m : x.heap[a] = x.heap[b] => a = b
  BY <1>1 DEF Placed
<1>5. /\ y.heap = Front(x.heap) /\ y.items = x.items /\ y.pool = x.pool /\ y.free = x.free
      /\ y.maxError = x.maxError /\ y.totalWeight = x.totalWeight /\ y \in Fields
  <2>1. x = [items |-> x.items, heap |-> x.heap, pool |-> x.pool, free |-> x.free,
             maxError |-> x.maxError, totalWeight |-> x.totalWeight]
    BY <1>1, FieldsRecord
  <2>2. y = [items |-> x.items, heap |-> Front(x.heap), pool |-> x.pool, free |-> x.free,
             maxError |-> x.maxError, totalWeight |-> x.totalWeight]
    BY <2>1
  <2> HIDE DEF y
  <2> QED BY <1>1, <1>3, <2>2 DEF Fields
<1>6. FillHole(x, 1) = IF 1 <= m - 1 THEN HeapUp(HeapDown(z, 1), 1) ELSE y
  BY <1>3, <1>5 DEF FillHole
<1>7. CASE m = 1
  <2>1. FillHole(x, 1) = y
    BY <1>6, <1>7
  <2> HIDE DEF y
  <2>2. Len(y.heap) = 0
    BY <1>3, <1>5, <1>7
  <2>3. Placed(y) /\ HeapOrdered(y) /\ Held(y) = {}
    BY <2>2 DEF Placed, HeapOrdered, Held
  <2>4. Held(x) \ {top} = {}
    BY <1>7 DEF Held
  <2> QED BY <1>5, <1>7, <2>1, <2>2, <2>3, <2>4
<1>8. CASE m > 1
  <2>1. z = [y EXCEPT !.heap = H, !.pool = P]
    <3>1. z = [y EXCEPT !.heap = [y.heap EXCEPT ![1] = slot],
                        !.pool = [y.pool EXCEPT ![slot].heapIndex = 1]]
      OBVIOUS
    <3> HIDE DEF y, z
    <3> QED BY <1>5, <3>1
  <2>2. FillHole(x, 1) = HeapUp(HeapDown(z, 1), 1)
    BY <1>2, <1>6, <1>8
  <2>3. /\ H \in Seq(Slot) /\ Len(H) = m - 1 /\ H[1] = slot
        /\ \A a \in 2 .. (m - 1) : H[a] = x.heap[a]
    <3>1. 1 \in 1 .. (m - 1) /\ \A a \in 2 .. (m - 1) : a # 1 /\ a \in 1 .. (m - 1)
      BY <1>2, <1>8
    <3>2. /\ H \in [1 .. (m - 1) -> Slot] /\ H[1] = slot
          /\ \A a \in 2 .. (m - 1) : H[a] = x.heap[a]
      <4>1. Front(x.heap) \in [1 .. (m - 1) -> Slot]
        BY <1>3
      <4> HIDE DEF slot
      <4> QED BY <1>3, <3>1, <4>1
    <3>3. m - 1 \in Nat
      BY <1>2, <1>8
    <3> HIDE DEF H, m
    <3> QED BY <3>2, <3>3
  <2>4. /\ P \in [Slot -> Counter] /\ P[slot].heapIndex = 1
        /\ \A s \in Slot : P[s].hash = x.pool[s].hash /\ P[s].estimate = x.pool[s].estimate
        /\ \A s \in Slot \ {slot} : P[s] = x.pool[s]
    <3>1. P = [x.pool EXCEPT ![slot] = [@ EXCEPT !.heapIndex = 1]]
      OBVIOUS
    <3> HIDE DEF P, slot
    <3> QED BY <1>2, <1>3, <3>1 DEF Counter
  <2> HIDE DEF H, P, y, z, slot
  <2>5. /\ z.heap = H /\ z.pool = P /\ z.items = x.items /\ z.free = x.free
        /\ z.maxError = x.maxError /\ z.totalWeight = x.totalWeight /\ z \in Fields
    BY <1>5, <2>1, <2>3, <2>4 DEF Fields
  <2>6. \A a \in 2 .. (m - 1) : a \in 1 .. m /\ H[a] # slot /\ H[a] \in Slot
    <3>1. \A a \in 2 .. (m - 1) : a \in 1 .. m /\ a # m /\ m \in 1 .. m
      BY <1>2
    <3> QED BY <1>2, <1>3, <1>4, <2>3, <3>1
  <2>7. Placed(z)
    <3> SUFFICES ASSUME NEW a \in 1 .. (m - 1) PROVE P[H[a]].heapIndex = a
      BY <2>3, <2>5 DEF Placed
    <3>1. CASE a = 1
      BY <2>3, <2>4, <3>1
    <3>2. CASE a # 1
      <4>1. a \in 2 .. (m - 1)
        BY <1>2, <3>2
      <4>2. P[H[a]] = x.pool[x.heap[a]] /\ a \in 1 .. m
        BY <2>3, <2>4, <2>6, <4>1
      <4> QED BY <1>1, <4>2 DEF Placed
    <3> QED BY <3>1, <3>2
  <2>8. Held(z) = Held(x) \ {top}
    <3>1. ASSUME NEW s \in Held(z) PROVE s \in Held(x) \ {top}
      <4>1. PICK a \in 1 .. (m - 1) : s = H[a]
        BY <2>3, <2>5 DEF Held
      <4>2. CASE a = 1
        <5>1. s = x.heap[m] /\ m \in 1 .. m /\ 1 \in 1 .. m /\ m # 1
          BY <1>2, <1>3, <1>8, <2>3, <4>1, <4>2
        <5> QED BY <1>4, <5>1 DEF Held
      <4>3. CASE a # 1
        <5>1. a \in 2 .. (m - 1) /\ 1 \in 1 .. m
          BY <1>2, <4>3
        <5>2. s = x.heap[a] /\ a \in 1 .. m
          BY <2>3, <2>6, <4>1, <5>1
        <5> QED BY <1>4, <4>3, <5>1, <5>2 DEF Held
      <4> QED BY <4>2, <4>3
    <3>2. ASSUME NEW s \in Held(x) \ {top} PROVE s \in Held(z)
      <4>1. PICK a \in 1 .. m : s = x.heap[a]
        BY DEF Held
      <4>2. a # 1
        BY <3>2, <4>1
      <4>3. CASE a = m
        <5>1. s = H[1] /\ 1 \in 1 .. (m - 1)
          BY <1>2, <1>3, <1>8, <2>3, <4>1, <4>3
        <5> QED BY <2>3, <2>5, <5>1 DEF Held
      <4>4. CASE a # m
        <5>1. a \in 2 .. (m - 1) /\ a \in 1 .. (m - 1)
          BY <1>2, <4>2, <4>4
        <5> QED BY <2>3, <2>5, <4>1, <5>1 DEF Held
      <4> QED BY <4>3, <4>4
    <3> QED BY <3>1, <3>2
  <2>9. OrderedAbove(Order(z), Len(z.heap), 1)
    <3> SUFFICES ASSUME NEW j \in 2 .. (m - 1), j \div 2 # 1 PROVE <<j, j \div 2>> \notin Order(z)
      BY <2>3, <2>5 DEF OrderedAbove
    <3> DEFINE q == j \div 2
    <3>1. q \in 2 .. (m - 1) /\ q \in 1 .. (m - 1) /\ j \in 1 .. (m - 1) /\ j \in 2 .. m
      BY <1>2, Halves
    <3>2. ~ LessCounter(At(x, j), At(x, q))
      BY <1>1, <3>1 DEF HeapOrdered
    <3> HIDE DEF q
    <3>3. At(z, j) = At(x, j) /\ At(z, q) = At(x, q)
      BY <2>3, <2>4, <2>5, <2>6, <3>1 DEF At
    <3> QED BY <2>3, <2>5, <3>1, <3>2, <3>3, OrderIs DEF q
  <2> DEFINE d == HeapDown(z, 1)
             g == HeapUp(d, 1)
  <2>10. 1 \in 1 .. Len(z.heap)
    BY <1>2, <1>8, <2>3, <2>5
  <2>11. d \in Fields /\ Placed(d) /\ HeapOrdered(d) /\ Rearranged(z, d)
    BY <2>5, <2>7, <2>9, <2>10, HeapDownIs
  <2> HIDE DEF d
  <2>12. 1 \in 1 .. Len(d.heap)
    BY <2>10, <2>11 DEF Rearranged
  <2>13. OrderedBelow(Order(d), Len(d.heap), 1)
    BY <2>11, OrderedIs DEF OrderedBelow
  <2>14. g \in Fields /\ Placed(g) /\ HeapOrdered(g) /\ Rearranged(d, g)
    BY <2>11, <2>12, <2>13, HeapUpIs
  <2>15. Rearranged(z, g)
    BY <2>11, <2>14, StaysRearranged
  <2> HIDE DEF g
  <2>16. FillHole(x, 1) = g
    BY <2>2 DEF g, d
  <2>17. /\ g.items = x.items /\ g.free = x.free
         /\ g.maxError = x.maxError /\ g.totalWeight = x.totalWeight
         /\ Len(g.heap) = m - 1 /\ Held(g) = Held(x) \ {top}
         /\ \A s \in Slot : /\ g.pool[s].hash = x.pool[s].hash
                            /\ g.pool[s].estimate = x.pool[s].estimate
    BY <2>3, <2>4, <2>5, <2>8, <2>15 DEF Rearranged
  <2> QED BY <2>14, <2>16, <2>17
<1>9. m = 1 \/ m > 1
  <2>1. m \in Nat /\ m > 0
    BY <1>2
  <2> HIDE DEF m
  <2> QED BY <2>1
<1> QED BY <1>7, <1>8, <1>9

(* removeAt of the top: the least counter goes, its slot is free again.    *)
LEMMA RemoveIs ==
  ASSUME NEW x, Sound(x), x.heap # <<>>
  PROVE  LET z == RemoveCounterAt(x, 1)
             k == At(x, 1).hash
         IN /\ Sound(z) /\ k \in DOMAIN x.items /\ At(x, 1).estimate = Estimate(x, k)
            /\ DOMAIN z.items = DOMAIN x.items \ {k}
            /\ \A j \in DOMAIN z.items : Estimate(z, j) = Estimate(x, j)
            /\ z.maxError = x.maxError /\ z.totalWeight = x.totalWeight
            /\ Len(z.heap) = Len(x.heap) - 1
<1> DEFINE D == DOMAIN x.items
           m == Len(x.heap)
           l == Len(x.free)
           top == x.heap[1]
           k == At(x, 1).hash
           g == FillHole(x, 1)
           z == RemoveCounterAt(x, 1)
           I == Without(x.items, k)
           P == [g.pool EXCEPT ![top] = Unused]
           F == Append(x.free, top)
<1>1. x \in Fields /\ Placed(x) /\ Mapped(x) /\ Spare(x) /\ HeapOrdered(x)
  BY DEF Sound
<1>2. /\ x.items \in [D -> Slot] /\ D \subseteq Key /\ IsFiniteSet(D) /\ Cardinality(D) \in Nat
      /\ m \in Nat /\ m > 0 /\ top \in Slot /\ top \in Held(x)
      /\ x.free \in Seq(Slot) /\ l \in Nat
      /\ x.maxError \in Amounts /\ x.totalWeight \in Amounts
  <2>1. /\ x.items \in [D -> Slot] /\ D \subseteq Key /\ IsFiniteSet(D) /\ Cardinality(D) \in Nat
        /\ x.heap \in Seq(Slot) /\ m \in Nat /\ x.free \in Seq(Slot) /\ l \in Nat
        /\ x.maxError \in Amounts /\ x.totalWeight \in Amounts
    BY <1>1, FieldsAre
  <2>2. m > 0
    BY <2>1
  <2>3. 1 \in 1 .. m
    BY <2>1, <2>2
  <2>4. top \in Slot /\ top \in Held(x)
    BY <1>1, <2>3, HeldAre
  <2> QED BY <2>1, <2>2, <2>4
<1>3. k \in D /\ x.items[k] = top /\ x.pool[top].hash = k /\ At(x, 1).estimate = Estimate(x, k)
  BY <1>1, <1>2 DEF Mapped, At, Estimate
<1>4. /\ g \in Fields /\ Placed(g) /\ HeapOrdered(g)
      /\ g.items = x.items /\ g.free = x.free
      /\ g.maxError = x.maxError /\ g.totalWeight = x.totalWeight
      /\ Len(g.heap) = m - 1 /\ Held(g) = Held(x) \ {top}
      /\ \A slot \in Slot : /\ g.pool[slot].hash = x.pool[slot].hash
                            /\ g.pool[slot].estimate = x.pool[slot].estimate
  BY FillHoleIs
<1>5. z = [g EXCEPT !.items = I, !.pool = P, !.free = F]
  <2>1. z = [g EXCEPT !.items = Without(g.items, k), !.pool = P, !.free = Append(g.free, top)]
    BY DEF RemoveCounterAt
  <2> HIDE DEF z, g, P, k, top
  <2> QED BY <1>4, <2>1
<1> HIDE DEF g, k, top, z
<1>6. /\ I \in [D \ {k} -> Slot] /\ \A j \in D \ {k} : I[j] = x.items[j]
  BY <1>2 DEF Without, Restrict
<1>7. /\ P \in [Slot -> Counter] /\ \A slot \in Slot \ {top} : P[slot] = g.pool[slot]
  <2>1. Unused \in Counter
    BY MaxIntAssumption DEF Unused, Counter, Amounts, MaxIntAssumption
  <2>2. g.pool \in [Slot -> Counter]
    BY <1>4, FieldsAre
  <2> QED BY <1>2, <2>1, <2>2
<1>8. /\ F \in Seq(Slot) /\ Len(F) = l + 1 /\ F[l + 1] = top
      /\ \A a \in 1 .. l : F[a] = x.free[a]
  BY <1>2
<1> HIDE DEF I, P, F
<1>9. /\ z.items = I /\ z.pool = P /\ z.free = F /\ z.heap = g.heap
      /\ z.maxError = x.maxError /\ z.totalWeight = x.totalWeight /\ z \in Fields
  <2>1. z = [items |-> I, heap |-> g.heap, pool |-> P, free |-> F,
             maxError |-> x.maxError, totalWeight |-> x.totalWeight]
    <3>1. g = [items |-> g.items, heap |-> g.heap, pool |-> g.pool, free |-> g.free,
               maxError |-> g.maxError, totalWeight |-> g.totalWeight]
      BY <1>4, FieldsRecord
    <3>2. g.maxError = x.maxError /\ g.totalWeight = x.totalWeight
      BY <1>4
    <3> QED BY <1>5, <3>1, <3>2
  <2>2. I \in Maps
    BY <1>2, <1>6 DEF Maps
  <2>3. g.heap \in Seq(Slot)
    BY <1>4, FieldsAre
  <2> QED BY <1>2, <1>7, <1>8, <2>1, <2>2, <2>3 DEF Fields
<1>10. Held(z) = Held(g) /\ Held(z) = Held(x) \ {top} /\ Len(z.heap) = m - 1
  BY <1>4, <1>9 DEF Held
<1>11. \A a \in 1 .. Len(z.heap) : At(z, a) = At(g, a) /\ z.heap[a] \in Slot \ {top}
  <2>1. \A a \in 1 .. Len(z.heap) : z.heap[a] \in Slot \ {top}
    BY <1>9, <1>10, HeldAre
  <2> QED BY <1>7, <1>9, <2>1 DEF At
<1>12. Placed(z)
  BY <1>4, <1>9, <1>11 DEF Placed, At
<1>13. HeapOrdered(z)
  <2>1. \A j \in 2 .. Len(z.heap) : j \in 1 .. Len(z.heap) /\ j \div 2 \in 1 .. Len(z.heap)
    <3>1. Len(z.heap) \in Nat
      BY <1>9, FieldsAre
    <3> QED BY <3>1, Halves
  <2>2. \A j \in 2 .. Len(z.heap) : ~ LessCounter(At(g, j), At(g, j \div 2))
    BY <1>4, <1>9 DEF HeapOrdered
  <2> QED BY <1>11, <2>1, <2>2 DEF HeapOrdered
<1>14. \A slot \in Slot \ {top} : /\ z.pool[slot].hash = x.pool[slot].hash
                                  /\ z.pool[slot].estimate = x.pool[slot].estimate
  BY <1>4, <1>7, <1>9
<1>15. \A j \in D \ {k} : x.items[j] \in Slot \ {top} /\ x.items[j] \in Held(x) /\ x.pool[x.items[j]].hash = j
  BY <1>1, <1>2, <1>3 DEF Mapped
<1>16. Mapped(z)
  <2>1. DOMAIN z.items = D \ {k} /\ \A j \in D \ {k} : z.items[j] = x.items[j]
    BY <1>6, <1>9
  <2>2. \A j \in D \ {k} : z.items[j] \in Held(z) /\ z.pool[z.items[j]].hash = j
    BY <1>10, <1>14, <1>15, <2>1
  <2>3. ASSUME NEW slot \in Held(z) PROVE z.pool[slot].hash \in D \ {k} /\ z.items[z.pool[slot].hash] = slot
    <3>1. slot \in Held(x) /\ slot # top /\ slot \in Slot
      BY <1>1, <1>10, HeldAre
    <3>2. x.pool[slot].hash \in D /\ x.items[x.pool[slot].hash] = slot
      BY <1>1, <3>1 DEF Mapped
    <3>3. x.pool[slot].hash # k
      BY <1>3, <3>1, <3>2
    <3> QED BY <1>14, <2>1, <3>1, <3>2, <3>3
  <2>4. Len(z.heap) = Cardinality(D \ {k})
    <3>1. m = Cardinality(D)
      BY <1>1 DEF Mapped
    <3>2. Cardinality(D \ {k}) = Cardinality(D) - 1
      BY <1>2, <1>3, FS_RemoveElement
    <3> QED BY <1>10, <3>1, <3>2
  <2> QED BY <2>1, <2>2, <2>3, <2>4 DEF Mapped
<1>17. Spare(z)
  <2>1. \A a, b \in 1 .. l : x.free[a] = x.free[b] => a = b
    BY <1>1 DEF Spare
  <2>2. \A a \in 1 .. l : x.free[a] # top
    BY <1>1, <1>2 DEF Spare
  <2>3. \A a \in 1 .. (l + 1) : a \in 1 .. l \/ a = l + 1
    BY <1>2
  <2>4. \A a, b \in 1 .. Len(z.free) : z.free[a] = z.free[b] => a = b
    BY <1>8, <1>9, <2>1, <2>2, <2>3
  <2>5. ASSUME NEW slot \in Slot PROVE slot \in Held(z) <=> ~ \E a \in 1 .. Len(z.free) : z.free[a] = slot
    <3>1. slot \in Held(x) <=> ~ \E a \in 1 .. l : x.free[a] = slot
      BY <1>1 DEF Spare
    <3>2. CASE slot = top
      <4>1. l + 1 \in 1 .. (l + 1)
        BY <1>2
      <4>2. slot \notin Held(z)
        BY <1>10, <3>2
      <4> QED BY <1>8, <1>9, <3>2, <4>1, <4>2
    <3>3. CASE slot # top
      <4>1. slot \in Held(z) <=> slot \in Held(x)
        BY <1>10, <3>3
      <4>2. \A a \in 1 .. l : a \in 1 .. (l + 1)
        BY <1>2
      <4>3. (\E a \in 1 .. l : x.free[a] = slot) <=> (\E a \in 1 .. (l + 1) : F[a] = slot)
        BY <1>8, <2>3, <3>3, <4>2
      <4> QED BY <1>8, <1>9, <3>1, <4>1, <4>3
    <3> QED BY <3>2, <3>3
  <2>6. Len(z.heap) + Len(z.free) = MapSize
    <3>1. m + l = MapSize /\ Len(z.heap) = m - 1 /\ Len(z.free) = l + 1 /\ m \in Int /\ l \in Int
      <4>1. m + l = MapSize /\ m \in Int /\ l \in Int
        <5>1. m + l = MapSize
          BY <1>1 DEF Spare
        <5>2. m \in Nat /\ l \in Nat
          BY <1>2
        <5> HIDE DEF m, l
        <5> QED BY <5>1, <5>2
      <4> QED BY <1>8, <1>9, <1>10, <4>1
    <3> HIDE DEF m, l
    <3> QED BY <3>1
  <2> QED BY <2>4, <2>5, <2>6 DEF Spare
<1>18. \A j \in D \ {k} : Estimate(z, j) = Estimate(x, j)
  BY <1>6, <1>9, <1>14, <1>15 DEF Estimate
<1> QED BY <1>3, <1>6, <1>9, <1>10, <1>12, <1>13, <1>16, <1>17, <1>18 DEF Sound, k, z

(* A turn of removeExpired: nothing, or the least counter goes.            *)
Settled(x) == x.heap = <<>> \/ At(x, 1).estimate > x.maxError

LEMMA WithoutExpiredIs ==
  ASSUME NEW x, Sound(x), NEW slot
  PROVE  LET z == WithoutExpired(x, slot)
         IN /\ Sound(z) /\ DOMAIN z.items \subseteq DOMAIN x.items
            /\ \A j \in DOMAIN z.items : Estimate(z, j) = Estimate(x, j)
            /\ \A j \in DOMAIN x.items \ DOMAIN z.items : Estimate(x, j) <= x.maxError
            /\ z.maxError = x.maxError /\ z.totalWeight = x.totalWeight
            /\ (z = x /\ Settled(x)) \/ Len(z.heap) = Len(x.heap) - 1
<1>1. x \in Fields
  BY DEF Sound
<1>2. x.maxError \in Int /\ (x.heap # <<>> => At(x, 1).estimate \in Int)
  <2>1. x.maxError \in Int
    BY <1>1, FieldsAre, AmountsAre
  <2>2. ASSUME x.heap # <<>> PROVE At(x, 1).estimate \in Int
    <3>1. x.heap \in Seq(Slot)
      BY <1>1, FieldsAre
    <3>2. x.heap[1] \in Slot
      BY <2>2, <3>1
    <3>3. x.pool[x.heap[1]].estimate \in Amounts
      BY <1>1, <3>2, FieldsAre
    <3> QED BY <3>3, AmountsAre DEF At
  <2> QED BY <2>1, <2>2
<1>3. CASE x.heap # <<>> /\ At(x, 1).estimate <= x.maxError
  <2>1. WithoutExpired(x, slot) = RemoveCounterAt(x, 1)
    BY <1>3 DEF WithoutExpired
  <2> QED BY <1>3, <2>1, RemoveIs
<1>4. CASE ~(x.heap # <<>> /\ At(x, 1).estimate <= x.maxError)
  <2>1. WithoutExpired(x, slot) = x
    BY <1>4 DEF WithoutExpired
  <2>2. Settled(x)
    BY <1>2, <1>4 DEF Settled
  <2> QED BY <2>1, <2>2
<1> QED BY <1>3, <1>4

(* Once the top is above the error, so is every counter.                   *)
LEMMA SettledIs ==
  ASSUME NEW x, Sound(x), Settled(x) PROVE Good(x)
<1>1. x \in Fields /\ Placed(x) /\ Mapped(x) /\ HeapOrdered(x)
  BY DEF Sound
<1>2. ASSUME NEW k \in DOMAIN x.items PROVE Estimate(x, k) > x.maxError
  <2>1. x.items[k] \in Held(x) /\ x.items \in [DOMAIN x.items -> Slot]
    BY <1>1, FieldsAre DEF Mapped
  <2>2. PICK i \in 1 .. Len(x.heap) : x.heap[i] = x.items[k]
    BY <2>1 DEF Held
  <2>3. x.heap \in Seq(Slot) /\ x.maxError \in Int
    BY <1>1, FieldsAre, AmountsAre
  <2>4. x.heap # <<>> /\ 1 \in 1 .. Len(x.heap)
    BY <2>2, <2>3
  <2>5. At(x, 1).estimate <= At(x, i).estimate /\ At(x, 1).estimate > x.maxError
    BY <1>1, <2>4, TopIs DEF Settled
  <2>6. At(x, 1).estimate \in Amounts /\ At(x, i).estimate \in Amounts
    BY <1>1, <2>4, FieldsAre DEF At
  <2>7. At(x, i).estimate > x.maxError
    BY <2>3, <2>5, <2>6, AmountsAre
  <2>8. At(x, i).estimate = Estimate(x, k)
    BY <2>2 DEF At, Estimate
  <2> QED BY <2>7, <2>8
<1> QED BY <1>2 DEF Good, Fresh

(* removeExpired leaves the counters above the error.                      *)
LEMMA RemoveExpiredIs ==
  ASSUME NEW x, Sound(x)
  PROVE  LET z == RemoveExpired(x)
         IN /\ Good(z) /\ DOMAIN z.items \subseteq DOMAIN x.items
            /\ Counts(z) = Abstract!Unexpired(Counts(x), x.maxError)
            /\ z.maxError = x.maxError /\ z.totalWeight = x.totalWeight
<1> DEFINE n == Len(x.heap)
           X == {w \in Fields :
                  /\ Sound(w) /\ DOMAIN w.items \subseteq DOMAIN x.items
                  /\ \A j \in DOMAIN w.items : Estimate(w, j) = Estimate(x, j)
                  /\ \A j \in DOMAIN x.items \ DOMAIN w.items : Estimate(x, j) <= x.maxError
                  /\ w.maxError = x.maxError /\ w.totalWeight = x.totalWeight}
<1>0. x \in Fields /\ n \in Nat /\ x.heap \in Seq(Slot)
  BY FieldsAre DEF Sound
<1>1. x \in X
  BY <1>0
<1>2. ASSUME NEW w \in X, NEW slot
      PROVE  LET z == WithoutExpired(w, slot)
             IN z \in X /\ ((z = w /\ Settled(w)) \/ Len(z.heap) = Len(w.heap) - 1)
  <2> DEFINE z == WithoutExpired(w, slot)
  <2>1. /\ Sound(z) /\ DOMAIN z.items \subseteq DOMAIN w.items
        /\ \A j \in DOMAIN z.items : Estimate(z, j) = Estimate(w, j)
        /\ \A j \in DOMAIN w.items \ DOMAIN z.items : Estimate(w, j) <= w.maxError
        /\ z.maxError = w.maxError /\ z.totalWeight = w.totalWeight
        /\ (z = w /\ Settled(w)) \/ Len(z.heap) = Len(w.heap) - 1
    BY WithoutExpiredIs
  <2> HIDE DEF z
  <2>2. z \in Fields
    BY <2>1 DEF Sound
  <2>3. \A j \in DOMAIN x.items \ DOMAIN z.items : Estimate(x, j) <= x.maxError
    BY <2>1
  <2>4. z \in X
    BY <2>1, <2>2, <2>3
  <2> QED BY <2>1, <2>4 DEF z
<1>a. ASSUME NEW w \in X PROVE /\ Sound(w) /\ Len(w.heap) \in Nat
                               /\ Len(w.heap) = 0 => w.heap = <<>>
  <2>1. Sound(w) /\ w.heap \in Seq(Slot)
    BY FieldsAre
  <2> QED BY <2>1
<1> HIDE DEF X
<1>3. PICK f \in [0 .. n -> X] :
           FoldLeft(WithoutExpired, x, x.heap) = f[n] /\ ExpireSteps(f, x, x.heap)
  <2> DEFINE seq == x.heap
  <2>1. seq \in Seq(Slot)
    BY <1>0
  <2> HIDE DEF seq
  <2>2. \A w \in X, d \in Slot : WithoutExpired(w, d) \in X
    BY <1>2
  <2>3. \E f \in [0 .. Len(seq) -> X] :
           FoldLeft(WithoutExpired, x, seq) = f[Len(seq)] /\ ExpireSteps(f, x, seq)
    BY <1>1, <2>1, <2>2, ExpireFold
  <2> QED BY <2>3 DEF seq
<1> DEFINE G == {k \in Nat : k <= n => Settled(f[k]) \/ Len(f[k].heap) + k <= n}
<1>4. 0 \in G
  <2>1. f[0] = x /\ n + 0 <= n
    BY <1>0, <1>3 DEF ExpireSteps
  <2> QED BY <2>1
<1>5. ASSUME NEW k \in Nat, k \in G PROVE k + 1 \in G
  <2> SUFFICES ASSUME k + 1 <= n PROVE Settled(f[k + 1]) \/ Len(f[k + 1].heap) + (k + 1) <= n
    OBVIOUS
  <2>1. k \in 0 .. n /\ k + 1 \in 0 .. n /\ k + 1 \in 1 .. n /\ (k + 1) - 1 = k
    BY <1>0
  <2>2. f[k] \in X /\ f[k + 1] \in X /\ f[k + 1] = WithoutExpired(f[k], x.heap[k + 1])
    BY <1>3, <2>1 DEF ExpireSteps
  <2>3. (f[k + 1] = f[k] /\ Settled(f[k])) \/ Len(f[k + 1].heap) = Len(f[k].heap) - 1
    BY <1>2, <2>2
  <2>4. Len(f[k].heap) \in Nat /\ (Len(f[k].heap) = 0 => f[k].heap = <<>>) /\ Len(f[k + 1].heap) \in Nat
    BY <1>a, <2>2
  <2>5. CASE Settled(f[k])
    <3>1. WithoutExpired(f[k], x.heap[k + 1]) = f[k]
      <4>1. f[k].heap # <<>> => At(f[k], 1).estimate > f[k].maxError
        BY <2>5 DEF Settled
      <4>2. f[k].heap # <<>> => At(f[k], 1).estimate \in Int /\ f[k].maxError \in Int
        <5> SUFFICES ASSUME f[k].heap # <<>> PROVE At(f[k], 1).estimate \in Int /\ f[k].maxError \in Int
          OBVIOUS
        <5> DEFINE w == f[k]
        <5>1. w \in Fields
          BY <1>a, <2>2 DEF Sound
        <5> HIDE DEF w
        <5>2. w.heap \in Seq(Slot) /\ w.heap # <<>> /\ w.maxError \in Amounts
          BY <5>1, FieldsAre DEF w
        <5>3. w.heap[1] \in Slot
          BY <5>2
        <5>4. At(w, 1).estimate \in Amounts
          BY <5>1, <5>3, FieldsAre DEF At
        <5> QED BY <5>2, <5>4, AmountsAre DEF w
      <4> QED BY <4>1, <4>2 DEF WithoutExpired
    <3> QED BY <2>2, <2>5, <3>1
  <2>6. CASE ~ Settled(f[k])
    <3>1. Len(f[k].heap) + k <= n
      BY <1>5, <2>1, <2>6
    <3> HIDE DEF G
    <3> QED BY <1>0, <2>3, <2>4, <2>6, <3>1
  <2> QED BY <2>5, <2>6
<1>6. n \in G
  <2> HIDE DEF G
  <2> QED BY <1>0, <1>4, <1>5, NatSetInduction
<1>7. f[n] \in X
  <2>1. n \in 0 .. n
    BY <1>0
  <2> QED BY <1>3, <2>1
<1>8. Settled(f[n])
  <2>1. Settled(f[n]) \/ Len(f[n].heap) + n <= n
    BY <1>0, <1>6
  <2>2. Len(f[n].heap) \in Nat /\ (Len(f[n].heap) = 0 => f[n].heap = <<>>)
    BY <1>a, <1>7
  <2> HIDE DEF G
  <2>3. Settled(f[n]) \/ f[n].heap = <<>>
    BY <1>0, <2>1, <2>2
  <2> QED BY <2>3 DEF Settled
<1> DEFINE z == RemoveExpired(x)
<1>9. z = f[n]
  BY <1>3 DEF RemoveExpired
<1> HIDE DEF z
<1>10. /\ z \in Fields /\ Sound(z) /\ DOMAIN z.items \subseteq DOMAIN x.items
       /\ \A j \in DOMAIN z.items : Estimate(z, j) = Estimate(x, j)
       /\ \A j \in DOMAIN x.items \ DOMAIN z.items : Estimate(x, j) <= x.maxError
       /\ z.maxError = x.maxError /\ z.totalWeight = x.totalWeight
  BY <1>7, <1>9 DEF X
<1>11. Good(z)
  BY <1>8, <1>9, <1>10, SettledIs
<1>12. ASSUME NEW j \in Key
       PROVE  Estimate(z, j) = IF Estimate(x, j) > x.maxError THEN Estimate(x, j) ELSE 0
  <2>0. Estimate(x, j) \in Amounts /\ x.maxError \in Amounts
    BY <1>0, CountsAre, FieldsAre
  <2>1. Estimate(x, j) \in Int /\ x.maxError \in Int /\ 0 <= x.maxError
    BY <2>0, AmountsAre
  <2>2. CASE j \in DOMAIN z.items
    BY <1>10, <1>11, <2>2 DEF Good, Fresh
  <2>3. CASE j \notin DOMAIN z.items
    <3>1. Estimate(z, j) = 0
      BY <1>10, <2>3, CountsAre
    <3>2. ~ (Estimate(x, j) > x.maxError)
      <4>1. CASE j \in DOMAIN x.items
        BY <1>10, <2>1, <2>3, <4>1
      <4>2. CASE j \notin DOMAIN x.items
        BY <1>0, <2>1, <4>2, CountsAre
      <4> QED BY <4>1, <4>2
    <3> QED BY <3>1, <3>2
  <2> QED BY <2>2, <2>3
<1>13. Counts(z) = Abstract!Unexpired(Counts(x), x.maxError)
  BY <1>12 DEF Counts, Abstract!Unexpired
<1> QED BY <1>10, <1>11, <1>13 DEF z

-----------------------------------------------------------------------------
(* Clone and Parse insert the counters of a map, least hash first.         *)

IsInHashOrder(order, keys) ==
  /\ order \in [1 .. Cardinality(keys) -> keys]
  /\ \A i, j \in DOMAIN order : i < j => order[i] < order[j]

(* A finite set of numbers has a greatest element.                         *)
LEMMA GreatestExists ==
  ASSUME NEW S \in SUBSET Nat, IsFiniteSet(S), S # {}
  PROVE  \E m \in S : \A k \in S : k <= m
<1> DEFINE G == {T \in SUBSET S : T = {} \/ \E m \in T : \A k \in T : k <= m}
<1>1. {} \in G
  OBVIOUS
<1>2. ASSUME NEW T \in SUBSET S, NEW x \in S \ T, T \in G PROVE T \cup {x} \in G
  <2>1. CASE T = {}
    <3>1. x \in T \cup {x} /\ \A k \in T \cup {x} : k <= x
      BY <2>1
    <3> QED BY <3>1
  <2>2. CASE T # {}
    <3>1. PICK m \in T : \A k \in T : k <= m
      BY <1>2, <2>2
    <3>2. m \in Nat /\ x \in Nat /\ \A k \in T : k \in Nat
      OBVIOUS
    <3>3. CASE x <= m
      <4>1. m \in T \cup {x} /\ \A k \in T \cup {x} : k <= m
        BY <3>1, <3>3
      <4> QED BY <4>1
    <3>4. CASE ~(x <= m)
      <4>1. x \in T \cup {x} /\ \A k \in T \cup {x} : k <= x
        BY <3>1, <3>2, <3>4
      <4> QED BY <4>1
    <3> QED BY <3>3, <3>4
  <2> QED BY <2>1, <2>2
<1>3. S \in G
  <2> HIDE DEF G
  <2> QED BY <1>1, <1>2, SubsetInduction
<1> QED BY <1>3

(* Finitely many hashes can be put in order.                               *)
LEMMA OrderExists ==
  ASSUME NEW keys \in SUBSET Nat, IsFiniteSet(keys)
  PROVE  \E order : IsInHashOrder(order, keys)
<1> DEFINE G == {n \in Nat : \A S \in SUBSET keys :
                   Cardinality(S) = n => \E order : IsInHashOrder(order, S)}
<1>0. \A S \in SUBSET keys : IsFiniteSet(S) /\ Cardinality(S) \in Nat
  BY FS_Subset, FS_CardinalityType
<1>1. 0 \in G
  <2> SUFFICES ASSUME NEW S \in SUBSET keys, Cardinality(S) = 0
               PROVE  \E order : IsInHashOrder(order, S)
    OBVIOUS
  <2> DEFINE none == [i \in 1 .. Cardinality(S) |-> 0]
  <2>1. \A i \in 1 .. Cardinality(S) : FALSE
    OBVIOUS
  <2>2. IsInHashOrder(none, S)
    BY <2>1 DEF IsInHashOrder
  <2> QED BY <2>2
<1>2. ASSUME NEW n \in Nat, n \in G PROVE n + 1 \in G
  <2> SUFFICES ASSUME NEW S \in SUBSET keys, Cardinality(S) = n + 1
               PROVE  \E order : IsInHashOrder(order, S)
    OBVIOUS
  <2>1. S # {} /\ S \in SUBSET Nat /\ IsFiniteSet(S)
    BY <1>0, FS_EmptySet
  <2>2. PICK m \in S : \A k \in S : k <= m
    BY <2>1, GreatestExists
  <2> DEFINE T == S \ {m}
  <2>3. Cardinality(T) = n /\ T \in SUBSET keys
    <3>1. Cardinality(T) = Cardinality(S) - 1
      BY <2>1, FS_RemoveElement
    <3> HIDE DEF T
    <3>2. Cardinality(T) = n
      BY <3>1
    <3> QED BY <3>2 DEF T
  <2>4. PICK first : IsInHashOrder(first, T)
    BY <1>2, <2>3
  <2> DEFINE order == [i \in 1 .. (n + 1) |-> IF i = n + 1 THEN m ELSE first[i]]
  <2>5. /\ first \in [1 .. n -> T]
        /\ \A i, j \in 1 .. n : i < j => first[i] < first[j]
    BY <2>3, <2>4 DEF IsInHashOrder
  <2>6. \A i \in 1 .. n : first[i] \in S /\ first[i] < m
    <3> SUFFICES ASSUME NEW i \in 1 .. n PROVE first[i] \in S /\ first[i] < m
      OBVIOUS
    <3>1. first[i] \in S /\ first[i] # m
      BY <2>5
    <3>2. first[i] \in Nat /\ m \in Nat /\ first[i] <= m
      BY <2>1, <2>2, <3>1
    <3> QED BY <3>1, <3>2
  <2>7. \A i \in 1 .. (n + 1) : i = n + 1 \/ i \in 1 .. n
    OBVIOUS
  <2>8. order \in [1 .. (n + 1) -> S]
    BY <2>6, <2>7
  <2>9. ASSUME NEW i \in 1 .. (n + 1), NEW j \in 1 .. (n + 1), i < j PROVE order[i] < order[j]
    <3>1. i \in 1 .. n /\ i # n + 1
      BY <2>9
    <3>2. CASE j = n + 1
      BY <2>6, <3>1, <3>2
    <3>3. CASE j # n + 1
      BY <2>5, <2>7, <2>9, <3>1, <3>3
    <3> QED BY <3>2, <3>3
  <2>10. DOMAIN order = 1 .. (n + 1)
    OBVIOUS
  <2> HIDE DEF order
  <2>11. IsInHashOrder(order, S)
    BY <2>8, <2>9, <2>10 DEF IsInHashOrder
  <2> QED BY <2>11
<1>3. \A n \in Nat : n \in G
  <2> HIDE DEF G
  <2> QED BY <1>1, <1>2, NatSetInduction
<1>4. Cardinality(keys) \in G
  BY <1>0, <1>3
<1> QED BY <1>4

(* So itemsSortedByHash lists every hash once, the least first.            *)
LEMMA InHashOrderIs ==
  ASSUME NEW keys \in SUBSET Nat, IsFiniteSet(keys)
  PROVE  LET n == Cardinality(keys)
             order == InHashOrder(keys)
         IN /\ n \in Nat /\ order \in [1 .. n -> keys]
            /\ \A i, j \in 1 .. n : order[i] = order[j] => i = j
            /\ keys = {order[i] : i \in 1 .. n}
<1> DEFINE n == Cardinality(keys)
           order == InHashOrder(keys)
<1>1. n \in Nat
  BY FS_CardinalityType
<1>2. PICK some : IsInHashOrder(some, keys)
  BY OrderExists
<1>3. IsInHashOrder(order, keys)
  BY <1>2 DEF IsInHashOrder, InHashOrder
<1> HIDE DEF order
<1>4. order \in [1 .. n -> keys] /\ \A i, j \in 1 .. n : i < j => order[i] < order[j]
  BY <1>3 DEF IsInHashOrder
<1>5. \A i, j \in 1 .. n : order[i] = order[j] => i = j
  <2> SUFFICES ASSUME NEW i \in 1 .. n, NEW j \in 1 .. n, order[i] = order[j], i # j PROVE FALSE
    OBVIOUS
  <2>1. i < j \/ j < i
    BY <1>1
  <2>2. order[i] \in Nat /\ order[j] \in Nat
    BY <1>4
  <2>3. order[i] < order[j] \/ order[j] < order[i]
    BY <1>4, <2>1
  <2> QED BY <2>2, <2>3
<1>6. order \in Injection(1 .. n, keys)
  BY <1>4, <1>5 DEF Injection, IsInjective
<1>7. Cardinality(1 .. n) = n
  BY <1>1, FS_Interval
<1>8. order \in Surjection(1 .. n, keys)
  BY <1>6, <1>7, FS_Injection
<1>9. keys = {order[i] : i \in 1 .. n}
  BY <1>4, <1>8 DEF Surjection
<1> QED BY <1>1, <1>4, <1>5, <1>9 DEF order

IsEmptied(z, e, w) == z = [EmptySketch EXCEPT !.maxError = e, !.totalWeight = w]

(* newSketch, with the error and the total that reset or parse set.        *)
LEMMA EmptySound ==
  ASSUME NEW e \in Amounts, NEW w \in Amounts,
         NEW z, IsEmptied(z, e, w)
  PROVE  /\ Good(z) /\ z.items = NoDict /\ DOMAIN z.items = {}
         /\ Counts(z) = [k \in Key |-> 0] /\ z.maxError = e /\ z.totalWeight = w
<1> DEFINE P == [slot \in Slot |-> Unused]
           F == [i \in Slot |-> i]
<1>0. MapSize \in Nat /\ Slot = 1 .. MapSize
  BY MapSizeAssumption DEF MapSizeAssumption, Slot
<1>1. z = [items |-> NoDict, heap |-> <<>>, pool |-> P, free |-> F, maxError |-> e, totalWeight |-> w]
  <2>1. EmptySketch = [items |-> NoDict, heap |-> <<>>, pool |-> P, free |-> F,
                       maxError |-> 0, totalWeight |-> 0]
    BY DEF EmptySketch
  <2>2. PICK none : none = <<>>
    OBVIOUS
  <2>3. EmptySketch = [items |-> NoDict, heap |-> none, pool |-> P, free |-> F,
                       maxError |-> 0, totalWeight |-> 0]
    BY <2>1, <2>2
  <2> HIDE DEF P, F
  <2>4. PICK dict : dict = NoDict
    OBVIOUS
  <2>5. PICK y : y = EmptySketch
    OBVIOUS
  <2>6. z = [y EXCEPT !.maxError = e, !.totalWeight = w]
    BY <2>5 DEF IsEmptied
  <2>7. y = [items |-> dict, heap |-> none, pool |-> P, free |-> F, maxError |-> 0, totalWeight |-> 0]
    BY <2>3, <2>4, <2>5
  <2>8. z = [items |-> dict, heap |-> none, pool |-> P, free |-> F, maxError |-> e, totalWeight |-> w]
    BY <2>6, <2>7
  <2> QED BY <2>2, <2>4, <2>8
<1>2. P \in [Slot -> Counter]
  BY MaxIntAssumption DEF Unused, Counter, Amounts, MaxIntAssumption
<1>3. F \in Seq(Slot) /\ Len(F) = MapSize /\ \A i \in 1 .. MapSize : F[i] = i
  <2>1. F \in [1 .. MapSize -> Slot] /\ \A i \in 1 .. MapSize : F[i] = i
    BY <1>0
  <2> HIDE DEF F
  <2> QED BY <1>0, <2>1
<1>4. NoDict \in Maps /\ DOMAIN NoDict = {}
  <2>1. NoDict \in [{} -> Slot]
    BY DEF NoDict
  <2> QED BY <2>1 DEF Maps
<1> HIDE DEF P, F
<1>5. /\ z.items = NoDict /\ z.heap = <<>> /\ z.free = F /\ z.maxError = e /\ z.totalWeight = w
      /\ z \in Fields
  BY <1>1, <1>2, <1>3, <1>4 DEF Fields
<1>6. Len(z.heap) = 0
  BY <1>5
<1>7. Placed(z) /\ HeapOrdered(z) /\ Held(z) = {}
  BY <1>6 DEF Placed, HeapOrdered, Held
<1>8. Mapped(z)
  BY <1>4, <1>5, <1>6, <1>7, FS_EmptySet DEF Mapped
<1>9. Spare(z)
  BY <1>0, <1>3, <1>5, <1>6, <1>7 DEF Spare
<1>10. Fresh(z)
  BY <1>4, <1>5 DEF Fresh
<1>11. Counts(z) = [k \in Key |-> 0]
  BY <1>4, <1>5 DEF Counts, Estimate
<1> QED BY <1>4, <1>5, <1>7, <1>8, <1>9, <1>10, <1>11 DEF Good, Sound

(* Clone and fromProto: as many inserts as there are counters find a slot  *)
(* each, and leave these counters.                                         *)
LEMMA FilledIs ==
  ASSUME NEW T \in SUBSET Key, Cardinality(T) <= MapSize, NEW a \in [T -> Amounts],
         NEW e \in Amounts, NEW w \in Amounts, \A k \in T : a[k] > e
  PROVE  LET z == Filled(a, e, w)
         IN /\ Good(z) /\ Counts(z) = [k \in Key |-> IF k \in T THEN a[k] ELSE 0]
            /\ z.maxError = e /\ z.totalWeight = w
<1> DEFINE n == Cardinality(T)
           order == InHashOrder(T)
           base == [EmptySketch EXCEPT !.maxError = e, !.totalWeight = w]
           Is(f, m) == f = [i \in 0 .. m |-> IF i = 0 THEN base
                                             ELSE InsertCounter(f[i - 1], order[i], a[order[i]])]
           f == CHOOSE f : Is(f, n)
           H == {m \in Nat : \E g : Is(g, m)}
<1>1. T \in SUBSET Nat /\ IsFiniteSet(T) /\ MapSize \in Nat
  <2>1. IsFiniteSet(T)
    BY KeyAssumption, FS_Subset DEF KeyAssumption
  <2> QED BY <2>1, KeysAre, MapSizeAssumption DEF MapSizeAssumption
<1>2. /\ n \in Nat /\ order \in [1 .. n -> T]
      /\ \A i, j \in 1 .. n : order[i] = order[j] => i = j
      /\ T = {order[i] : i \in 1 .. n}
  BY <1>1, InHashOrderIs
<1>3. Filled(a, e, w) = f[n]
  BY DEF Filled
<1> HIDE DEF order, base
<1>4. Is(f, n)
  <2>1. 0 \in H
    <3>1. Is([i \in 0 .. 0 |-> base], 0)
      OBVIOUS
    <3> QED BY <3>1
  <2>2. ASSUME NEW m \in Nat, m \in H PROVE m + 1 \in H
    <3>1. PICK g : Is(g, m)
      BY <2>2
    <3> DEFINE last == InsertCounter(g[m], order[m + 1], a[order[m + 1]])
               h == [i \in 0 .. (m + 1) |-> IF i = m + 1 THEN last ELSE g[i]]
    <3>2. \A i \in 0 .. m : h[i] = g[i] /\ i # m + 1 /\ i \in 0 .. (m + 1)
      OBVIOUS
    <3>3. ASSUME NEW i \in 0 .. (m + 1)
          PROVE  h[i] = IF i = 0 THEN base ELSE InsertCounter(h[i - 1], order[i], a[order[i]])
      <4>1. CASE i = m + 1
        <5>1. h[i] = last /\ i - 1 = m /\ m \in 0 .. m /\ i # 0
          BY <4>1
        <5>2. h[i - 1] = g[m]
          BY <3>2, <5>1
        <5> HIDE DEF h
        <5> QED BY <4>1, <5>1, <5>2
      <4>2. CASE i # m + 1
        <5>1. i \in 0 .. m /\ (i # 0 => i - 1 \in 0 .. m)
          BY <4>2
        <5>2. g[i] = IF i = 0 THEN base ELSE InsertCounter(g[i - 1], order[i], a[order[i]])
          BY <3>1, <5>1
        <5>3. h[i] = g[i] /\ (i # 0 => h[i - 1] = g[i - 1])
          BY <3>2, <5>1
        <5> HIDE DEF h
        <5> QED BY <5>2, <5>3
      <4> QED BY <4>1, <4>2
    <3>4. h = [i \in 0 .. (m + 1) |-> h[i]]
      OBVIOUS
    <3> HIDE DEF h
    <3>5. h = [i \in 0 .. (m + 1) |-> IF i = 0 THEN base
                                       ELSE InsertCounter(h[i - 1], order[i], a[order[i]])]
      BY <3>3, <3>4
    <3>6. Is(h, m + 1)
      BY <3>5
    <3> QED BY <3>6
  <2>3. n \in H
    <3> HIDE DEF H
    <3> QED BY <1>2, <2>1, <2>2, NatSetInduction
  <2> QED BY <2>3
<1> HIDE DEF f
<1>5. f[0] = base /\ \A i \in 1 .. n : f[i] = InsertCounter(f[i - 1], order[i], a[order[i]])
  <2>1. 0 \in 0 .. n /\ \A i \in 1 .. n : i \in 0 .. n /\ i # 0
    BY <1>2
  <2> QED BY <1>4, <2>1
<1> DEFINE K(m) == {order[i] : i \in 1 .. m}
           G == {m \in Nat : m <= n =>
                   /\ Sound(f[m]) /\ DOMAIN f[m].items = K(m)
                   /\ Counts(f[m]) = [k \in Key |-> IF k \in K(m) THEN a[k] ELSE 0]
                   /\ f[m].maxError = e /\ f[m].totalWeight = w}
<1>6. 0 \in G
  <2>1. K(0) = {}
    OBVIOUS
  <2>2. /\ Sound(base) /\ DOMAIN base.items = {} /\ Counts(base) = [k \in Key |-> 0]
        /\ base.maxError = e /\ base.totalWeight = w
    <3>1. IsEmptied(base, e, w)
      BY DEF IsEmptied, base
    <3> QED BY <3>1, EmptySound DEF Good
  <2> HIDE DEF K
  <2> QED BY <1>5, <2>1, <2>2
<1>7. ASSUME NEW m \in Nat, m \in G PROVE m + 1 \in G
  <2> SUFFICES ASSUME m + 1 <= n
               PROVE  /\ Sound(f[m + 1]) /\ DOMAIN f[m + 1].items = K(m + 1)
                      /\ Counts(f[m + 1]) = [k \in Key |-> IF k \in K(m + 1) THEN a[k] ELSE 0]
                      /\ f[m + 1].maxError = e /\ f[m + 1].totalWeight = w
    OBVIOUS
  <2> DEFINE x == f[m]
             k == order[m + 1]
  <2>1. m + 1 \in 1 .. n /\ (m + 1) - 1 = m /\ m <= n /\ \A i \in 1 .. m : i \in 1 .. n /\ i # m + 1
    BY <1>2
  <2>2. f[m + 1] = InsertCounter(x, k, a[k])
    BY <1>5, <2>1
  <2>3. /\ Sound(x) /\ DOMAIN x.items = K(m)
        /\ Counts(x) = [j \in Key |-> IF j \in K(m) THEN a[j] ELSE 0]
        /\ x.maxError = e /\ x.totalWeight = w
    BY <1>7, <2>1
  <2> HIDE DEF x, k
  <2>4. k \in T /\ k \in Key /\ k \notin K(m) /\ a[k] \in Amounts
    BY <1>2, <2>1 DEF k
  <2>5. K(m) \in SUBSET T
    BY <1>2, <2>1
  <2>6. Cardinality(K(m)) < MapSize
    <3>1. /\ IsFiniteSet(K(m)) /\ Cardinality(K(m)) <= n
          /\ (n = Cardinality(K(m)) => T = K(m))
      BY <1>1, <2>5, FS_Subset
    <3>2. Cardinality(K(m)) \in Nat /\ Cardinality(K(m)) # n
      BY <2>4, <3>1, FS_CardinalityType
    <3>3. n <= MapSize
      OBVIOUS
    <3> HIDE DEF K, n
    <3> QED BY <1>1, <1>2, <3>1, <3>2, <3>3
  <2>7. K(m + 1) = K(m) \cup {k}
    <3>1. \A i \in 1 .. (m + 1) : i \in 1 .. m \/ i = m + 1
      OBVIOUS
    <3>2. m + 1 \in 1 .. (m + 1) /\ \A i \in 1 .. m : i \in 1 .. (m + 1)
      OBVIOUS
    <3> QED BY <3>1, <3>2 DEF k
  <2> HIDE DEF K
  <2> DEFINE z == InsertCounter(x, k, a[k])
  <2>8. /\ Sound(z) /\ Counts(z) = [Counts(x) EXCEPT ![k] = a[k]]
        /\ DOMAIN z.items = K(m) \cup {k} /\ z.maxError = e /\ z.totalWeight = w
    BY <2>3, <2>4, <2>6, InsertCounterIs
  <2> HIDE DEF z
  <2>9. Counts(z) = [j \in Key |-> IF j \in K(m + 1) THEN a[j] ELSE 0]
    BY <2>3, <2>4, <2>7, <2>8
  <2> QED BY <2>2, <2>7, <2>8, <2>9 DEF z
<1>8. n \in G
  <2> HIDE DEF G
  <2> QED BY <1>2, <1>6, <1>7, NatSetInduction
<1> DEFINE z == f[n]
<1>9. /\ Sound(z) /\ DOMAIN z.items = T
      /\ Counts(z) = [k \in Key |-> IF k \in T THEN a[k] ELSE 0]
      /\ z.maxError = e /\ z.totalWeight = w
  <2>1. K(n) = T /\ n <= n
    BY <1>2
  <2> HIDE DEF K, n
  <2> QED BY <1>8, <2>1
<1> HIDE DEF z
<1>10. Fresh(z)
  <2>1. \A k \in T : Estimate(z, k) = a[k]
    BY <1>9 DEF Counts
  <2> QED BY <1>9, <2>1 DEF Fresh
<1> QED BY <1>3, <1>9, <1>10 DEF Good, z

-----------------------------------------------------------------------------
(* Adding a residual, in the terms of FrequentItems. *)

StoredAs(res, it, e, k, n) ==
  /\ res.fields.maxError = e
  /\ IF n <= MaxInt THEN Counts(res.fields) = [it EXCEPT ![k] = n] /\ res.ok
                    ELSE Counts(res.fields) = it /\ ~ res.ok

PrunedAs(res, it, e, k, r) ==
  LET d    == Abstract!Consumed(it, e, r)
      kept == Abstract!Unexpired(it, e + d)
  IN IF d # r /\ Abstract!HasRoom(kept)
       THEN StoredAs(res, kept, e + d, k, e + d + (r - d))
       ELSE /\ res.fields.maxError = e + d
            /\ Counts(res.fields) = kept
            /\ res.ok <=> d = r

AddedAs(res, it, e, k, r) ==
  \/ it[k] > 0 /\ StoredAs(res, it, e, k, it[k] + r)
  \/ it[k] = 0 /\ Abstract!HasRoom(it) /\ StoredAs(res, it, e, k, e + r)
  \/ it[k] = 0 /\ ~ Abstract!HasRoom(it) /\ PrunedAs(res, it, e, k, r)

(* Only the key at hand gets another counter, and it exceeds the error.    *)
LEMMA FreshKept ==
  ASSUME NEW x, Good(x), NEW z, Sound(z), NEW k \in Key, NEW n, n > x.maxError,
         Counts(z) = [Counts(x) EXCEPT ![k] = n], z.maxError = x.maxError,
         DOMAIN z.items \subseteq DOMAIN x.items \cup {k}
  PROVE  Good(z)
<1>1. x \in Fields /\ Fresh(x) /\ z \in Fields
  BY DEF Good, Sound
<1>2. ASSUME NEW j \in DOMAIN z.items PROVE Estimate(z, j) > z.maxError
  <2>1. j \in Key
    BY <1>1, FieldsAre
  <2>2. Estimate(z, j) = IF j = k THEN n ELSE Estimate(x, j)
    <3>1. Counts(z)[j] = Estimate(z, j) /\ Counts(x)[j] = Estimate(x, j)
      BY <2>1 DEF Counts
    <3>2. Counts(x) \in [Key -> Amounts]
      BY <1>1, CountsAre
    <3> QED BY <2>1, <3>1, <3>2
  <2>3. CASE j = k
    BY <2>2, <2>3
  <2>4. CASE j # k
    BY <1>1, <2>2, <2>4 DEF Fresh
  <2> QED BY <2>3, <2>4
<1> QED BY <1>2 DEF Good, Fresh

(* insertCounter after its check, when there is room.                      *)
LEMMA StoreIs ==
  ASSUME NEW x, Good(x), NEW k \in Key \ DOMAIN x.items, NEW n \in Int, n > x.maxError,
         Cardinality(DOMAIN x.items) < MapSize
  PROVE  LET res == InsertChecked(x, k, n)
         IN Good(res.fields) /\ res.fields.totalWeight = x.totalWeight
            /\ StoredAs(res, Counts(x), x.maxError, k, n)
<1> DEFINE res == InsertChecked(x, k, n)
<1>1. CASE n > MaxInt
  <2>1. res.fields = x /\ ~ res.ok
    BY <1>1 DEF InsertChecked, Raise
  <2>2. ~(n <= MaxInt)
    BY <1>1, MaxIntAssumption DEF MaxIntAssumption
  <2> HIDE DEF res
  <2>3. StoredAs(res, Counts(x), x.maxError, k, n)
    BY <2>1, <2>2 DEF StoredAs
  <2> QED BY <2>1, <2>3 DEF res
<1>2. CASE ~(n > MaxInt)
  <2> DEFINE z == InsertCounter(x, k, n)
  <2>1. x.maxError \in Nat
    BY FieldsAre, AmountsAre DEF Good, Sound
  <2>2. n \in Amounts /\ n <= MaxInt
    BY <1>2, <2>1, MaxIntAssumption DEF Amounts, MaxIntAssumption
  <2>3. res.fields = z /\ res.ok
    BY <1>2 DEF InsertChecked, Ok
  <2>4. /\ Sound(z) /\ Counts(z) = [Counts(x) EXCEPT ![k] = n]
        /\ DOMAIN z.items = DOMAIN x.items \cup {k}
        /\ z.maxError = x.maxError /\ z.totalWeight = x.totalWeight
    BY <2>2, InsertCounterIs DEF Good
  <2> HIDE DEF z, res
  <2>5. Good(z)
    BY <2>4, FreshKept
  <2>6. StoredAs(res, Counts(x), x.maxError, k, n)
    BY <2>2, <2>3, <2>4 DEF StoredAs
  <2> QED BY <2>3, <2>4, <2>5, <2>6 DEF res
<1> QED BY <1>1, <1>2

(* addResidual, of a key with a counter.                                   *)
LEMMA BumpIs ==
  ASSUME NEW x, Good(x), NEW k \in DOMAIN x.items, NEW r \in Nat \ {0}
  PROVE  LET res == Bump(x, k, r)
         IN Good(res.fields) /\ res.fields.totalWeight = x.totalWeight
            /\ StoredAs(res, Counts(x), x.maxError, k, Counts(x)[k] + r)
<1> DEFINE res == Bump(x, k, r)
           g == x.pool[x.items[k]].estimate
<1>1. x \in Fields /\ Sound(x) /\ Fresh(x)
  BY DEF Good, Sound
<1>2. k \in Key /\ g \in Amounts /\ Counts(x)[k] = g /\ g > x.maxError /\ x.maxError \in Amounts
  BY <1>1, FieldsAre, CountsAre DEF Fresh
<1>3. g \in Nat /\ x.maxError \in Nat /\ MaxInt \in Nat
  BY <1>2, AmountsAre, MaxIntAssumption DEF MaxIntAssumption
<1>4. CASE g > MaxInt - r
  <2>1. res.fields = x /\ ~ res.ok
    BY <1>4 DEF Bump, Raise
  <2> HIDE DEF g
  <2>2. ~(g + r <= MaxInt)
    BY <1>3, <1>4
  <2> HIDE DEF res
  <2>3. StoredAs(res, Counts(x), x.maxError, k, Counts(x)[k] + r)
    BY <1>2, <2>1, <2>2 DEF StoredAs
  <2> QED BY <2>1, <2>3 DEF res
<1>5. CASE ~(g > MaxInt - r)
  <2> DEFINE z == HeapDown([x EXCEPT !.pool[x.items[k]].estimate = @ + r],
                           x.pool[x.items[k]].heapIndex)
  <2>1. res.fields = z /\ res.ok
    BY <1>5 DEF Bump, Ok
  <2>2. g + r \in Amounts /\ g + r <= MaxInt /\ g + r > x.maxError
    <3> HIDE DEF g
    <3> QED BY <1>2, <1>3, <1>5 DEF Amounts
  <2>3. /\ Sound(z) /\ Counts(z) = [Counts(x) EXCEPT ![k] = g + r]
        /\ DOMAIN z.items = DOMAIN x.items
        /\ z.maxError = x.maxError /\ z.totalWeight = x.totalWeight
    BY <1>1, <2>2, GrownIs
  <2> HIDE DEF z, res, g
  <2>4. Good(z)
    BY <1>2, <2>2, <2>3, FreshKept
  <2>5. StoredAs(res, Counts(x), x.maxError, k, Counts(x)[k] + r)
    BY <1>2, <2>1, <2>2, <2>3 DEF StoredAs
  <2> QED BY <2>1, <2>3, <2>4, <2>5 DEF res
<1> QED BY <1>4, <1>5

(* There is room in the map exactly when the specification has room.       *)
LEMMA RoomIs ==
  ASSUME NEW x, Good(x)
  PROVE  /\ Abstract!Tracked(Counts(x)) = DOMAIN x.items
         /\ Abstract!HasRoom(Counts(x)) <=> Cardinality(DOMAIN x.items) < MapSize
<1>1. x \in Fields /\ Fresh(x) /\ DOMAIN x.items \subseteq Key
  BY FieldsAre DEF Good, Sound
<1>2. x.maxError \in Nat /\ \A j \in DOMAIN x.items : Estimate(x, j) \in Nat
  BY <1>1, FieldsAre, AmountsAre, CountsAre
<1>3. \A j \in Key : Counts(x)[j] > 0 <=> j \in DOMAIN x.items
  <2> SUFFICES ASSUME NEW j \in Key PROVE Counts(x)[j] > 0 <=> j \in DOMAIN x.items
    OBVIOUS
  <2>1. CASE j \in DOMAIN x.items
    <3>1. Estimate(x, j) > x.maxError /\ Counts(x)[j] = Estimate(x, j)
      BY <1>1, <2>1, CountsAre DEF Fresh
    <3> QED BY <1>2, <2>1, <3>1
  <2>2. CASE j \notin DOMAIN x.items
    BY <1>1, <2>2, CountsAre
  <2> QED BY <2>1, <2>2
<1>4. Abstract!Tracked(Counts(x)) = DOMAIN x.items
  BY <1>1, <1>3 DEF Abstract!Tracked
<1> QED BY <1>4 DEF Abstract!HasRoom, Abstract!Cardinality, Cardinality

(* The top of the heap is the least counter.                               *)
LEMMA LeastIs ==
  ASSUME NEW x, Good(x), DOMAIN x.items # {}
  PROVE  /\ \E j \in DOMAIN x.items : At(x, 1).estimate = Estimate(x, j)
         /\ \A j \in DOMAIN x.items : At(x, 1).estimate <= Estimate(x, j)
         /\ At(x, 1).estimate = Abstract!MinEstimate(Counts(x))
<1> DEFINE least == At(x, 1).estimate
           D == DOMAIN x.items
<1>1. x \in Fields /\ Mapped(x) /\ HeapOrdered(x) /\ Placed(x)
  BY DEF Good, Sound
<1>2. D \subseteq Key /\ \A j \in D : x.items[j] \in Held(x)
  BY <1>1, FieldsAre DEF Mapped
<1>3. \A j \in D : \E i \in 1 .. Len(x.heap) : Estimate(x, j) = At(x, i).estimate
  BY <1>2 DEF Held, At, Estimate
<1>4. \A j \in D : least <= Estimate(x, j)
  BY <1>1, <1>3, TopIs
<1>5. \E j \in D : least = Estimate(x, j)
  <2>1. 1 \in 1 .. Len(x.heap)
    BY <1>1, <1>3, FieldsAre
  <2>2. x.heap[1] \in Held(x)
    BY <2>1 DEF Held
  <2>3. x.pool[x.heap[1]].hash \in D /\ x.items[x.pool[x.heap[1]].hash] = x.heap[1]
    BY <1>1, <2>2 DEF Mapped
  <2>4. least = Estimate(x, x.pool[x.heap[1]].hash)
    BY <2>3 DEF At, Estimate
  <2> QED BY <2>3, <2>4
<1>6. \A j \in D : Estimate(x, j) \in Int /\ Counts(x)[j] = Estimate(x, j)
  BY <1>1, <1>2, AmountsAre, CountsAre
<1>7. least = Abstract!MinEstimate(Counts(x))
  <2> DEFINE S == {Counts(x)[j] : j \in D}
             Is(m) == m \in S /\ \A j \in D : m <= Counts(x)[j]
             m == CHOOSE m \in S : \A j \in D : m <= Counts(x)[j]
  <2> HIDE DEF least
  <2>1. Is(least)
    BY <1>4, <1>5, <1>6
  <2>2. Is(m)
    BY <2>1
  <2>3. Abstract!MinEstimate(Counts(x)) = m
    BY RoomIs DEF Abstract!MinEstimate
  <2> HIDE DEF m
  <2>4. PICK a \in D : least = Counts(x)[a]
    BY <2>1
  <2>5. PICK b \in D : m = Counts(x)[b]
    BY <2>2
  <2>6. least <= m /\ m <= least
    BY <2>1, <2>2, <2>4, <2>5
  <2>7. least \in Int /\ m \in Int
    BY <1>6, <2>4, <2>5
  <2> HIDE DEF Is
  <2> QED BY <2>3, <2>6, <2>7
<1> QED BY <1>4, <1>5, <1>7

(* A change of the error and of the total alone.                           *)
IsTotalled(z, x, e, w) == z = [x EXCEPT !.maxError = e, !.totalWeight = w]

LEMMA TotalledIs ==
  ASSUME NEW x, Sound(x), NEW e \in Amounts, NEW w \in Amounts,
         NEW z, IsTotalled(z, x, e, w)
  PROVE  /\ Sound(z) /\ z.items = x.items /\ Counts(z) = Counts(x)
         /\ z.maxError = e /\ z.totalWeight = w
         /\ Fresh(z) <=> \A k \in DOMAIN x.items : Estimate(x, k) > e
<1>1. x \in Fields /\ Placed(x) /\ Mapped(x) /\ Spare(x) /\ HeapOrdered(x)
  BY DEF Sound
<1>2. x = [items |-> x.items, heap |-> x.heap, pool |-> x.pool, free |-> x.free,
           maxError |-> x.maxError, totalWeight |-> x.totalWeight]
  BY <1>1, FieldsRecord
<1>3. z = [items |-> x.items, heap |-> x.heap, pool |-> x.pool, free |-> x.free,
           maxError |-> e, totalWeight |-> w]
  <2>1. PICK i, h, p, f, m, t : i = x.items /\ h = x.heap /\ p = x.pool /\ f = x.free
                                /\ m = x.maxError /\ t = x.totalWeight
    OBVIOUS
  <2>2. x = [items |-> i, heap |-> h, pool |-> p, free |-> f, maxError |-> m, totalWeight |-> t]
    BY <1>2, <2>1
  <2>3. z = [items |-> i, heap |-> h, pool |-> p, free |-> f, maxError |-> e, totalWeight |-> w]
    BY <2>2 DEF IsTotalled
  <2> QED BY <2>1, <2>3
<1>4. /\ z.items = x.items /\ z.heap = x.heap /\ z.pool = x.pool /\ z.free = x.free
      /\ z.maxError = e /\ z.totalWeight = w
  BY <1>3
<1>5. z \in Fields
  BY <1>1, <1>3 DEF Fields
<1>6. Held(z) = Held(x)
  BY <1>4 DEF Held
<1>7. Placed(z) /\ Mapped(z) /\ Spare(z)
  BY <1>1, <1>4, <1>6 DEF Placed, Mapped, Spare
<1>8. HeapOrdered(z)
  BY <1>1, <1>4 DEF HeapOrdered, At
<1>9. \A k \in Key : Estimate(z, k) = Estimate(x, k)
  BY <1>4 DEF Estimate
<1>10. \A k \in DOMAIN x.items : Estimate(z, k) = Estimate(x, k)
  BY <1>4 DEF Estimate
<1>11. Counts(z) = Counts(x)
  BY <1>9 DEF Counts
<1>12. Fresh(z) <=> \A k \in DOMAIN x.items : Estimate(x, k) > e
  BY <1>4, <1>10 DEF Fresh
<1> QED BY <1>4, <1>5, <1>7, <1>8, <1>11, <1>12 DEF Sound

(* pruneForResidual, of a key without a counter, when there is no room.    *)
LEMMA PruneIs ==
  ASSUME NEW x, Good(x), NEW k \in Key \ DOMAIN x.items, NEW r \in Nat \ {0},
         ~(Cardinality(DOMAIN x.items) < MapSize)
  PROVE  LET res == PruneAndInsert(x, k, r)
         IN Good(res.fields) /\ res.fields.totalWeight = x.totalWeight
            /\ PrunedAs(res, Counts(x), x.maxError, k, r)
<1> DEFINE it == Counts(x)
           D == DOMAIN x.items
           e == x.maxError
           least == At(x, 1).estimate - e
           d == IF r < least THEN r ELSE least
           raised == [x EXCEPT !.maxError = @ + d]
           pruned == IF r < least THEN raised ELSE RemoveExpired(raised)
           kept == Abstract!Unexpired(it, e + d)
           res == PruneAndInsert(x, k, r)
<1>1. x \in Fields /\ Sound(x) /\ Fresh(x)
  BY DEF Good, Sound
<1>2. e \in Amounts /\ x.totalWeight \in Amounts /\ D \subseteq Key /\ IsFiniteSet(D)
  BY <1>1, FieldsAre
<1>3. D # {}
  BY FS_EmptySet, MapSizeAssumption DEF MapSizeAssumption
<1>4. \A j \in D : Estimate(x, j) \in Int /\ Estimate(x, j) > e /\ Estimate(x, j) <= MaxInt
  <2>1. \A j \in D : Estimate(x, j) \in Amounts
    BY <1>1, <1>2, CountsAre
  <2> QED BY <1>1, <2>1, AmountsAre DEF Fresh
<1>5. e \in Nat /\ MaxInt \in Nat
  BY <1>2, AmountsAre, MaxIntAssumption DEF MaxIntAssumption
<1>6. /\ least \in Int /\ least > 0 /\ e + least <= MaxInt
      /\ \A j \in D : e + least <= Estimate(x, j)
      /\ least = Abstract!MinEstimate(it) - e
  <2> DEFINE top == At(x, 1).estimate
  <2>1. /\ \E j \in D : top = Estimate(x, j)
        /\ \A j \in D : top <= Estimate(x, j)
        /\ top = Abstract!MinEstimate(it)
    BY <1>3, LeastIs
  <2> HIDE DEF top, it
  <2>2. top \in Int /\ top > e /\ top <= MaxInt
    BY <1>4, <2>1
  <2>3. least = top - e
    BY DEF top
  <2> HIDE DEF least, e, D
  <2> QED BY <1>4, <1>5, <2>1, <2>2, <2>3
<1> HIDE DEF least
<1>7. /\ d \in Nat \ {0} /\ d <= r /\ d <= least /\ e + d \in Amounts /\ e + d > e
      /\ (d # r => r - d > 0)
  BY <1>5, <1>6 DEF Amounts
<1>8. d = Abstract!Consumed(it, e, r)
  BY <1>6 DEF Abstract!Consumed
<1> HIDE DEF d
<1>9. /\ Sound(raised) /\ raised.items = x.items /\ Counts(raised) = it
      /\ raised.maxError = e + d /\ raised.totalWeight = x.totalWeight
      /\ Fresh(raised) <=> \A j \in D : Estimate(x, j) > e + d
  <2>0. PICK z : IsTotalled(z, x, e + d, x.totalWeight)
    BY DEF IsTotalled
  <2>1. /\ Sound(z) /\ z.items = x.items /\ Counts(z) = it
        /\ z.maxError = e + d /\ z.totalWeight = x.totalWeight
        /\ Fresh(z) <=> \A j \in D : Estimate(x, j) > e + d
    BY <1>1, <1>2, <1>7, <2>0, TotalledIs
  <2>2. raised = z
    <3>1. x = [items |-> x.items, heap |-> x.heap, pool |-> x.pool, free |-> x.free,
               maxError |-> x.maxError, totalWeight |-> x.totalWeight]
      BY <1>1, FieldsRecord
    <3> QED BY <2>0, <3>1 DEF IsTotalled
  <2> QED BY <2>1, <2>2
<1> HIDE DEF raised
<1>10. /\ Good(pruned) /\ pruned.maxError = e + d /\ pruned.totalWeight = x.totalWeight
       /\ Counts(pruned) = kept /\ k \notin DOMAIN pruned.items
  <2>1. CASE r < least
    <3>1. pruned = raised /\ d = r
      BY <2>1 DEF d
    <3>2. \A j \in D : Estimate(x, j) > e + d
      <4> HIDE DEF e
      <4> QED BY <1>4, <1>5, <1>6, <1>7, <2>1, <3>1
    <3>3. Good(raised)
      BY <1>9, <3>2 DEF Good
    <3>4. it = kept
      <4>1. \A j \in Key : it[j] = IF j \in D THEN Estimate(x, j) ELSE 0
        BY <1>1, CountsAre
      <4>2. \A j \in Key : it[j] = IF it[j] > e + d THEN it[j] ELSE 0
        <5> HIDE DEF it, e
        <5> QED BY <1>5, <1>7, <3>2, <4>1
      <4>3. it = [j \in Key |-> it[j]]
        BY DEF Counts
      <4> HIDE DEF it, e
      <4> QED BY <4>2, <4>3 DEF Abstract!Unexpired
    <3> HIDE DEF pruned, kept
    <3> QED BY <1>9, <3>1, <3>3, <3>4
  <2>2. CASE ~(r < least)
    <3>1. pruned = RemoveExpired(raised)
      BY <2>2
    <3>2. /\ Good(pruned) /\ pruned.maxError = e + d /\ pruned.totalWeight = x.totalWeight
          /\ DOMAIN pruned.items \subseteq D /\ Counts(pruned) = kept
      <4> HIDE DEF pruned
      <4> QED BY <1>9, <3>1, RemoveExpiredIs
    <3> QED BY <3>2
  <2> QED BY <2>1, <2>2
<1>11. res = IF d = r THEN Ok(pruned)
             ELSE IF Cardinality(DOMAIN pruned.items) >= MapSize THEN Raise(pruned)
             ELSE InsertChecked(pruned, k, e + d + (r - d))
  <2>1. ~(e > MaxInt - d)
    <3>1. e + d <= MaxInt
      BY <1>7, AmountsAre
    <3> HIDE DEF e
    <3> QED BY <1>5, <1>7, <3>1
  <2>2. res = IF e > MaxInt - d THEN Raise(x)
              ELSE IF d = r THEN Ok(pruned)
              ELSE IF Cardinality(DOMAIN pruned.items) >= MapSize THEN Raise(pruned)
              ELSE InsertChecked(pruned, k, pruned.maxError + (r - d))
    BY DEF PruneAndInsert, least, d, raised
  <2>3. pruned.maxError = e + d
    BY <1>10
  <2> HIDE DEF res, pruned, e
  <2> QED BY <2>1, <2>2, <2>3
<1> HIDE DEF pruned, res
<1>12. Abstract!HasRoom(kept) <=> Cardinality(DOMAIN pruned.items) < MapSize
  BY <1>10, RoomIs
<1>13. Cardinality(DOMAIN pruned.items) \in Nat /\ MapSize \in Nat
  BY <1>10, FieldsAre, MapSizeAssumption DEF Good, Sound, MapSizeAssumption
<1>14. CASE d = r
  <2>1. res.fields = pruned /\ res.ok
    BY <1>11, <1>14 DEF Ok
  <2> QED BY <1>8, <1>10, <1>14, <2>1 DEF PrunedAs, res
<1>15. CASE d # r /\ ~ Abstract!HasRoom(kept)
  <2>1. res = Raise(pruned)
    BY <1>11, <1>12, <1>13, <1>15
  <2>2. res.fields = pruned /\ ~ res.ok
    BY <2>1 DEF Raise
  <2> QED BY <1>8, <1>10, <1>15, <2>2 DEF PrunedAs, res
<1>16. CASE d # r /\ Abstract!HasRoom(kept)
  <2>1. res = InsertChecked(pruned, k, e + d + (r - d))
    BY <1>11, <1>12, <1>13, <1>16
  <2>2. e + d + (r - d) \in Int /\ e + d + (r - d) > pruned.maxError
    BY <1>5, <1>7, <1>10, <1>16
  <2>3. Cardinality(DOMAIN pruned.items) < MapSize
    BY <1>12, <1>16
  <2>4. /\ Good(res.fields) /\ res.fields.totalWeight = pruned.totalWeight
        /\ StoredAs(res, Counts(pruned), pruned.maxError, k, e + d + (r - d))
    BY <1>10, <2>1, <2>2, <2>3, StoreIs
  <2> QED BY <1>8, <1>10, <1>16, <2>4 DEF PrunedAs, res
<1> QED BY <1>14, <1>15, <1>16

(* addResidual.                                                            *)
LEMMA AddIs ==
  ASSUME NEW x, Good(x), NEW k \in Key, NEW r \in Nat \ {0}
  PROVE  LET res == AddResidual(x, k, r)
         IN Good(res.fields) /\ res.fields.totalWeight = x.totalWeight
            /\ AddedAs(res, Counts(x), x.maxError, k, r)
<1> DEFINE it == Counts(x)
           res == AddResidual(x, k, r)
<1>1. x \in Fields /\ Fresh(x)
  BY DEF Good, Sound
<1>2. x.maxError \in Nat /\ MapSize \in Nat /\ Cardinality(DOMAIN x.items) \in Nat
  BY <1>1, FieldsAre, AmountsAre, MapSizeAssumption DEF MapSizeAssumption
<1>3. it[k] = Estimate(x, k) /\ (k \notin DOMAIN x.items => it[k] = 0)
  BY <1>1, CountsAre
<1>4. Abstract!HasRoom(it) <=> Cardinality(DOMAIN x.items) < MapSize
  BY RoomIs
<1>5. CASE k \in DOMAIN x.items
  <2>1. res = Bump(x, k, r)
    BY <1>5 DEF AddResidual
  <2>2. /\ Good(res.fields) /\ res.fields.totalWeight = x.totalWeight
        /\ StoredAs(res, it, x.maxError, k, it[k] + r)
    BY <1>5, <2>1, BumpIs
  <2>3. it[k] > 0
    <3>1. it[k] \in Nat /\ it[k] > x.maxError
      BY <1>1, <1>3, <1>5, CountsAre, AmountsAre DEF Fresh
    <3> QED BY <1>2, <3>1
  <2> HIDE DEF res, it
  <2> QED BY <2>2, <2>3 DEF AddedAs, res, it
<1>6. CASE k \notin DOMAIN x.items /\ Cardinality(DOMAIN x.items) < MapSize
  <2>1. res = InsertChecked(x, k, x.maxError + r)
    BY <1>6 DEF AddResidual
  <2>2. x.maxError + r \in Int /\ x.maxError + r > x.maxError
    BY <1>2
  <2>3. /\ Good(res.fields) /\ res.fields.totalWeight = x.totalWeight
        /\ StoredAs(res, it, x.maxError, k, x.maxError + r)
    BY <1>6, <2>1, <2>2, StoreIs
  <2> HIDE DEF res, it
  <2> QED BY <1>3, <1>4, <1>6, <2>3 DEF AddedAs, res, it
<1>7. CASE k \notin DOMAIN x.items /\ ~(Cardinality(DOMAIN x.items) < MapSize)
  <2>1. res = PruneAndInsert(x, k, r)
    BY <1>7 DEF AddResidual
  <2>2. /\ Good(res.fields) /\ res.fields.totalWeight = x.totalWeight
        /\ PrunedAs(res, it, x.maxError, k, r)
    BY <1>7, <2>1, PruneIs
  <2> HIDE DEF res, it
  <2> QED BY <1>3, <1>4, <1>7, <2>2 DEF AddedAs, res, it
<1> QED BY <1>5, <1>6, <1>7

-----------------------------------------------------------------------------
(* The inductive invariant. *)

Pendings == UNION {[S -> 1 .. MaxInt] : S \in SUBSET Key}

IndexedInv ==
  /\ sketch \in [Sketch -> Fields]
  /\ \A s \in Sketch : Good(sketch[s])
  /\ entries \in [Sketch -> Pendings]
  /\ failed \in SUBSET Sketch
  /\ \A s \in failed : entries[s] = NoDict

LEMMA NoDictIs ==
  /\ NoDict \in Pendings /\ DOMAIN NoDict = {}
  /\ Listed(NoDict) = [k \in Key |-> 0]
<1>1. NoDict \in [{} -> 1 .. MaxInt] /\ DOMAIN NoDict = {}
  BY DEF NoDict
<1>2. Listed(NoDict) = [k \in Key |-> 0]
  BY <1>1 DEF Listed
<1> QED BY <1>1, <1>2 DEF Pendings

(* What the entries of a merge under way look like.                        *)
LEMMA PendingIs ==
  ASSUME NEW d \in Pendings
  PROVE  /\ d \in [DOMAIN d -> 1 .. MaxInt] /\ DOMAIN d \subseteq Key
         /\ \A k \in Key : Listed(d)[k] = IF k \in DOMAIN d THEN d[k] ELSE 0
         /\ \A k \in DOMAIN d : d[k] \in Nat \ {0}
<1>1. PICK S \in SUBSET Key : d \in [S -> 1 .. MaxInt]
  BY DEF Pendings
<1>2. \A k \in DOMAIN d : d[k] \in Nat \ {0}
  BY <1>1, MaxIntAssumption DEF MaxIntAssumption
<1> QED BY <1>1, <1>2 DEF Listed

\* What merge retains of two sketches.
LEMMA CombinedIs ==
  ASSUME NEW x, Good(x), NEW y, Good(y)
  PROVE  /\ Combined(x, y) \in Pendings
         /\ Listed(Combined(x, y)) =
              [k \in Key |-> Abstract!Saturate(Abstract!LowerBound(Counts(x), x.maxError, k)
                                        + Abstract!LowerBound(Counts(y), y.maxError, k))]
<1> DEFINE Sum(k) == Residual(x, k) + Residual(y, k)
           Present == {k \in DOMAIN x.items \cup DOMAIN y.items : Sum(k) > 0}
           c == Combined(x, y)
<1>1. ASSUME NEW z, Good(z)
      PROVE  /\ DOMAIN z.items \subseteq Key
             /\ \A k \in Key : /\ Residual(z, k) \in Nat
                               /\ Residual(z, k) = Abstract!LowerBound(Counts(z), z.maxError, k)
                               /\ k \notin DOMAIN z.items => Residual(z, k) = 0
                               /\ Residual(z, k) > 0 => MaxInt > 0
  <2>1. z \in Fields /\ Fresh(z)
    BY <1>1 DEF Good, Sound
  <2>2. DOMAIN z.items \subseteq Key /\ z.maxError \in Amounts
    BY <2>1, FieldsAre
  <2>3. z.maxError \in Nat
    BY <2>2, AmountsAre
  <2>4. ASSUME NEW k \in Key
        PROVE  /\ Residual(z, k) \in Nat
               /\ Residual(z, k) = Abstract!LowerBound(Counts(z), z.maxError, k)
               /\ k \notin DOMAIN z.items => Residual(z, k) = 0
               /\ Residual(z, k) > 0 => MaxInt > 0
    <3>1. Counts(z)[k] = Estimate(z, k) /\ Estimate(z, k) \in Amounts
      BY <2>1, CountsAre
    <3>2. CASE k \in DOMAIN z.items
      <4>1. Estimate(z, k) \in Nat /\ Estimate(z, k) > z.maxError /\ Estimate(z, k) <= MaxInt
        BY <2>1, <3>1, <3>2, AmountsAre DEF Fresh
      <4>2. Residual(z, k) = Estimate(z, k) - z.maxError
        BY <3>2 DEF Residual
      <4>3. Abstract!LowerBound(Counts(z), z.maxError, k) = Estimate(z, k) - z.maxError
        BY <3>1, <4>1 DEF Abstract!LowerBound
      <4> QED BY <2>3, <3>2, <4>1, <4>2, <4>3, MaxIntAssumption DEF MaxIntAssumption
    <3>3. CASE k \notin DOMAIN z.items
      <4>1. Residual(z, k) = 0
        BY <3>3 DEF Residual
      <4>2. Counts(z)[k] = 0
        BY <2>1, <3>3, CountsAre
      <4>3. Abstract!LowerBound(Counts(z), z.maxError, k) = 0
        BY <2>3, <4>2 DEF Abstract!LowerBound
      <4> QED BY <4>1, <4>3
    <3> QED BY <3>2, <3>3
  <2> QED BY <2>2, <2>4
<1>2. Present \in SUBSET Key /\ DOMAIN c = Present
  <2>1. DOMAIN x.items \subseteq Key /\ DOMAIN y.items \subseteq Key
    BY <1>1
  <2>2. DOMAIN c = Present
    BY DEF Combined
  <2> QED BY <2>1, <2>2
<1>3. \A k \in Present : c[k] = IF Sum(k) > MaxInt THEN MaxInt ELSE Sum(k)
  BY DEF Combined
<1>4. c = [k \in Present |-> c[k]]
  BY DEF Combined
<1>5. \A k \in Key : /\ Residual(x, k) \in Nat /\ Residual(y, k) \in Nat
                     /\ k \notin DOMAIN x.items => Residual(x, k) = 0
                     /\ k \notin DOMAIN y.items => Residual(y, k) = 0
                     /\ Residual(x, k) > 0 => MaxInt > 0
                     /\ Residual(y, k) > 0 => MaxInt > 0
  BY <1>1
<1>6. \A k \in Key : Sum(k) \in Nat /\ (k \notin Present => Sum(k) = 0) /\ (Sum(k) > 0 => MaxInt > 0)
  <2>1. ASSUME NEW k \in Key
        PROVE  Sum(k) \in Nat /\ (k \notin Present => Sum(k) = 0) /\ (Sum(k) > 0 => MaxInt > 0)
    <3>1. /\ Residual(x, k) \in Nat /\ Residual(y, k) \in Nat
          /\ k \notin DOMAIN x.items => Residual(x, k) = 0
          /\ k \notin DOMAIN y.items => Residual(y, k) = 0
          /\ Residual(x, k) > 0 => MaxInt > 0
          /\ Residual(y, k) > 0 => MaxInt > 0
      BY <1>5
    <3>2. Sum(k) = 0 \/ Sum(k) > 0
      BY <3>1
    <3> QED BY <3>1, <3>2
  <2> QED BY <2>1
<1>7. \A k \in Key : Sum(k) = Abstract!LowerBound(Counts(x), x.maxError, k)
                                + Abstract!LowerBound(Counts(y), y.maxError, k)
  <2>1. \A k \in Key : Residual(x, k) = Abstract!LowerBound(Counts(x), x.maxError, k)
    BY <1>1
  <2>2. \A k \in Key : Residual(y, k) = Abstract!LowerBound(Counts(y), y.maxError, k)
    BY <1>1
  <2> QED BY <2>1, <2>2
<1>8. \A k \in Present : Sum(k) > 0
  OBVIOUS
<1> HIDE DEF Sum, Present, c
<1>9. c \in Pendings
  <2>1. \A k \in Present : c[k] \in 1 .. MaxInt
    <3>1. ASSUME NEW k \in Present PROVE c[k] \in 1 .. MaxInt
      <4>1. Sum(k) \in Nat /\ Sum(k) > 0 /\ MaxInt > 0
        BY <1>2, <1>6, <1>8
      <4>2. c[k] = IF Sum(k) > MaxInt THEN MaxInt ELSE Sum(k)
        BY <1>3
      <4> QED BY <4>1, <4>2, MaxIntAssumption DEF MaxIntAssumption
    <3> QED BY <3>1
  <2>2. c \in [Present -> 1 .. MaxInt]
    BY <1>4, <2>1
  <2> QED BY <1>2, <2>2 DEF Pendings
<1>10. \A k \in Key : Listed(c)[k] = Abstract!Saturate(Sum(k))
  <2>1. ASSUME NEW k \in Key PROVE Listed(c)[k] = Abstract!Saturate(Sum(k))
    <3>1. Listed(c)[k] = IF k \in Present THEN c[k] ELSE 0
      BY <1>2 DEF Listed
    <3>2. CASE k \in Present
      BY <1>3, <3>1, <3>2 DEF Abstract!Saturate
    <3>3. CASE k \notin Present
      <4>1. Sum(k) = 0
        BY <1>6, <3>3
      <4> QED BY <3>1, <3>3, <4>1, MaxIntAssumption DEF Abstract!Saturate, MaxIntAssumption
    <3> QED BY <3>2, <3>3
  <2> QED BY <2>1
<1>11. Listed(c) = [k \in Key |-> Listed(c)[k]]
  BY DEF Listed
<1>12. Listed(c) =
              [k \in Key |-> Abstract!Saturate(Abstract!LowerBound(Counts(x), x.maxError, k)
                                        + Abstract!LowerBound(Counts(y), y.maxError, k))]
  BY <1>7, <1>10, <1>11
<1> QED BY <1>9, <1>12 DEF c
-----------------------------------------------------------------------------
(* The instances as FrequentItems sees them. *)

AbsItems == [s \in Sketch |-> Counts(sketch[s])]
AbsError == [s \in Sketch |-> sketch[s].maxError]
AbsTotal == [s \in Sketch |-> sketch[s].totalWeight]
AbsPending == [s \in Sketch |-> Listed(entries[s])]

(* One instance changes: how the mapped counters do.                       *)
LEMMA SketchChanges ==
  ASSUME IndexedInv, NEW s \in Sketch, NEW x, sketch' = [sketch EXCEPT ![s] = x]
  PROVE  /\ AbsItems' = [AbsItems EXCEPT ![s] = Counts(x)]
         /\ AbsError' = [AbsError EXCEPT ![s] = x.maxError]
         /\ AbsTotal' = [AbsTotal EXCEPT ![s] = x.totalWeight]
<1>1. \A t \in Sketch : sketch'[t] = IF t = s THEN x ELSE sketch[t]
  BY DEF IndexedInv
<1>2. AbsItems' = [t \in Sketch |-> Counts(sketch'[t])]
  BY DEF AbsItems, Counts, Estimate
<1>3. \A t \in Sketch : Counts(sketch'[t])
                          = IF t = s THEN Counts(x) ELSE Counts(sketch[t])
  BY <1>1
<1>4. AbsItems' = [t \in Sketch |-> IF t = s THEN Counts(x) ELSE Counts(sketch[t])]
  BY <1>2, <1>3
<1>5. AbsItems' = [AbsItems EXCEPT ![s] = Counts(x)]
  BY <1>4 DEF AbsItems
<1>6. AbsError' = [AbsError EXCEPT ![s] = x.maxError]
  <2>1. \A t \in Sketch : sketch'[t].maxError = IF t = s THEN x.maxError ELSE sketch[t].maxError
    BY <1>1
  <2>2. AbsError' = [t \in Sketch |-> sketch'[t].maxError]
    BY DEF AbsError
  <2> QED BY <2>1, <2>2 DEF AbsError
<1>7. AbsTotal' = [AbsTotal EXCEPT ![s] = x.totalWeight]
  <2>1. \A t \in Sketch : sketch'[t].totalWeight = IF t = s THEN x.totalWeight ELSE sketch[t].totalWeight
    BY <1>1
  <2>2. AbsTotal' = [t \in Sketch |-> sketch'[t].totalWeight]
    BY DEF AbsTotal
  <2> QED BY <2>1, <2>2 DEF AbsTotal
<1> QED BY <1>5, <1>6, <1>7

(* One instance's entries change: how the mapped residuals do.             *)
LEMMA EntriesChange ==
  ASSUME IndexedInv, NEW s \in Sketch, NEW d, entries' = [entries EXCEPT ![s] = d]
  PROVE  AbsPending' = [AbsPending EXCEPT ![s] = Listed(d)]
<1>1. \A t \in Sketch : entries'[t] = IF t = s THEN d ELSE entries[t]
  BY DEF IndexedInv
<1>2. AbsPending' = [t \in Sketch |-> Listed(entries'[t])]
  BY DEF AbsPending, Listed
<1>3. \A t \in Sketch : Listed(entries'[t]) = IF t = s THEN Listed(d) ELSE Listed(entries[t])
  BY <1>1
<1>4. AbsPending' = [t \in Sketch |-> IF t = s THEN Listed(d) ELSE Listed(entries[t])]
  BY <1>2, <1>3
<1> QED BY <1>4 DEF AbsPending

LEMMA EntriesStay ==
  ASSUME entries' = entries PROVE AbsPending' = AbsPending
BY DEF AbsPending, Listed

\* An insertion changes the fields and the failures as Store does.
LEMMA StoreStep ==
  ASSUME IndexedInv, NEW s \in Sketch, NEW res, Outcome(s, res),
         NEW it, NEW e, NEW k, NEW n, StoredAs(res, it, e, k, n)
  PROVE  Abstract!Store(s, it, e, k, n)
<1>1. /\ AbsItems' = [AbsItems EXCEPT ![s] = Counts(res.fields)]
      /\ AbsError' = [AbsError EXCEPT ![s] = e]
  BY SketchChanges DEF Outcome, StoredAs
<1>2. n <= MaxInt => Counts(res.fields) = [it EXCEPT ![k] = n] /\ failed' = failed
  BY DEF Outcome, StoredAs
<1>3. ~(n <= MaxInt) => Counts(res.fields) = it /\ failed' = failed \cup {s}
  BY DEF Outcome, StoredAs
<1> QED BY <1>1, <1>2, <1>3 DEF Abstract!Store, AbsItems, AbsError

LEMMA AddStep ==
  ASSUME IndexedInv, NEW s \in Sketch, NEW x, Good(x), Counts(x) = Counts(sketch[s]),
         x.maxError = sketch[s].maxError, NEW k \in Key, NEW r \in Nat \ {0},
         Outcome(s, AddResidual(x, k, r))
  PROVE  Abstract!AddResidual(s, k, r)
<1>a. PICK it : it = AbsItems[s]
  OBVIOUS
<1>b. PICK e : e = AbsError[s]
  OBVIOUS
<1> DEFINE res == AddResidual(x, k, r)
           d == Abstract!Consumed(it, e, r)
           kept == Abstract!Unexpired(it, e + d)
<1>1. it = Counts(x) /\ e = x.maxError
  BY <1>a, <1>b DEF AbsItems, AbsError
<1>2. AddedAs(res, it, e, k, r)
  BY <1>1, AddIs
<1>3. /\ AbsItems' = [AbsItems EXCEPT ![s] = Counts(res.fields)]
      /\ AbsError' = [AbsError EXCEPT ![s] = res.fields.maxError]
      /\ failed' = IF res.ok THEN failed ELSE failed \cup {s}
  BY SketchChanges DEF Outcome
<1>4. \A i, f, n : StoredAs(res, i, f, k, n) => Abstract!Store(s, i, f, k, n)
  BY StoreStep
<1> HIDE DEF res
<1>5. CASE it[k] > 0 /\ StoredAs(res, it, e, k, it[k] + r)
  <2>1. Abstract!Store(s, it, e, k, it[k] + r)
    BY <1>4, <1>5
  <2> QED BY <1>a, <1>b, <1>5, <2>1 DEF Abstract!AddResidual, Abstract!Store, AbsItems, AbsError
<1>6. CASE it[k] = 0 /\ Abstract!HasRoom(it) /\ StoredAs(res, it, e, k, e + r)
  <2>1. Abstract!Store(s, it, e, k, e + r)
    BY <1>4, <1>6
  <2> QED BY <1>a, <1>b, <1>6, <2>1 DEF Abstract!AddResidual, Abstract!Store, AbsItems, AbsError
<1>7. CASE it[k] = 0 /\ ~ Abstract!HasRoom(it) /\ PrunedAs(res, it, e, k, r)
  <2>1. Abstract!PruneAndStore(s, k, r)
    <3>1. CASE d = r
      <4>1. AbsItems' = [AbsItems EXCEPT ![s] = kept] /\ AbsError' = [AbsError EXCEPT ![s] = e + d]
            /\ failed' = failed
        BY <1>3, <1>7, <3>1 DEF PrunedAs
      <4> QED BY <1>a, <1>b, <3>1, <4>1 DEF Abstract!PruneAndStore, Abstract!Store, AbsItems, AbsError
    <3>2. CASE d # r /\ ~ Abstract!HasRoom(kept)
      <4>1. AbsItems' = [AbsItems EXCEPT ![s] = kept] /\ AbsError' = [AbsError EXCEPT ![s] = e + d]
            /\ failed' = failed \cup {s}
        BY <1>3, <1>7, <3>2 DEF PrunedAs
      <4> QED BY <1>a, <1>b, <3>2, <4>1 DEF Abstract!PruneAndStore, Abstract!Store, AbsItems, AbsError
    <3>3. CASE d # r /\ Abstract!HasRoom(kept)
      <4>1. StoredAs(res, kept, e + d, k, e + d + (r - d))
        BY <1>7, <3>3 DEF PrunedAs
      <4>2. Abstract!Store(s, kept, e + d, k, e + d + (r - d))
        BY <1>4, <4>1
      <4> QED BY <1>a, <1>b, <3>3, <4>2 DEF Abstract!PruneAndStore, Abstract!Store, AbsItems, AbsError
    <3> QED BY <3>1, <3>2, <3>3
  <2> QED BY <1>a, <1>b, <1>7, <2>1 DEF Abstract!AddResidual, AbsItems, AbsError
<1> QED BY <1>2, <1>5, <1>6, <1>7 DEF AddedAs

LEMMA UsableIs ==
  ASSUME IndexedInv, NEW s \in Sketch
  PROVE  /\ Usable(s) => Abstract!Usable(s)
         /\ entries[s] = NoDict => Abstract!Idle(s)
<1>1. entries[s] = NoDict => AbsPending[s] = [k \in Key |-> 0]
  BY NoDictIs DEF AbsPending
<1> QED BY <1>1 DEF AbsPending, Usable, Abstract!Usable, Abstract!Idle, Abstract!None
-----------------------------------------------------------------------------
(* Every action keeps the invariant and is an action of FrequentItems. *)

LEMMA SketchKept ==
  ASSUME IndexedInv, NEW s \in Sketch, NEW x, Good(x), sketch' = [sketch EXCEPT ![s] = x]
  PROVE  sketch' \in [Sketch -> Fields] /\ \A t \in Sketch : Good(sketch'[t])
<1>1. x \in Fields
  BY DEF Good, Sound
<1>2. \A t \in Sketch : sketch'[t] = IF t = s THEN x ELSE sketch[t]
  BY DEF IndexedInv
<1> QED BY <1>1, <1>2 DEF IndexedInv

LEMMA EntriesKept ==
  ASSUME IndexedInv, NEW s \in Sketch, NEW d \in Pendings, entries' = [entries EXCEPT ![s] = d]
  PROVE  entries' \in [Sketch -> Pendings] /\ \A t \in Sketch : entries'[t] = IF t = s THEN d ELSE entries[t]
BY DEF IndexedInv

(* One lemma for each action: the invariant, and the action of the         *)
(* specification.                                                          *)
LEMMA AddHashStep ==
  ASSUME IndexedInv, NEW s \in Sketch, NEW k \in Key, NEW w \in Weight, AddHash(s, k, w)
  PROVE  IndexedInv' /\ Abstract!AddHash(s, k, w)
<1>1. PICK x : x = [sketch[s] EXCEPT !.totalWeight = @ + w]
  OBVIOUS
<1>2. PICK y : y = sketch[s]
  OBVIOUS
<1>3. PICK n : n = y.totalWeight + w
  OBVIOUS
<1>4. Good(y) /\ y \in Fields
  BY <1>2 DEF IndexedInv
<1>5. w \in Int /\ w > 0 /\ y.totalWeight <= MaxInt - w /\ Usable(s)
  BY <1>2, WeightAssumption DEF AddHash, Addable, WeightAssumption
<1>6. n \in Amounts /\ w \in Nat \ {0} /\ y.totalWeight \in Int
  <2>1. y.totalWeight \in Amounts
    BY <1>4, FieldsAre
  <2>2. y.totalWeight \in Nat
    BY <2>1, AmountsAre
  <2> QED BY <1>3, <1>5, <2>2, MaxIntAssumption DEF Amounts, MaxIntAssumption
<1>7. x = [y EXCEPT !.totalWeight = n]
  BY <1>1, <1>2, <1>3
<1>8. Good(x) /\ Counts(x) = Counts(y) /\ x.maxError = y.maxError /\ x.totalWeight = n
  <2>0. PICK z : IsTotalled(z, y, y.maxError, n)
    BY DEF IsTotalled
  <2>1. y.maxError \in Amounts /\ Sound(y) /\ Fresh(y)
    BY <1>4, FieldsAre DEF Good
  <2>2. /\ Sound(z) /\ Counts(z) = Counts(y) /\ z.maxError = y.maxError /\ z.totalWeight = n
        /\ Fresh(z) <=> \A j \in DOMAIN y.items : Estimate(y, j) > y.maxError
    BY <1>6, <2>0, <2>1, TotalledIs
  <2>3. x = z
    <3>1. y = [items |-> y.items, heap |-> y.heap, pool |-> y.pool, free |-> y.free,
               maxError |-> y.maxError, totalWeight |-> y.totalWeight]
      BY <1>4, FieldsRecord
    <3> QED BY <1>7, <2>0, <3>1 DEF IsTotalled
  <2>4. Fresh(z)
    BY <2>1, <2>2 DEF Fresh
  <2> QED BY <2>2, <2>3, <2>4 DEF Good
<1>9. Outcome(s, AddResidual(x, k, w)) /\ entries' = entries
      /\ truth' = [truth EXCEPT ![s][k] = @ + w]
  BY <1>1 DEF AddHash
<1>10. /\ Good(AddResidual(x, k, w).fields) /\ AddResidual(x, k, w).fields.totalWeight = n
  BY <1>6, <1>8, AddIs
<1>11. sketch' = [sketch EXCEPT ![s] = AddResidual(x, k, w).fields]
       /\ failed' \in SUBSET (failed \cup {s}) /\ failed \subseteq failed'
  BY <1>9 DEF Outcome
<1>12. IndexedInv'
  <2>1. sketch' \in [Sketch -> Fields] /\ \A t \in Sketch : Good(sketch'[t])
    BY <1>10, <1>11, SketchKept
  <2>2. entries[s] = NoDict
    BY <1>5 DEF Usable
  <2> QED BY <1>9, <1>11, <2>1, <2>2 DEF IndexedInv
<1>13. Abstract!AddResidual(s, k, w)
  BY <1>2, <1>6, <1>8, <1>9, AddStep
<1>14. AbsTotal' = [AbsTotal EXCEPT ![s] = @ + w]
  <2>1. AbsTotal' = [AbsTotal EXCEPT ![s] = n]
    BY <1>10, <1>11, SketchChanges
  <2> QED BY <1>2, <1>3, <2>1 DEF AbsTotal
<1>15. Abstract!Usable(s)
  BY <1>5, UsableIs
<1>16. AbsPending' = AbsPending
  BY <1>9, EntriesStay
<1>17. Abstract!AddHash(s, k, w)
  BY <1>2, <1>5, <1>9, <1>13, <1>14, <1>15, <1>16 DEF Abstract!AddHash, AbsTotal, AbsPending
<1> QED BY <1>12, <1>17

LEMMA VarsStay ==
  ASSUME UNCHANGED vars
  PROVE  /\ AbsItems' = AbsItems /\ AbsError' = AbsError /\ AbsTotal' = AbsTotal
         /\ AbsPending' = AbsPending /\ failed' = failed /\ truth' = truth
         /\ IndexedInv => IndexedInv'
<1>1. sketch' = sketch /\ entries' = entries /\ failed' = failed /\ truth' = truth
  BY DEF vars
<1>2. IndexedInv => IndexedInv'
  BY <1>1 DEF IndexedInv
<1> QED BY <1>1, <1>2 DEF AbsItems, AbsError, AbsTotal, AbsPending, Counts, Estimate, Listed

LEMMA AddRefusedStep ==
  ASSUME IndexedInv, NEW s \in Sketch, NEW w \in Weight, AddRefused(s, w)
  PROVE  IndexedInv' /\ Abstract!AddRefused(s, w)
<1>1. Usable(s) /\ ~ Addable(s, w) /\ UNCHANGED vars
  BY DEF AddRefused
<1>2. sketch[s].totalWeight \in Int /\ w \in Int
  <2>1. sketch[s] \in Fields
    BY DEF IndexedInv
  <2>2. sketch[s].totalWeight \in Amounts
    BY <2>1, FieldsAre
  <2> QED BY <2>2, AmountsAre, WeightAssumption DEF WeightAssumption
<1>3. w <= 0 \/ sketch[s].totalWeight > MaxInt - w
  BY <1>1, <1>2, MaxIntAssumption DEF Addable, MaxIntAssumption
<1>4. Abstract!Usable(s)
  BY <1>1, UsableIs
<1>5. UNCHANGED Abstract!vars
  BY <1>1, VarsStay DEF Abstract!vars, AbsItems, AbsError, AbsTotal, AbsPending
<1> QED BY <1>1, <1>3, <1>4, <1>5, VarsStay DEF Abstract!AddRefused

LEMMA MergeRefusedStep ==
  ASSUME IndexedInv, NEW s \in Sketch, NEW t \in Sketch, MergeRefused(s, t)
  PROVE  IndexedInv' /\ Abstract!MergeRefused(s, t)
<1>1. Usable(s) /\ Usable(t) /\ ~ Mergeable(s, t) /\ UNCHANGED vars
  BY DEF MergeRefused
<1>2. ~ Abstract!Mergeable(s, t)
  BY <1>1 DEF Mergeable, Abstract!Mergeable
<1>3. Abstract!Usable(s) /\ Abstract!Usable(t)
  BY <1>1, UsableIs
<1>4. UNCHANGED Abstract!vars
  BY <1>1, VarsStay DEF Abstract!vars, AbsItems, AbsError, AbsTotal, AbsPending
<1> QED BY <1>1, <1>2, <1>3, <1>4, VarsStay DEF Abstract!MergeRefused

LEMMA MergeBeginStep ==
  ASSUME IndexedInv, NEW s \in Sketch, NEW t \in Sketch, MergeBegin(s, t)
  PROVE  IndexedInv' /\ Abstract!MergeBegin(s, t)
<1>1. PICK x : x = sketch[s]
  OBVIOUS
<1>2. PICK y : y = sketch[t]
  OBVIOUS
<1>3. PICK z : IsEmptied(z, x.maxError + y.maxError, x.totalWeight + y.totalWeight)
  BY DEF IsEmptied
<1>4. Good(x) /\ Good(y) /\ x \in Fields /\ y \in Fields
  BY <1>1, <1>2 DEF IndexedInv
<1>5. /\ Usable(s) /\ Usable(t) /\ Keying[s] = Keying[t]
      /\ x.totalWeight <= MaxInt - y.totalWeight /\ x.maxError <= MaxInt - y.maxError
      /\ entries' = [entries EXCEPT ![s] = Combined(x, y)]
      /\ sketch' = [sketch EXCEPT ![s] = z]
      /\ truth' = [truth EXCEPT ![s] = [k \in Key |-> truth[s][k] + truth[t][k]]]
      /\ failed' = failed
  BY <1>1, <1>2, <1>3 DEF MergeBegin, Mergeable, IsEmptied
<1>6. x.totalWeight + y.totalWeight \in Amounts /\ x.maxError + y.maxError \in Amounts
  <2>1. x.totalWeight \in Amounts /\ y.totalWeight \in Amounts /\ x.maxError \in Amounts /\ y.maxError \in Amounts
    BY <1>4, FieldsAre
  <2>2. x.totalWeight \in Nat /\ y.totalWeight \in Nat /\ x.maxError \in Nat /\ y.maxError \in Nat
    BY <2>1, AmountsAre
  <2> QED BY <1>5, <2>2, MaxIntAssumption DEF Amounts, MaxIntAssumption
<1>7. /\ Good(z) /\ Counts(z) = [k \in Key |-> 0]
      /\ z.totalWeight = x.totalWeight + y.totalWeight /\ z.maxError = x.maxError + y.maxError
  <2> DEFINE e == x.maxError + y.maxError
             w == x.totalWeight + y.totalWeight
  <2> HIDE DEF e, w
  <2>1. e \in Amounts /\ w \in Amounts /\ IsEmptied(z, e, w)
    BY <1>3, <1>6 DEF e, w
  <2>2. Good(z) /\ Counts(z) = [k \in Key |-> 0] /\ z.maxError = e /\ z.totalWeight = w
    BY <2>1, EmptySound
  <2> QED BY <2>2 DEF e, w
<1>9. Combined(x, y) \in Pendings
  BY <1>4, CombinedIs
<1>10. IndexedInv'
  <2>1. sketch' \in [Sketch -> Fields] /\ \A u \in Sketch : Good(sketch'[u])
    BY <1>5, <1>7, SketchKept
  <2>2. /\ entries' \in [Sketch -> Pendings]
        /\ \A u \in Sketch : entries'[u] = IF u = s THEN Combined(x, y) ELSE entries[u]
    BY <1>5, <1>9, EntriesKept
  <2>3. s \notin failed
    BY <1>5 DEF Usable
  <2> QED BY <1>5, <2>1, <2>2, <2>3 DEF IndexedInv
<1>11. /\ AbsItems' = [AbsItems EXCEPT ![s] = [k \in Key |-> 0]]
       /\ AbsError' = [AbsError EXCEPT ![s] = x.maxError + y.maxError]
       /\ AbsTotal' = [AbsTotal EXCEPT ![s] = x.totalWeight + y.totalWeight]
  <2>1. /\ AbsItems' = [AbsItems EXCEPT ![s] = Counts(z)]
        /\ AbsError' = [AbsError EXCEPT ![s] = z.maxError]
        /\ AbsTotal' = [AbsTotal EXCEPT ![s] = z.totalWeight]
    BY <1>5, SketchChanges
  <2> QED BY <1>7, <2>1
<1>12. AbsItems[s] = Counts(x) /\ AbsError[s] = x.maxError /\ AbsTotal[s] = x.totalWeight
       /\ AbsItems[t] = Counts(y) /\ AbsError[t] = y.maxError /\ AbsTotal[t] = y.totalWeight
  BY <1>1, <1>2 DEF AbsItems, AbsError, AbsTotal
<1>13. AbsPending' = [AbsPending EXCEPT ![s] =
         [k \in Key |-> Abstract!Saturate(Abstract!LowerBound(AbsItems[s], AbsError[s], k)
                                        + Abstract!LowerBound(AbsItems[t], AbsError[t], k))]]
  <2>1. AbsPending' = [AbsPending EXCEPT ![s] = Listed(Combined(x, y))]
    BY <1>5, <1>9, EntriesChange
  <2>2. Listed(Combined(x, y)) =
          [k \in Key |-> Abstract!Saturate(Abstract!LowerBound(Counts(x), x.maxError, k)
                                        + Abstract!LowerBound(Counts(y), y.maxError, k))]
    BY <1>4, CombinedIs
  <2>3. Listed(Combined(x, y)) =
          [k \in Key |-> Abstract!Saturate(Abstract!LowerBound(AbsItems[s], AbsError[s], k)
                                        + Abstract!LowerBound(AbsItems[t], AbsError[t], k))]
    BY <1>12, <2>2
  <2> QED BY <2>1, <2>3
<1>14. AbsPending' = [AbsPending EXCEPT ![s] = Abstract!Combined(s, t)]
  BY <1>13 DEF Abstract!Combined, AbsItems, AbsError
<1>15. Abstract!Usable(s) /\ Abstract!Usable(t)
  BY <1>5, UsableIs
<1>16. Abstract!Mergeable(s, t)
  BY <1>1, <1>2, <1>5 DEF Abstract!Mergeable
<1>17. AbsError' = [AbsError EXCEPT ![s] = Abstract!MergedError(s, t)]
       /\ AbsTotal' = [AbsTotal EXCEPT ![s] = Abstract!MergedTotal(s, t)]
  BY <1>11, <1>12 DEF Abstract!MergedError, Abstract!MergedTotal, AbsError, AbsTotal
<1>18. AbsItems' = [AbsItems EXCEPT ![s] = Abstract!None]
  BY <1>11 DEF Abstract!None
<1>19. Abstract!MergeBegin(s, t)
  BY <1>5, <1>14, <1>15, <1>16, <1>17, <1>18
     DEF Abstract!MergeBegin, AbsItems, AbsError, AbsTotal, AbsPending
<1> QED BY <1>10, <1>19
LEMMA MergeStepStep ==
  ASSUME IndexedInv, NEW s \in Sketch, NEW k \in Key, MergeStep(s, k)
  PROVE  IndexedInv' /\ Abstract!MergeStep(s, k)
<1>1. PICK x : x = sketch[s]
  OBVIOUS
<1>2. PICK d : d = entries[s]
  OBVIOUS
<1>3. PICK r : r = d[k]
  OBVIOUS
<1>4. Good(x) /\ d \in Pendings
  BY <1>1, <1>2 DEF IndexedInv
<1>5. /\ k \in DOMAIN d /\ (\A j \in DOMAIN d : k <= j)
      /\ Outcome(s, AddResidual(x, k, r))
      /\ entries' = [entries EXCEPT ![s] = IF s \in failed' THEN NoDict ELSE Without(@, k)]
      /\ truth' = truth
  BY <1>1, <1>2, <1>3 DEF MergeStep
<1>6. r \in Nat \ {0}
  BY <1>3, <1>4, <1>5, PendingIs
<1>7. s \notin failed
  <2>1. SUFFICES ASSUME s \in failed PROVE FALSE
    OBVIOUS
  <2>2. d = NoDict
    BY <1>2, <2>1 DEF IndexedInv
  <2> QED BY <1>5, <2>2, NoDictIs
<1>8. Good(AddResidual(x, k, r).fields) /\ AddResidual(x, k, r).fields.totalWeight = x.totalWeight
  BY <1>4, <1>6, AddIs
<1>9. sketch' = [sketch EXCEPT ![s] = AddResidual(x, k, r).fields]
      /\ (failed' = failed \/ failed' = failed \cup {s})
  BY <1>5 DEF Outcome
<1>10. PICK rest : rest = IF s \in failed' THEN NoDict ELSE Without(d, k)
  OBVIOUS
<1>11. entries' = [entries EXCEPT ![s] = rest]
  BY <1>2, <1>5, <1>10
<1>12. /\ Without(d, k) \in Pendings
       /\ Listed(Without(d, k)) = [Listed(d) EXCEPT ![k] = 0]
  <2>1. d \in [DOMAIN d -> 1 .. MaxInt] /\ DOMAIN d \subseteq Key
    BY <1>4, PendingIs
  <2>2. Without(d, k) = [j \in DOMAIN d \ {k} |-> d[j]]
    BY DEF Without, Restrict
  <2>3. Without(d, k) \in [DOMAIN d \ {k} -> 1 .. MaxInt]
    BY <2>1, <2>2
  <2>4. Without(d, k) \in Pendings
    BY <2>1, <2>3 DEF Pendings
  <2>5. Listed(Without(d, k)) = [Listed(d) EXCEPT ![k] = 0]
    BY <2>2 DEF Listed
  <2> QED BY <2>4, <2>5
<1>13. rest \in Pendings
  BY <1>10, <1>12, NoDictIs
<1>14. IndexedInv'
  <2>1. sketch' \in [Sketch -> Fields] /\ \A t \in Sketch : Good(sketch'[t])
    BY <1>8, <1>9, SketchKept
  <2>2. /\ entries' \in [Sketch -> Pendings]
        /\ \A t \in Sketch : entries'[t] = IF t = s THEN rest ELSE entries[t]
    BY <1>11, <1>13, EntriesKept
  <2>3. \A t \in failed' : entries'[t] = NoDict
    BY <1>9, <1>10, <2>2 DEF IndexedInv
  <2>4. failed' \in SUBSET Sketch
    BY <1>9 DEF IndexedInv
  <2> QED BY <2>1, <2>2, <2>3, <2>4 DEF IndexedInv
<1>15. Abstract!AddResidual(s, k, r)
  BY <1>1, <1>4, <1>5, <1>6, AddStep
<1>16. AbsTotal' = AbsTotal
  <2>0. AbsTotal' = [AbsTotal EXCEPT ![s] = AddResidual(x, k, r).fields.totalWeight]
    BY <1>9, SketchChanges
  <2>1. AbsTotal' = [AbsTotal EXCEPT ![s] = x.totalWeight]
    BY <1>8, <2>0
  <2> QED BY <1>1, <2>1 DEF AbsTotal
<1>17. AbsPending[s] = Listed(d)
  BY <1>2 DEF AbsPending
<1>18. \A j \in Key : Listed(d)[j] = IF j \in DOMAIN d THEN d[j] ELSE 0
  BY <1>4, PendingIs
<1>19. AbsPending[s][k] = r /\ r > 0 /\ \A j \in Key : AbsPending[s][j] > 0 => k <= j
  <2>1. AbsPending[s][k] = r /\ r > 0
    BY <1>3, <1>5, <1>6, <1>17, <1>18
  <2>2. ASSUME NEW j \in Key, AbsPending[s][j] > 0 PROVE k <= j
    <3>1. j \in DOMAIN d
      BY <1>17, <1>18, <2>2
    <3> QED BY <1>5, <3>1
  <2> QED BY <2>1, <2>2
<1>20. AbsPending' = [AbsPending EXCEPT ![s] =
         IF s \in failed' THEN [j \in Key |-> 0] ELSE [AbsPending[s] EXCEPT ![k] = 0]]
  <2>1. AbsPending' = [AbsPending EXCEPT ![s] = Listed(rest)]
    BY <1>11, EntriesChange
  <2>2. Listed(rest) = IF s \in failed' THEN [j \in Key |-> 0] ELSE [AbsPending[s] EXCEPT ![k] = 0]
    BY <1>10, <1>12, <1>17, NoDictIs
  <2> QED BY <2>1, <2>2
<1>21. Abstract!IsNext(s, k)
  BY <1>19 DEF Abstract!IsNext, AbsPending
<1>22. Abstract!AddResidual(s, k, AbsPending[s][k])
  BY <1>15, <1>19 DEF Abstract!AddResidual, Abstract!Store, Abstract!PruneAndStore
<1>23. Abstract!MergeStep(s, k)
  BY <1>5, <1>7, <1>16, <1>20, <1>21, <1>22
     DEF Abstract!MergeStep, Abstract!None, AbsTotal, AbsPending
<1> QED BY <1>14, <1>23

\* A copy, or what parse made of the bytes, takes the place of an instance.
LEMMA ReplaceStep ==
  ASSUME IndexedInv, NEW t \in Sketch, NEW x, Good(x), NEW true, Replace(t, x, true)
  PROVE  /\ IndexedInv' /\ Abstract!Idle(t)
         /\ Abstract!Replace(t, Counts(x), x.maxError, x.totalWeight, true)
<1>1. /\ entries[t] = NoDict /\ sketch' = [sketch EXCEPT ![t] = x] /\ failed' = failed \ {t}
      /\ truth' = [truth EXCEPT ![t] = true] /\ entries' = entries
  BY DEF Replace
<1>2. IndexedInv'
  <2>1. sketch' \in [Sketch -> Fields] /\ \A u \in Sketch : Good(sketch'[u])
    BY <1>1, SketchKept
  <2> QED BY <1>1, <2>1 DEF IndexedInv
<1>3. /\ AbsItems' = [AbsItems EXCEPT ![t] = Counts(x)]
      /\ AbsError' = [AbsError EXCEPT ![t] = x.maxError]
      /\ AbsTotal' = [AbsTotal EXCEPT ![t] = x.totalWeight]
  BY <1>1, SketchChanges
<1>4. AbsPending' = AbsPending
  BY <1>1, EntriesStay
<1> QED BY <1>1, <1>2, <1>3, <1>4, UsableIs
        DEF Abstract!Replace, AbsItems, AbsError, AbsTotal, AbsPending

LEMMA CloneStep ==
  ASSUME IndexedInv, NEW s \in Sketch, NEW t \in Sketch, Clone(s, t)
  PROVE  IndexedInv' /\ Abstract!Clone(s, t)
<1>1. PICK y : y = sketch[s]
  OBVIOUS
<1> DEFINE D == DOMAIN y.items
           a == [k \in D |-> Estimate(y, k)]
           x == Filled(a, y.maxError, y.totalWeight)
<1>2. PICK true : true = truth[s]
  OBVIOUS
<1>3. Usable(s) /\ s # t /\ Keying[s] = Keying[t] /\ Replace(t, x, true)
  BY <1>1, <1>2 DEF Clone
<1>4. y \in Fields /\ Mapped(y) /\ Spare(y) /\ Fresh(y)
  BY <1>1 DEF IndexedInv, Good, Sound
<1>5. D \in SUBSET Key /\ y.maxError \in Amounts /\ y.totalWeight \in Amounts
  BY <1>4, FieldsAre
<1>6. Cardinality(D) <= MapSize
  <2>1. Len(y.heap) \in Nat /\ Len(y.free) \in Nat /\ MapSize \in Nat
    BY <1>4, FieldsAre, MapSizeAssumption DEF MapSizeAssumption
  <2>2. Len(y.heap) = Cardinality(D) /\ Len(y.heap) + Len(y.free) = MapSize
    BY <1>4 DEF Mapped, Spare
  <2> HIDE DEF D
  <2> QED BY <2>1, <2>2
<1>7. a \in [D -> Amounts] /\ \A k \in D : a[k] = Estimate(y, k)
  BY <1>4, <1>5, CountsAre
<1>8. \A k \in D : a[k] > y.maxError
  BY <1>4, <1>7 DEF Fresh
<1> HIDE DEF a
<1>9. /\ Good(x) /\ Counts(x) = [k \in Key |-> IF k \in D THEN a[k] ELSE 0]
      /\ x.maxError = y.maxError /\ x.totalWeight = y.totalWeight
  BY <1>5, <1>6, <1>7, <1>8, FilledIs
<1> HIDE DEF x
<1>10. Counts(x) = Counts(y)
  <2>1. \A k \in Key : Counts(x)[k] = Estimate(y, k)
    BY <1>4, <1>7, <1>9, CountsAre
  <2>2. Counts(x) = [k \in Key |-> Counts(x)[k]]
    BY DEF Counts
  <2> QED BY <2>1, <2>2 DEF Counts
<1>11. /\ IndexedInv' /\ Abstract!Idle(t)
       /\ Abstract!Replace(t, Counts(y), y.maxError, y.totalWeight, true)
  BY <1>3, <1>9, <1>10, ReplaceStep
<1>12. Abstract!Usable(s)
  BY <1>3, UsableIs
<1> QED BY <1>1, <1>2, <1>3, <1>11, <1>12 DEF Abstract!Clone, Abstract!Replace

LEMMA ReceiveStep ==
  ASSUME IndexedInv, NEW t \in Sketch, NEW body \in Received, Receive(t, body)
  PROVE  IndexedInv' /\ Abstract!Receive(t, body)
<1> DEFINE T == Abstract!Tracked(body.items)
           a == Restrict(body.items, T)
           x == Filled(a, body.maxError, body.total)
<1>1. Abstract!WireAccepts(body.total, body.maxError, body.items) /\ Replace(t, x, body.truth)
  BY DEF Receive
<1>2. body.total \in Amounts /\ body.maxError \in Amounts /\ body.items \in [Key -> Amounts]
  BY ReceivedAssumption DEF ReceivedAssumption
<1>3. T \in SUBSET Key /\ \A k \in Key : k \in T <=> body.items[k] > 0
  BY DEF Abstract!Tracked
<1>4. Cardinality(T) <= MapSize /\ \A k \in T : body.items[k] > body.maxError
  <2>1. \A k \in T : body.maxError < body.items[k]
    BY <1>1 DEF Abstract!WireAccepts
  <2>2. Cardinality(T) <= MapSize
    BY <1>1 DEF Abstract!WireAccepts, Abstract!Cardinality, Cardinality
  <2>3. \A k \in T : body.items[k] \in Int
    <3>1. \A k \in T : body.items[k] \in Amounts
      BY <1>2, <1>3
    <3> QED BY <3>1, AmountsAre
  <2>4. body.maxError \in Int
    BY <1>2, AmountsAre
  <2> QED BY <2>1, <2>2, <2>3, <2>4
<1> HIDE DEF T
<1>5. a \in [T -> Amounts] /\ \A k \in T : a[k] = body.items[k]
  BY <1>2, <1>3 DEF Restrict
<1> HIDE DEF a
<1>6. \A k \in T : a[k] > body.maxError
  BY <1>4, <1>5
<1>7. /\ Good(x) /\ Counts(x) = [k \in Key |-> IF k \in T THEN a[k] ELSE 0]
      /\ x.maxError = body.maxError /\ x.totalWeight = body.total
  BY <1>2, <1>3, <1>4, <1>5, <1>6, FilledIs
<1> HIDE DEF x
<1>8. Counts(x) = body.items
  <2>1. \A k \in Key : Counts(x)[k] = body.items[k]
    <3>1. ASSUME NEW k \in Key PROVE Counts(x)[k] = body.items[k]
      <4>1. body.items[k] \in Amounts
        BY <1>2
      <4>2. body.items[k] \in Nat
        BY <4>1, AmountsAre
      <4>3. k \notin T => body.items[k] = 0
        BY <1>3, <4>2
      <4> QED BY <1>5, <1>7, <4>3
    <3> QED BY <3>1
  <2>2. Counts(x) = [k \in Key |-> Counts(x)[k]]
    BY DEF Counts
  <2> QED BY <1>2, <2>1, <2>2
<1>9. /\ IndexedInv' /\ Abstract!Idle(t)
      /\ Abstract!Replace(t, body.items, body.maxError, body.total, body.truth)
  BY <1>1, <1>7, <1>8, ReplaceStep
<1> QED BY <1>1, <1>9 DEF Abstract!Receive, Abstract!Replace

LEMMA InitIs == Init => IndexedInv /\ Abstract!Init
<1> SUFFICES ASSUME Init PROVE IndexedInv /\ Abstract!Init
  OBVIOUS
<1>1. PICK empty : empty = EmptySketch
  OBVIOUS
<1>2. /\ sketch = [s \in Sketch |-> empty] /\ entries = [s \in Sketch |-> NoDict]
      /\ failed = {} /\ truth = [s \in Sketch |-> [k \in Key |-> 0]]
  BY <1>1 DEF Init
<1>3. IsEmptied(empty, 0, 0)
  <2>1. PICK i, h, p, f : /\ i = NoDict /\ h = <<>> /\ p = [slot \in Slot |-> Unused]
                          /\ f = [j \in Slot |-> j]
    OBVIOUS
  <2>2. empty = [items |-> i, heap |-> h, pool |-> p, free |-> f, maxError |-> 0, totalWeight |-> 0]
    BY <1>1, <2>1 DEF EmptySketch
  <2>3. PICK z : z = [empty EXCEPT !.maxError = 0, !.totalWeight = 0]
    OBVIOUS
  <2>4. z = [items |-> i, heap |-> h, pool |-> p, free |-> f, maxError |-> 0, totalWeight |-> 0]
    BY <2>2, <2>3
  <2> QED BY <1>1, <2>2, <2>3, <2>4 DEF IsEmptied
<1>4. 0 \in Amounts
  BY MaxIntAssumption DEF Amounts, MaxIntAssumption
<1>5. /\ Good(empty) /\ Counts(empty) = [k \in Key |-> 0]
      /\ empty.maxError = 0 /\ empty.totalWeight = 0
  BY <1>3, <1>4, EmptySound
<1>6. IndexedInv
  BY <1>2, <1>5, NoDictIs DEF IndexedInv, Good, Sound
<1>7. AbsItems = [s \in Sketch |-> [k \in Key |-> 0]]
  <2>1. \A s \in Sketch : Counts(sketch[s]) = [k \in Key |-> 0]
    BY <1>2, <1>5
  <2> QED BY <2>1 DEF AbsItems
<1>8. AbsPending = [s \in Sketch |-> [k \in Key |-> 0]]
  <2>1. \A s \in Sketch : Listed(entries[s]) = [k \in Key |-> 0]
    BY <1>2, NoDictIs
  <2> QED BY <2>1 DEF AbsPending
<1>9. AbsError = [s \in Sketch |-> 0] /\ AbsTotal = [s \in Sketch |-> 0]
  BY <1>2, <1>5 DEF AbsError, AbsTotal
<1>10. Abstract!Init
  BY <1>2, <1>7, <1>8, <1>9
     DEF Abstract!Init, Abstract!None, AbsItems, AbsError, AbsTotal, AbsPending
<1> QED BY <1>6, <1>10

LEMMA NextIs ==
  IndexedInv /\ [Next]_vars => IndexedInv' /\ [Abstract!Next]_(Abstract!vars)
<1> SUFFICES ASSUME IndexedInv, [Next]_vars PROVE IndexedInv' /\ [Abstract!Next]_(Abstract!vars)
  OBVIOUS
<1>1. ASSUME NEW s \in Sketch, NEW k \in Key, NEW w \in Weight, AddHash(s, k, w)
      PROVE  IndexedInv' /\ Abstract!Next
  BY <1>1, AddHashStep DEF Abstract!Next
<1>2. ASSUME NEW s \in Sketch, NEW w \in Weight, AddRefused(s, w)
      PROVE  IndexedInv' /\ Abstract!Next
  BY <1>2, AddRefusedStep DEF Abstract!Next
<1>3. ASSUME NEW s \in Sketch, NEW t \in Sketch, MergeBegin(s, t)
      PROVE  IndexedInv' /\ Abstract!Next
  BY <1>3, MergeBeginStep DEF Abstract!Next
<1>4. ASSUME NEW s \in Sketch, NEW t \in Sketch, MergeRefused(s, t)
      PROVE  IndexedInv' /\ Abstract!Next
  BY <1>4, MergeRefusedStep DEF Abstract!Next
<1>5. ASSUME NEW s \in Sketch, NEW k \in Key, MergeStep(s, k)
      PROVE  IndexedInv' /\ Abstract!Next
  BY <1>5, MergeStepStep DEF Abstract!Next
<1>6. ASSUME NEW s \in Sketch, NEW t \in Sketch, Clone(s, t)
      PROVE  IndexedInv' /\ Abstract!Next
  BY <1>6, CloneStep DEF Abstract!Next
<1>7. ASSUME NEW t \in Sketch, NEW body \in Received, Receive(t, body)
      PROVE  IndexedInv' /\ Abstract!Next
  BY <1>7, ReceiveStep DEF Abstract!Next
<1>8. ASSUME UNCHANGED vars PROVE IndexedInv' /\ UNCHANGED Abstract!vars
  BY <1>8, VarsStay DEF Abstract!vars, AbsItems, AbsError, AbsTotal, AbsPending
<1> QED BY <1>1, <1>2, <1>3, <1>4, <1>5, <1>6, <1>7, <1>8 DEF Next

-----------------------------------------------------------------------------
(* The theorems. *)

(* The inductive invariant.                                                *)
LEMMA IndexedInvHolds == Spec => []IndexedInv
<1>1. Init => IndexedInv
  BY InitIs
<1>2. IndexedInv /\ [Next]_vars => IndexedInv'
  BY NextIs
<1> QED BY <1>1, <1>2, PTL DEF Spec

(* It says more than the property of the run.                              *)
LEMMA SoundIs ==
  ASSUME NEW x, Sound(x) PROVE SlotsIndexed(x) /\ HeapOrdered(x) /\ SlotsPartitioned(x)
<1>1. x \in Fields /\ Placed(x) /\ Mapped(x) /\ Spare(x) /\ HeapOrdered(x)
  BY DEF Sound
<1>2. SlotsIndexed(x)
  <2>1. ASSUME NEW k \in DOMAIN x.items
        PROVE  LET c == x.pool[x.items[k]]
               IN c.hash = k /\ c.heapIndex \in 1 .. Len(x.heap) /\ x.heap[c.heapIndex] = x.items[k]
    <3>1. x.items[k] \in Held(x) /\ x.pool[x.items[k]].hash = k
      BY <1>1 DEF Mapped
    <3>2. PICK i \in 1 .. Len(x.heap) : x.heap[i] = x.items[k]
      BY <3>1 DEF Held
    <3>3. x.pool[x.items[k]].heapIndex = i
      BY <1>1, <3>2 DEF Placed
    <3> QED BY <3>1, <3>2, <3>3
  <2> QED BY <1>1, <2>1 DEF Mapped, SlotsIndexed
<1>3. SlotsPartitioned(x)
  <2>1. /\ DOMAIN x.heap = 1 .. Len(x.heap) /\ \A i \in 1 .. Len(x.heap) : x.heap[i] \in Slot
        /\ DOMAIN x.free = 1 .. Len(x.free) /\ \A i \in 1 .. Len(x.free) : x.free[i] \in Slot
    BY <1>1, FieldsAre
  <2>2. ToSet(x.heap) = Held(x) /\ ToSet(x.free) = {x.free[i] : i \in 1 .. Len(x.free)}
    BY <2>1 DEF ToSet, Held
  <2>3. ToSet(x.heap) \cup ToSet(x.free) = Slot
    BY <1>1, <2>1, <2>2, HeldAre DEF Spare
  <2> QED BY <1>1, <2>3 DEF Spare, SlotsPartitioned
<1> QED BY <1>1, <1>2, <1>3

(* Map, slots, recorded positions, heap order and free list of every Go    *)
(* sketch agree after any calls: no update sifts another counter than its  *)
(* own, an insert finds a free slot, and the top of the heap is the least. *)
THEOREM SlotsConsistentCorrect == Spec => []SlotsConsistent
<1>1. IndexedInv => SlotsConsistent
  BY SoundIs DEF IndexedInv, Good, SlotsConsistent
<1> QED BY <1>1, IndexedInvHolds, PTL

(* The Go sketch with its indexed heap implements FrequentItems: every     *)
(* call changes counters, error and total as the specification does, and   *)
(* so does each turn of the loop of a merge; and it fails when that does.  *)
THEOREM ImplementsCorrect == Spec => Implements
<1>1. Init => Abstract!Init
  BY InitIs
<1>2. IndexedInv /\ [Next]_vars => [Abstract!Next]_(Abstract!vars)
  BY NextIs
<1> QED BY <1>1, <1>2, IndexedInvHolds, PTL DEF Spec, Implements, Abstract!Spec

-----------------------------------------------------------------------------
(* What FrequentItemsProofs proves holds of the counters kept with a heap. *)

Counters == INSTANCE FrequentItemsProofs WITH
  items    <- [s \in Sketch |-> Counts(sketch[s])],
  maxError <- [s \in Sketch |-> sketch[s].maxError],
  total    <- [s \in Sketch |-> sketch[s].totalWeight],
  pending  <- [s \in Sketch |-> Listed(entries[s])]

(* The constants meet the assumptions those theorems rest on.              *)
LEMMA CountersAssumed ==
  /\ Counters!KeyAssumption /\ Counters!MapSizeAssumption /\ Counters!MaxIntAssumption
  /\ Counters!WeightAssumption /\ Counters!ReceivedAssumption
<1>1. Counters!KeyAssumption
  BY KeyAssumption DEF KeyAssumption, Counters!KeyAssumption, IsFiniteSet, Counters!IsFiniteSet
<1>2. Counters!MapSizeAssumption
  BY MapSizeAssumption DEF MapSizeAssumption, Counters!MapSizeAssumption
<1>3. Counters!MaxIntAssumption
  BY MaxIntAssumption DEF MaxIntAssumption, Counters!MaxIntAssumption
<1>4. Counters!WeightAssumption
  BY WeightAssumption DEF WeightAssumption, Counters!WeightAssumption
<1>5. Counters!ReceivedAssumption
  BY ReceivedAssumption
     DEF ReceivedAssumption, Amounts, Counters!ReceivedAssumption, Counters!Amounts
<1> QED BY <1>1, <1>2, <1>3, <1>4, <1>5

(* The two instances of the specification are one: Counters is Abstract    *)
(* seen from the module of its proofs.                                     *)
LEMMA CountersInit == Abstract!Init => Counters!Init
BY DEF Abstract!Init, Counters!Init, Abstract!None, Counters!None

LEMMA CountersNext == [Abstract!Next]_(Abstract!vars) => [Counters!Next]_(Counters!vars)
<1> USE DEF
     Abstract!vars, Counters!vars, Abstract!Idle, Counters!Idle, Abstract!Usable, Counters!Usable,
     Abstract!None, Counters!None, Abstract!Amounts, Counters!Amounts,
     Abstract!AddResidual, Counters!AddResidual, Abstract!Store, Counters!Store,
     Abstract!HasRoom, Counters!HasRoom, Abstract!Tracked, Counters!Tracked,
     Abstract!Cardinality, Counters!Cardinality,
     Abstract!PruneAndStore, Counters!PruneAndStore, Abstract!Consumed, Counters!Consumed,
     Abstract!MinEstimate, Counters!MinEstimate, Abstract!Unexpired, Counters!Unexpired,
     Abstract!LowerBound, Counters!LowerBound, Abstract!Saturate, Counters!Saturate,
     Abstract!Combined, Counters!Combined, Abstract!MergedTotal, Counters!MergedTotal,
     Abstract!MergedError, Counters!MergedError, Abstract!Mergeable, Counters!Mergeable,
     Abstract!IsNext, Counters!IsNext, Abstract!Replace, Counters!Replace
<1>1. ASSUME NEW s \in Sketch, NEW k \in Key, NEW w \in Weight, Abstract!AddHash(s, k, w)
      PROVE  Counters!AddHash(s, k, w)
  BY <1>1, Zenon DEF Abstract!AddHash, Counters!AddHash
<1>2. ASSUME NEW s \in Sketch, NEW w \in Weight, Abstract!AddRefused(s, w)
      PROVE  Counters!AddRefused(s, w)
  BY <1>2, Zenon DEF Abstract!AddRefused, Counters!AddRefused
<1>3. ASSUME NEW s \in Sketch, NEW t \in Sketch, Abstract!MergeBegin(s, t)
      PROVE  Counters!MergeBegin(s, t)
  BY <1>3, Zenon DEF Abstract!MergeBegin, Counters!MergeBegin
<1>4. ASSUME NEW s \in Sketch, NEW t \in Sketch, Abstract!MergeRefused(s, t)
      PROVE  Counters!MergeRefused(s, t)
  BY <1>4, Zenon DEF Abstract!MergeRefused, Counters!MergeRefused
<1>5. ASSUME NEW s \in Sketch, NEW k \in Key, Abstract!MergeStep(s, k)
      PROVE  Counters!MergeStep(s, k)
  BY <1>5, Zenon DEF Abstract!MergeStep, Counters!MergeStep
<1>6. ASSUME NEW s \in Sketch, NEW t \in Sketch, Abstract!Clone(s, t)
      PROVE  Counters!Clone(s, t)
  BY <1>6, Zenon DEF Abstract!Clone, Counters!Clone
<1>7. ASSUME NEW t \in Sketch, NEW body \in Received, Abstract!Receive(t, body)
      PROVE  Counters!Receive(t, body)
  BY <1>7, Zenon DEF Abstract!Receive, Counters!Receive, Abstract!WireAccepts, Counters!WireAccepts,
     Abstract!Retained, Counters!Retained, Abstract!SumFunction, Counters!SumFunction,
     Abstract!SumFunctionOnSet, Counters!SumFunctionOnSet,
     Abstract!FoldFunctionOnSet, Counters!FoldFunctionOnSet,
     Abstract!MapThenFoldSet, Counters!MapThenFoldSet
<1>8. UNCHANGED Abstract!vars => UNCHANGED Counters!vars
  OBVIOUS
<1> QED
  BY <1>1, <1>2, <1>3, <1>4, <1>5, <1>6, <1>7, <1>8, Zenon DEF Abstract!Next, Counters!Next

LEMMA CountersSpec == Spec => Counters!Spec
BY ImplementsCorrect, CountersInit, CountersNext, PTL DEF Implements, Abstract!Spec, Counters!Spec

(* The bounds of a query contain the true weight of every key, the least   *)
(* counter being taken from the heap.                                      *)
THEOREM BracketHolds == Spec => []Counters!Bracket
<1>1. Counters!Spec => []Counters!Bracket
  BY CountersAssumed, Counters!BracketCorrect
<1> QED BY <1>1, CountersSpec, PTL

(* frequent_items answers as its two modes are named.                      *)
THEOREM QueryModesHold == Spec => []Counters!QueryModes
<1>1. Counters!Spec => []Counters!QueryModes
  BY CountersAssumed, Counters!QueryModesCorrect
<1> QED BY <1>1, CountersSpec, PTL

(* The error stays within its share of the total weight, and no call fails *)
(* half way: neither the overflow of a counter or of the error nor "no     *)
(* free counter" is ever returned, as long as bodies of other producers    *)
(* keep to the bound themselves.                                           *)
THEOREM ErrorBoundHolds ==
  ASSUME Counters!ReceivedWithinBound
  PROVE  Spec => [](Counters!ErrorBound /\ failed = {})
<1>1. Counters!Spec => []Counters!ErrorBound
  BY CountersAssumed, Counters!ErrorBoundCorrect
<1>2. Counters!Spec => []Counters!NoLateError
  BY CountersAssumed, Counters!NoLateErrorCorrect
<1>3. Counters!NoLateError => failed = {}
  BY DEF Counters!NoLateError
<1> QED BY <1>1, <1>2, <1>3, CountersSpec, PTL
=============================================================================

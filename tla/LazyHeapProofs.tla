--------------------------- MODULE LazyHeapProofs ---------------------------
(***************************************************************************)
(* Proofs about FrequentItemsLazyHeap: the heap is sound, the module       *)
(* implements FrequentItems, and so what FrequentItemsProofs shows of the  *)
(* counters holds of the counters Python keeps, for every map size, set of *)
(* keys and set of instances.                                              *)
(***************************************************************************)
EXTENDS FrequentItemsLazyHeap, SumTheorems, FiniteSetTheorems, TLAPS

(* What an instance holds.                                                 *)
Pairs == Amounts \X Key
Dicts == UNION {[S -> Amounts] : S \in SUBSET Key}
Heaps == UNION {[S -> Nat \ {0}] : S \in SUBSET Pairs}
Fields == [items : Dicts, minimum : Heaps, maxError : Amounts, total : Amounts]

(* The pair of each counter is in the heap, once; what else is there is of *)
(* the past: below the counter of its key, or not above the error.  So a   *)
(* stale pair is never taken for a current one, not even after its key     *)
(* expired and came back, for a counter that comes back is above the error.*)
HeapHolds(x) ==
  /\ \A k \in DOMAIN x.items :
       /\ <<x.items[k], k>> \in DOMAIN x.minimum
       /\ x.minimum[<<x.items[k], k>>] = 1
  /\ \A p \in DOMAIN x.minimum :
       p[1] <= IF p[2] \in DOMAIN x.items THEN x.items[p[2]] ELSE x.maxError
  /\ HeapSize(x.minimum) <= 2 * MapSize

(* Counters at or below the error are gone.                                *)
Fresh(x) == \A k \in DOMAIN x.items : x.items[k] > x.maxError
InRoom(x) == Cardinality(DOMAIN x.items) <= MapSize

Sound(x) == x \in Fields /\ HeapHolds(x) /\ InRoom(x)
Good(x) == Sound(x) /\ Fresh(x)

-----------------------------------------------------------------------------
LEMMA SumIsOnSet == ASSUME NEW f PROVE SumFunction(f) = SumFunctionOnSet(f, DOMAIN f)
BY DEF SumFunction

LEMMA AmountsAre == \A n \in Amounts : n \in Nat /\ n \in Int /\ n >= 0 /\ n <= MaxInt
BY MaxIntAssumption DEF Amounts, MaxIntAssumption

LEMMA KeysAre == \A k \in Key : k \in Nat /\ k \in Int
BY KeyAssumption DEF KeyAssumption

LEMMA PairsFinite == IsFiniteSet(Pairs)
<1>1. IsFiniteSet(Amounts)
  BY FS_Interval, MaxIntAssumption DEF Amounts, MaxIntAssumption
<1> QED BY <1>1, FS_Product, KeyAssumption DEF Pairs, KeyAssumption

LEMMA FieldsAre ==
  ASSUME NEW x \in Fields
  PROVE  /\ x.items \in [DOMAIN x.items -> Amounts] /\ DOMAIN x.items \subseteq Key
         /\ IsFiniteSet(DOMAIN x.items) /\ Cardinality(DOMAIN x.items) \in Nat
         /\ x.minimum \in [DOMAIN x.minimum -> Nat \ {0}] /\ DOMAIN x.minimum \subseteq Pairs
         /\ IsFiniteSet(DOMAIN x.minimum)
         /\ x.maxError \in Amounts /\ x.total \in Amounts
<1>1. x.items \in Dicts /\ x.minimum \in Heaps /\ x.maxError \in Amounts /\ x.total \in Amounts
  BY DEF Fields
<1>2. PICK S \in SUBSET Key : x.items \in [S -> Amounts]
  BY <1>1 DEF Dicts
<1>3. PICK T \in SUBSET Pairs : x.minimum \in [T -> Nat \ {0}]
  BY <1>1 DEF Heaps
<1>4. IsFiniteSet(S) /\ IsFiniteSet(T)
  BY FS_Subset, PairsFinite, KeyAssumption DEF KeyAssumption
<1> QED BY <1>1, <1>2, <1>3, <1>4, FS_CardinalityType

(* A sum of naturals over a part is no greater than over the whole.        *)
LEMMA SumPartLess ==
  ASSUME NEW S, IsFiniteSet(S), NEW T \in SUBSET S, NEW f, \A x \in S : f[x] \in Nat
  PROVE  SumFunctionOnSet(f, T) <= SumFunctionOnSet(f, S)
<1> DEFINE g == [x \in S |-> IF x \in T THEN f[x] ELSE 0]
           r == [x \in S |-> IF x \in T THEN 0 ELSE f[x]]
           z == [x \in S |-> 0]
           G == {U \in SUBSET S : SumFunctionOnSet(f, T \cap U) <= SumFunctionOnSet(f, U)}
<1> HIDE DEF G
<1>0. \A x \in S : f[x] \in Int
  OBVIOUS
<1>1. {} \in G
  <2>1. T \cap {} = {} /\ SumFunctionOnSet(f, {}) = 0
    BY SumEmpty
  <2> QED BY <2>1 DEF G
<1>2. ASSUME NEW U \in SUBSET S, NEW x \in S \ U, U \in G PROVE U \cup {x} \in G
  <2>1. IsFiniteSet(U) /\ IsFiniteSet(T \cap U)
    BY FS_Subset
  <2>0. \A y \in U \cup {x} : f[y] \in Int
    BY <1>0
  <2>7. \A y \in (T \cap U) \cup {x} : f[y] \in Int
    BY <1>0
  <2>8. x \notin U /\ x \notin T \cap U
    OBVIOUS
  <2>9. SumFunctionOnSet(f, T \cap U) <= SumFunctionOnSet(f, U) /\ f[x] \in Nat
    BY <1>2 DEF G
  <2>2. SumFunctionOnSet(f, U \cup {x}) = f[x] + SumFunctionOnSet(f, U)
    BY <2>0, <2>1, <2>8, SumAdd
  <2>3. CASE x \in T
    <3>1. T \cap (U \cup {x}) = (T \cap U) \cup {x}
      BY <2>3
    <3>2. SumFunctionOnSet(f, (T \cap U) \cup {x}) = f[x] + SumFunctionOnSet(f, T \cap U)
      BY <2>1, <2>7, <2>8, SumAdd
    <3>3. SumFunctionOnSet(f, T \cap U) \in Int /\ SumFunctionOnSet(f, U) \in Int
      BY <1>0, <2>1, SumType
    <3> QED BY <2>2, <2>9, <3>1, <3>2, <3>3 DEF G
  <2>4. CASE x \notin T
    <3>1. T \cap (U \cup {x}) = T \cap U
      BY <2>4
    <3>2. SumFunctionOnSet(f, T \cap U) \in Int /\ SumFunctionOnSet(f, U) \in Int
      BY <1>0, <2>1, SumType
    <3>3. SumFunctionOnSet(f, T \cap U) <= SumFunctionOnSet(f, U \cup {x})
      BY <2>2, <2>9, <3>2
    <3> QED BY <3>1, <3>3 DEF G
  <2> QED BY <2>3, <2>4
<1>3. S \in G
  BY <1>1, <1>2, SubsetInduction
<1>4. T \cap S = T
  OBVIOUS
<1> QED BY <1>3, <1>4 DEF G

(* A heap does not grow by losing pairs.                                   *)
LEMMA HeapFits ==
  ASSUME NEW f, NEW T \in SUBSET DOMAIN f, IsFiniteSet(DOMAIN f),
         \A x \in DOMAIN f : f[x] \in Nat
  PROVE  HeapSize(Restrict(f, T)) <= HeapSize(f) /\ HeapSize(f) \in Nat
<1> DEFINE S == DOMAIN f
           g == [x \in S |-> IF x \in T THEN f[x] ELSE 0]
           h == Restrict(f, T)
           r == [x \in S |-> IF x \in T THEN 0 ELSE f[x]]
<1>1. \A x \in S : g[x] \in Int /\ r[x] \in Int /\ f[x] = g[x] + r[x] /\ f[x] \in Nat /\ g[x] <= f[x]
  OBVIOUS
<1>2. SumFunctionOnSet(f, S) \in Nat
  BY SumNat
<1>3. DOMAIN h = T /\ \A x \in T : h[x] = f[x]
  BY DEF Restrict
<1>4. SumFunctionOnSet(h, T) = SumFunctionOnSet(f, T)
  BY <1>3, FS_Subset, SumEqual
<1>5. SumFunctionOnSet(f, T) <= SumFunctionOnSet(f, S)
  BY SumPartLess
<1> QED BY <1>2, <1>3, <1>4, <1>5, SumIsOnSet DEF HeapSize

(* A heap made anew has as many pairs as there are counters.               *)
LEMMA RebuiltSize ==
  ASSUME NEW items, IsFiniteSet(DOMAIN items)
  PROVE  HeapSize(Rebuilt(items)) = Cardinality(DOMAIN items)
<1> DEFINE D == DOMAIN items
           P == {<<items[k], k>> : k \in D}
           h == Rebuilt(items)
           f == [k \in D |-> <<items[k], k>>]
<1>1. DOMAIN h = P /\ \A p \in P : h[p] = 1
  BY DEF Rebuilt, SetToBag
<1>2. f \in Bijection(D, P)
  BY DEF Bijection, Injection, Surjection, IsInjective
<1>3. IsFiniteSet(P) /\ Cardinality(P) = Cardinality(D)
  BY <1>2, FS_Bijection DEF ExistsBijection
<1>4. SumFunctionOnSet(h, P) = 1 * Cardinality(P)
  BY <1>1, <1>3, SumOfPart
<1>5. Cardinality(D) \in Nat
  BY FS_CardinalityType
<1>6. HeapSize(h) = SumFunctionOnSet(h, P)
  BY <1>1, SumIsOnSet DEF HeapSize
<1> HIDE DEF h, P, D
<1>7. HeapSize(h) = Cardinality(D)
  BY <1>3, <1>4, <1>5, <1>6
<1> QED BY <1>7 DEF h, D

-----------------------------------------------------------------------------
(* What the heap tells. *)

(* The current pairs of a sound heap are those of the counters.            *)
LEMMA CurrentIs ==
  ASSUME NEW x, Sound(x)
  PROVE  Current(x.minimum, x.items) = {<<x.items[k], k>> : k \in DOMAIN x.items}
<1>1. x \in Fields /\ HeapHolds(x)
  BY DEF Sound
<1>2. DOMAIN x.minimum \subseteq Pairs
  BY <1>1, FieldsAre
<1>3. ASSUME NEW p \in Current(x.minimum, x.items)
      PROVE  p \in {<<x.items[k], k>> : k \in DOMAIN x.items}
  <2>1. p \in DOMAIN x.minimum /\ p[2] \in DOMAIN x.items /\ x.items[p[2]] = p[1]
    BY DEF Current, IsCurrent
  <2>2. p = <<p[1], p[2]>>
    BY <1>2, <2>1 DEF Pairs
  <2> QED BY <2>1, <2>2
<1>4. ASSUME NEW k \in DOMAIN x.items
      PROVE  <<x.items[k], k>> \in Current(x.minimum, x.items)
  BY <1>1 DEF HeapHolds, Current, IsCurrent
<1> QED BY <1>3, <1>4

(* "missing counter" is not raised.                                        *)
LEMMA NeverMissing == ASSUME NEW x, Sound(x) PROVE ~ Missing(x)
<1>1. SUFFICES ASSUME NEW k \in DOMAIN x.items PROVE Current(x.minimum, x.items) # {}
  BY DEF Missing
<1>2. <<x.items[k], k>> \in {<<x.items[j], j>> : j \in DOMAIN x.items}
  OBVIOUS
<1> QED BY <1>2, CurrentIs

(* What a heap holds is pairs, compared by their numbers.                  *)
LEMMA PairIs ==
  ASSUME NEW q \in Pairs
  PROVE  q = <<q[1], q[2]>> /\ q[1] \in Amounts /\ q[1] \in Nat /\ q[2] \in Key /\ q[2] \in Nat
<1>1. q = <<q[1], q[2]>> /\ q[1] \in Amounts /\ q[2] \in Key
  BY DEF Pairs
<1>2. q[1] \in Nat
  BY <1>1, MaxIntAssumption DEF Amounts, MaxIntAssumption
<1> QED BY <1>1, <1>2, KeyAssumption DEF KeyAssumption

(* Finitely many pairs have a least one.                                   *)
LEMMA LeastExists ==
  ASSUME NEW P \in SUBSET Pairs, P # {}
  PROVE  \E p \in P : \A q \in P : NotAfter(p, q)
<1> DEFINE G == {T \in SUBSET Pairs : T = {} \/ \E p \in T : \A q \in T : NotAfter(p, q)}
<1>1. {} \in G
  OBVIOUS
<1>2. ASSUME NEW T \in SUBSET Pairs, NEW x \in Pairs \ T, T \in G PROVE T \cup {x} \in G
  <2>0. \A q \in Pairs : q[1] \in Int /\ q[2] \in Int
    BY PairIs
  <2>1. CASE T = {}
    BY <2>0, <2>1 DEF NotAfter
  <2>2. CASE T # {}
    <3>1. PICK p \in T : \A q \in T : NotAfter(p, q)
      BY <1>2, <2>2
    <3>2. CASE NotAfter(p, x)
      BY <3>1, <3>2
    <3>3. CASE ~ NotAfter(p, x)
      <4>1. NotAfter(x, x) /\ \A q \in T : NotAfter(x, q)
        BY <2>0, <3>1, <3>3 DEF NotAfter
      <4> QED BY <4>1
    <3> QED BY <3>2, <3>3
  <2> QED BY <2>1, <2>2
<1> HIDE DEF G
<1>3. P \in G
  BY <1>1, <1>2, PairsFinite, SubsetInduction
<1> QED BY <1>3 DEF G

(* A dict as a function on all keys, and the counters of it.               *)
LEMMA AllKeysIs ==
  ASSUME NEW x \in Fields
  PROVE  /\ AllKeys(x.items) \in [Key -> Amounts]
         /\ \A k \in Key : AllKeys(x.items)[k] = IF k \in DOMAIN x.items THEN x.items[k] ELSE 0
<1>1. x.items \in [DOMAIN x.items -> Amounts] /\ 0 \in Amounts
  BY FieldsAre, MaxIntAssumption DEF Amounts, MaxIntAssumption
<1> QED BY <1>1 DEF AllKeys, Lookup

(* The tracked keys of FrequentItems are those of the dict.                *)
LEMMA TrackedIs ==
  ASSUME NEW x \in Fields, Fresh(x)
  PROVE  Abstract!Tracked(AllKeys(x.items)) = DOMAIN x.items
<1>1. /\ DOMAIN x.items \subseteq Key /\ x.maxError \in Nat
      /\ \A k \in DOMAIN x.items : x.items[k] \in Nat /\ x.items[k] > x.maxError
  BY FieldsAre, MaxIntAssumption DEF Fresh, Amounts, MaxIntAssumption
<1> QED BY <1>1, AllKeysIs DEF Abstract!Tracked

(* The least current pair has the least estimate of all counters.          *)
LEMMA LeastIs ==
  ASSUME NEW x, Good(x), DOMAIN x.items # {}
  PROVE  /\ LeastEstimate(x) = Abstract!MinEstimate(AllKeys(x.items))
         /\ \E k \in DOMAIN x.items : LeastEstimate(x) = x.items[k]
         /\ \A k \in DOMAIN x.items : LeastEstimate(x) <= x.items[k]
<1> DEFINE P == {<<x.items[k], k>> : k \in DOMAIN x.items}
           it == AllKeys(x.items)
           p == CHOOSE p \in P : \A q \in P : NotAfter(p, q)
           M == {it[k] : k \in Abstract!Tracked(it)}
<1>1. x \in Fields /\ Fresh(x) /\ Sound(x)
  BY DEF Good, Sound
<1>2. x.items \in [DOMAIN x.items -> Amounts] /\ DOMAIN x.items \subseteq Key
  BY <1>1, FieldsAre
<1>3. P \in SUBSET Pairs /\ P # {}
  <2>1. \A k \in DOMAIN x.items : <<x.items[k], k>> \in Pairs
    BY <1>2 DEF Pairs
  <2> QED BY <2>1
<1>4. p \in P /\ \A q \in P : NotAfter(p, q)
  BY <1>3, LeastExists
<1>5. PICK k \in DOMAIN x.items : p = <<x.items[k], k>>
  BY <1>4
<1>6. \A j \in DOMAIN x.items : NotAfter(p, <<x.items[j], j>>)
  BY <1>4
<1>7. \A j \in DOMAIN x.items : x.items[j] \in Int
  BY <1>2 DEF Amounts
<1>8. p[1] = x.items[k] /\ \A j \in DOMAIN x.items : x.items[k] <= x.items[j]
  <2> HIDE DEF p
  <2>1. p[1] = x.items[k]
    BY <1>5
  <2>2. ASSUME NEW j \in DOMAIN x.items PROVE x.items[k] <= x.items[j]
    <3>1. NotAfter(p, <<x.items[j], j>>)
      BY <1>6
    <3> QED BY <1>7, <2>1, <3>1 DEF NotAfter
  <2> QED BY <2>1, <2>2
<1>9. LeastEstimate(x) = p[1]
  BY <1>1, CurrentIs DEF LeastEstimate
<1>10. Abstract!Tracked(it) = DOMAIN x.items /\ \A j \in DOMAIN x.items : it[j] = x.items[j]
  BY <1>1, <1>2, TrackedIs, AllKeysIs
<1>11. Abstract!MinEstimate(it) = x.items[k]
  <2>1. x.items[k] \in M /\ \A j \in Abstract!Tracked(it) : x.items[k] <= it[j]
    BY <1>8, <1>10
  <2>2. ASSUME NEW m \in M, \A j \in Abstract!Tracked(it) : m <= it[j]
        PROVE  m = x.items[k]
    BY <1>7, <1>8, <1>10, <2>2
  <2> QED BY <2>1, <2>2 DEF Abstract!MinEstimate
<1> QED BY <1>8, <1>9, <1>11
-----------------------------------------------------------------------------
(* What the steps of an insertion leave. *)

LEMMA HeapIs ==
  ASSUME NEW S \in SUBSET Pairs, NEW h \in [S -> Nat \ {0}]
  PROVE  h \in Heaps /\ IsFiniteSet(S)
BY FS_Subset, PairsFinite DEF Heaps

(* _set_counter with a greater estimate than the key had.                  *)
LEMMA SetCounterSound ==
  ASSUME NEW x, Good(x), NEW k \in Key, NEW n \in Amounts, n > x.maxError,
         IF k \in DOMAIN x.items THEN n > x.items[k] ELSE Cardinality(DOMAIN x.items) < MapSize
  PROVE  /\ Good(SetCounter(x, k, n))
         /\ SetCounter(x, k, n).maxError = x.maxError /\ SetCounter(x, k, n).total = x.total
         /\ AllKeys(SetCounter(x, k, n).items) = [AllKeys(x.items) EXCEPT ![k] = n]
<1> DEFINE y == SetCounter(x, k, n)
           D == DOMAIN x.items
           E == D \cup {k}
           d == With(x.items, k, n)
           new == <<n, k>>
           heap == Push(x.minimum, new)
<1>1. x \in Fields /\ HeapHolds(x) /\ InRoom(x) /\ Fresh(x)
  BY DEF Good, Sound
<1>2. /\ x.items \in [D -> Amounts] /\ D \subseteq Key /\ IsFiniteSet(D)
      /\ x.minimum \in [DOMAIN x.minimum -> Nat \ {0}] /\ DOMAIN x.minimum \subseteq Pairs
      /\ x.maxError \in Amounts /\ x.total \in Amounts /\ Cardinality(D) \in Nat
  BY <1>1, FieldsAre
<1>3. Amounts \subseteq Nat
  BY MaxIntAssumption DEF Amounts, MaxIntAssumption
<1>4. d \in [E -> Amounts] /\ E \subseteq Key /\ d[k] = n /\ \A j \in E \ {k} : d[j] = x.items[j]
  BY <1>2 DEF With
<1>5. IsFiniteSet(E) /\ Cardinality(E) <= MapSize
  <2>1. CASE k \in D
    <3>1. E = D
      BY <2>1
    <3> QED BY <1>1, <1>2, <3>1 DEF InRoom
  <2>2. CASE k \notin D
    <3>1. IsFiniteSet(E) /\ Cardinality(E) = Cardinality(D) + 1
      BY <1>2, <2>2, FS_AddElement
    <3>2. Cardinality(D) < MapSize
      BY <2>2
    <3> QED BY <1>2, <3>1, <3>2, MapSizeAssumption DEF MapSizeAssumption
  <2> QED BY <2>1, <2>2
<1>6. new \in Pairs /\ new \notin DOMAIN x.minimum
  <2>1. new \in Pairs
    BY DEF Pairs
  <2>2. ASSUME new \in DOMAIN x.minimum PROVE FALSE
    <3>1. new[1] <= IF new[2] \in D THEN x.items[new[2]] ELSE x.maxError
      BY <1>1, <2>2 DEF HeapHolds
    <3>2. n <= IF k \in D THEN x.items[k] ELSE x.maxError
      BY <3>1
    <3>3. n \in Int /\ x.maxError \in Int /\ (k \in D => x.items[k] \in Int)
      BY <1>2, <1>3
    <3> QED BY <3>2, <3>3
  <2> QED BY <2>1, <2>2
<1>7. heap = [p \in DOMAIN x.minimum \cup {new} |-> IF p = new THEN 1 ELSE x.minimum[p]]
  <2>1. \A p \in DOMAIN x.minimum : x.minimum[p] \in Nat
    BY <1>2
  <2> QED BY <1>6, <2>1 DEF Push, SetToBag, (+)
<1>8. /\ y.items = d /\ y.maxError = x.maxError /\ y.total = x.total
      /\ y.minimum = IF HeapSize(heap) > 2 * MapSize THEN Rebuilt(d) ELSE heap
      /\ y = [items |-> y.items, minimum |-> y.minimum, maxError |-> y.maxError, total |-> y.total]
  <2>1. x = [items |-> x.items, minimum |-> x.minimum, maxError |-> x.maxError, total |-> x.total]
    BY <1>1 DEF Fields
  <2>2. y = [x EXCEPT !.items = d, !.minimum = IF HeapSize(heap) > 2 * MapSize THEN Rebuilt(d) ELSE heap]
    BY DEF SetCounter
  <2> HIDE DEF heap, d, y
  <2> QED BY <2>1, <2>2
<1> HIDE DEF heap, d, y, new
<1>9. \A j \in E : d[j] > x.maxError /\ (j \in D => d[j] >= x.items[j])
  <2>1. \A j \in D : x.items[j] > x.maxError
    BY <1>1 DEF Fresh
  <2>3. \A j \in D : x.items[j] \in Int
    BY <1>2, <1>3
  <2>2. n \in Int
    BY <1>3
  <2> QED BY <1>4, <2>1, <2>2, <2>3
<1>10. \A j \in E : <<d[j], j>> \in Pairs
  BY <1>4 DEF Pairs
<1>11. ASSUME HeapSize(heap) > 2 * MapSize
       PROVE  y.minimum \in Heaps /\ HeapHolds(y)
  <2> DEFINE P == {<<d[j], j>> : j \in E}
  <2>1. y.minimum = Rebuilt(d) /\ DOMAIN d = E
    BY <1>4, <1>8, <1>11
  <2>2. y.minimum = [p \in P |-> 1]
    BY <2>1 DEF Rebuilt, SetToBag
  <2>3. P \in SUBSET Pairs
    BY <1>10
  <2>4. y.minimum \in Heaps
    BY <2>2, <2>3, HeapIs
  <2>5. HeapSize(y.minimum) <= 2 * MapSize
    <3>1. HeapSize(y.minimum) = Cardinality(E) /\ Cardinality(E) \in Nat
      BY <1>5, <2>1, RebuiltSize, FS_CardinalityType
    <3> QED BY <1>5, <3>1, MapSizeAssumption DEF MapSizeAssumption
  <2>6. \A j \in E : <<d[j], j>> \in DOMAIN y.minimum /\ y.minimum[<<d[j], j>>] = 1
    BY <2>2
  <2>7. ASSUME NEW p \in DOMAIN y.minimum PROVE p[2] \in E /\ p[1] <= d[p[2]]
    <3>1. PICK j \in E : p = <<d[j], j>>
      BY <2>2
    <3>2. p[1] = d[j] /\ p[2] = j
      BY <3>1
    <3>3. d[j] \in Int
      <4>1. d \in [E -> Amounts]
        BY <1>4
      <4>2. d[j] \in Amounts
        BY <4>1
      <4> QED BY <4>2, AmountsAre
    <3>4. p[1] <= d[j]
      BY <3>2, <3>3
    <3> QED BY <3>2, <3>4
  <2> QED BY <1>8, <2>1, <2>4, <2>5, <2>6, <2>7 DEF HeapHolds
<1>12. ASSUME ~(HeapSize(heap) > 2 * MapSize)
       PROVE  y.minimum \in Heaps /\ HeapHolds(y)
  <2> DEFINE S == DOMAIN x.minimum \cup {new}
  <2>1. y.minimum = heap
    BY <1>8, <1>12
  <2>2. S \in SUBSET Pairs /\ heap \in [S -> Nat \ {0}] /\ DOMAIN heap = S
    BY <1>2, <1>6, <1>7
  <2>3. heap \in Heaps /\ IsFiniteSet(S)
    BY <2>2, HeapIs
  <2>4. HeapSize(heap) \in Nat
    BY <2>2, <2>3, HeapFits
  <2>5. HeapSize(heap) <= 2 * MapSize
    BY <1>12, <2>4, MapSizeAssumption DEF MapSizeAssumption
  <2>6. ASSUME NEW j \in E PROVE <<d[j], j>> \in DOMAIN heap /\ heap[<<d[j], j>>] = 1
    <3>1. CASE j = k
      <4>1. <<d[j], j>> = new
        BY <1>4, <3>1 DEF new
      <4> QED BY <1>7, <2>2, <4>1
    <3>2. CASE j # k
      <4>1. j \in D /\ d[j] = x.items[j]
        BY <1>4, <3>2
      <4>2. <<d[j], j>> \in DOMAIN x.minimum /\ x.minimum[<<d[j], j>>] = 1
        BY <1>1, <4>1 DEF HeapHolds
      <4>3. <<d[j], j>> # new
        BY <3>2 DEF new
      <4> QED BY <1>7, <2>2, <4>2, <4>3
    <3> QED BY <3>1, <3>2
  <2>7. ASSUME NEW p \in DOMAIN heap PROVE p[1] <= IF p[2] \in E THEN d[p[2]] ELSE x.maxError
    <3>1. CASE p = new
      <4>1. p[1] = n /\ p[2] = k
        BY <3>1 DEF new
      <4>2. n \in Int
        BY <1>3
      <4> QED BY <1>4, <4>1, <4>2
    <3>2. CASE p # new
      <4>1. p \in DOMAIN x.minimum
        BY <2>2, <3>2
      <4>2. p[1] <= IF p[2] \in D THEN x.items[p[2]] ELSE x.maxError
        BY <1>1, <4>1 DEF HeapHolds
      <4>3. p[1] \in Int
        BY <1>2, <4>1, PairIs
      <4>4. CASE p[2] \in D
        <5>1. x.items[p[2]] \in Int /\ d[p[2]] \in Int /\ d[p[2]] >= x.items[p[2]]
          BY <1>2, <1>3, <1>4, <1>9, <4>4
        <5> QED BY <4>2, <4>3, <4>4, <5>1
      <4>5. CASE p[2] \notin D
        <5>1. n \in Int /\ x.maxError \in Int
          BY <1>2, <1>3
        <5> QED BY <1>4, <4>2, <4>3, <4>5, <5>1
      <4> QED BY <4>4, <4>5
    <3> QED BY <3>1, <3>2
  <2>8. DOMAIN d = E
    BY <1>4
  <2> QED BY <1>8, <2>1, <2>3, <2>5, <2>6, <2>7, <2>8 DEF HeapHolds
<1>13. y \in Fields
  <2>1. d \in Dicts
    BY <1>4 DEF Dicts
  <2> QED BY <1>2, <1>8, <1>11, <1>12, <2>1 DEF Fields
<1>14. Good(y)
  <2>1. DOMAIN y.items = E
    BY <1>4, <1>8
  <2>2. InRoom(y)
    BY <1>5, <2>1 DEF InRoom
  <2>3. Fresh(y)
    BY <1>8, <1>9, <2>1 DEF Fresh
  <2> QED BY <1>11, <1>12, <1>13, <2>2, <2>3 DEF Good, Sound
<1>15. AllKeys(y.items) = [AllKeys(x.items) EXCEPT ![k] = n]
  BY <1>2, <1>4, <1>8 DEF AllKeys, Lookup
<1> QED BY <1>8, <1>14, <1>15 DEF y

LEMMA FieldsRecord ==
  ASSUME NEW x \in Fields
  PROVE  x = [items |-> x.items, minimum |-> x.minimum, maxError |-> x.maxError, total |-> x.total]
BY DEF Fields

(* A heap that has lost pairs of the past only.                            *)
LEMMA StillSound ==
  ASSUME NEW x, Sound(x), NEW T \in SUBSET DOMAIN x.minimum, NEW y \in Fields,
         y.minimum = Restrict(x.minimum, T),
         DOMAIN y.items \subseteq DOMAIN x.items,
         \A k \in DOMAIN y.items : y.items[k] = x.items[k] /\ <<x.items[k], k>> \in T,
         x.maxError <= y.maxError,
         \A k \in DOMAIN x.items \ DOMAIN y.items : x.items[k] <= y.maxError
  PROVE  Sound(y)
<1>1. x \in Fields /\ HeapHolds(x) /\ InRoom(x)
  BY DEF Sound
<1>2. /\ x.items \in [DOMAIN x.items -> Amounts] /\ IsFiniteSet(DOMAIN x.items)
      /\ Cardinality(DOMAIN x.items) \in Nat
      /\ x.minimum \in [DOMAIN x.minimum -> Nat \ {0}] /\ IsFiniteSet(DOMAIN x.minimum)
      /\ DOMAIN x.minimum \subseteq Pairs /\ x.maxError \in Amounts /\ y.maxError \in Amounts
  BY <1>1, FieldsAre
<1>3. Amounts \subseteq Nat
  BY MaxIntAssumption DEF Amounts, MaxIntAssumption
<1>4. DOMAIN y.minimum = T /\ \A p \in T : y.minimum[p] = x.minimum[p]
  BY DEF Restrict
<1>5. HeapSize(y.minimum) <= 2 * MapSize
  <2>1. \A p \in DOMAIN x.minimum : x.minimum[p] \in Nat
    BY <1>2
  <2>2. HeapSize(y.minimum) <= HeapSize(x.minimum) /\ HeapSize(x.minimum) \in Nat
    BY <1>2, <2>1, HeapFits
  <2>3. \A p \in DOMAIN y.minimum : y.minimum[p] \in Nat
    BY <1>4, <2>1
  <2>4. IsFiniteSet(DOMAIN y.minimum)
    BY <1>2, <1>4, FS_Subset
  <2>5. HeapSize(y.minimum) \in Nat
    BY <2>3, <2>4, HeapFits
  <2>6. HeapSize(x.minimum) <= 2 * MapSize
    BY <1>1 DEF HeapHolds
  <2> QED BY <2>2, <2>5, <2>6, MapSizeAssumption DEF MapSizeAssumption
<1>6. \A k \in DOMAIN y.items : /\ <<y.items[k], k>> \in DOMAIN y.minimum
                               /\ y.minimum[<<y.items[k], k>>] = 1
  BY <1>1, <1>4 DEF HeapHolds
<1>7. ASSUME NEW p \in DOMAIN y.minimum
      PROVE  p[1] <= IF p[2] \in DOMAIN y.items THEN y.items[p[2]] ELSE y.maxError
  <2>1. p \in DOMAIN x.minimum
    BY <1>4
  <2>2. p[1] <= IF p[2] \in DOMAIN x.items THEN x.items[p[2]] ELSE x.maxError
    BY <1>1, <2>1 DEF HeapHolds
  <2>3. p[1] \in Int /\ x.maxError \in Int /\ y.maxError \in Int
    BY <1>2, <1>3, <2>1, PairIs
  <2>4. CASE p[2] \in DOMAIN y.items
    BY <2>2, <2>4
  <2>5. CASE p[2] \in DOMAIN x.items \ DOMAIN y.items
    <3>1. x.items[p[2]] <= y.maxError /\ p[1] <= x.items[p[2]]
      BY <2>2, <2>5
    <3>2. x.items[p[2]] \in Int
      <4>1. x.items[p[2]] \in Amounts
        BY <1>2, <2>5
      <4> QED BY <4>1, AmountsAre
    <3> QED BY <2>3, <2>5, <3>1, <3>2
  <2>6. CASE p[2] \notin DOMAIN x.items
    <3>1. p[1] <= x.maxError
      BY <2>2, <2>6
    <3> QED BY <2>3, <2>6, <3>1
  <2> QED BY <2>4, <2>5, <2>6
<1>8. InRoom(y)
  <2>1. Cardinality(DOMAIN y.items) <= Cardinality(DOMAIN x.items)
    BY <1>2, FS_Subset
  <2>2. Cardinality(DOMAIN y.items) \in Nat
    BY FieldsAre
  <2> QED BY <1>1, <1>2, <2>1, <2>2, MapSizeAssumption DEF InRoom, MapSizeAssumption
<1> QED BY <1>5, <1>6, <1>7, <1>8 DEF Sound, HeapHolds

(* A heap that lost pairs is a heap.                                       *)
LEMMA RestrictedHeap ==
  ASSUME NEW x \in Fields, NEW T \in SUBSET DOMAIN x.minimum
  PROVE  Restrict(x.minimum, T) \in Heaps
<1>1. x.minimum \in [DOMAIN x.minimum -> Nat \ {0}] /\ DOMAIN x.minimum \subseteq Pairs
  BY FieldsAre
<1>2. Restrict(x.minimum, T) \in [T -> Nat \ {0}]
  BY <1>1 DEF Restrict
<1> QED BY <1>1, <1>2, HeapIs

(* The pairs not before some current one: those peeking leaves.            *)
LEMMA PeekedKeeps ==
  ASSUME NEW x, Sound(x)
  PROVE  /\ Sound([x EXCEPT !.minimum = Peeked(@, x.items)])
         /\ [x EXCEPT !.minimum = Peeked(@, x.items)].items = x.items
         /\ [x EXCEPT !.minimum = Peeked(@, x.items)].maxError = x.maxError
         /\ [x EXCEPT !.minimum = Peeked(@, x.items)].total = x.total
<1> DEFINE T == {q \in DOMAIN x.minimum : \E p \in Current(x.minimum, x.items) : NotAfter(p, q)}
           y == [x EXCEPT !.minimum = Peeked(@, x.items)]
<1>1. x \in Fields
  BY DEF Sound
<1>2. x.items \in [DOMAIN x.items -> Amounts] /\ DOMAIN x.items \subseteq Key /\ x.maxError \in Nat
  BY <1>1, FieldsAre, MaxIntAssumption DEF Amounts, MaxIntAssumption
<1>3. Peeked(x.minimum, x.items) = Restrict(x.minimum, T)
  BY DEF Peeked
<1>4. /\ y.items = x.items /\ y.maxError = x.maxError /\ y.total = x.total
      /\ y.minimum = Restrict(x.minimum, T)
      /\ y = [items |-> x.items, minimum |-> Restrict(x.minimum, T),
              maxError |-> x.maxError, total |-> x.total]
  BY <1>1, <1>3, FieldsRecord
<1>5. y \in Fields
  BY <1>1, <1>4, RestrictedHeap DEF Fields
<1>6. ASSUME NEW k \in DOMAIN x.items PROVE <<x.items[k], k>> \in T
  <2>1. <<x.items[k], k>> \in {<<x.items[j], j>> : j \in DOMAIN x.items}
    OBVIOUS
  <2>2. <<x.items[k], k>> \in Current(x.minimum, x.items)
    BY <2>1, CurrentIs
  <2>3. x.items[k] \in Int /\ k \in Int
    <3>1. x.items[k] \in Amounts /\ k \in Key
      BY <1>2
    <3> QED BY <3>1, AmountsAre, KeyAssumption DEF KeyAssumption
  <2>4. NotAfter(<<x.items[k], k>>, <<x.items[k], k>>)
    BY <2>3 DEF NotAfter
  <2>5. <<x.items[k], k>> \in DOMAIN x.minimum
    BY <2>2 DEF Current
  <2> QED BY <2>2, <2>4, <2>5
<1> HIDE DEF T, y
<1>7. T \in SUBSET DOMAIN x.minimum
  BY DEF T
<1>8. Sound(y)
  <2>1. x.maxError <= y.maxError
    BY <1>2, <1>4
  <2> QED BY <1>4, <1>5, <1>6, <1>7, <2>1, StillSound
<1> QED BY <1>4, <1>8 DEF y

(* _remove_expired leaves the counters above the error.                    *)
LEMMA RemoveExpiredKeeps ==
  ASSUME NEW x, Sound(x)
  PROVE  /\ Good(RemoveExpired(x))
         /\ RemoveExpired(x).maxError = x.maxError /\ RemoveExpired(x).total = x.total
         /\ DOMAIN RemoveExpired(x).items = {k \in DOMAIN x.items : x.items[k] > x.maxError}
         /\ AllKeys(RemoveExpired(x).items) = Abstract!Unexpired(AllKeys(x.items), x.maxError)
<1> DEFINE D == DOMAIN x.items
           C == Current(x.minimum, x.items)
           expired == {p \in C : p[1] <= x.maxError}
           items == Restrict(x.items, D \ {p[2] : p \in expired})
           L == {q \in DOMAIN x.minimum : \A p \in expired : ~ NotAfter(q, p)}
           later == Restrict(x.minimum, L)
           T == {q \in L : \E p \in Current(later, items) : NotAfter(p, q)}
           K == {k \in D : x.items[k] > x.maxError}
           y == RemoveExpired(x)
<1>1. x \in Fields
  BY DEF Sound
<1>2. x.items \in [D -> Amounts] /\ D \subseteq Key /\ x.maxError \in Amounts
  BY <1>1, FieldsAre
<1>3. \A k \in D : x.items[k] \in Int /\ k \in Int /\ x.maxError \in Int
  <2>1. \A k \in D : x.items[k] \in Amounts /\ k \in Key
    BY <1>2
  <2> QED BY <1>2, <2>1, AmountsAre, KeysAre
<1>4. C = {<<x.items[k], k>> : k \in D}
  BY CurrentIs
<1>5. D \ {p[2] : p \in expired} = K
  <2>1. ASSUME NEW k \in K PROVE k \notin {p[2] : p \in expired}
    <3>1. SUFFICES ASSUME NEW p \in expired, p[2] = k PROVE FALSE
      OBVIOUS
    <3>2. PICK j \in D : p = <<x.items[j], j>>
      BY <1>4
    <3>3. j = k /\ p[1] = x.items[k] /\ p[1] <= x.maxError
      BY <3>1, <3>2
    <3> QED BY <1>3, <3>3
  <2>2. ASSUME NEW k \in D \ K PROVE k \in {p[2] : p \in expired}
    <3>1. <<x.items[k], k>> \in C
      BY <1>4
    <3>2. x.items[k] <= x.maxError
      BY <1>3
    <3>3. <<x.items[k], k>> \in expired /\ <<x.items[k], k>>[2] = k
      BY <3>1, <3>2
    <3> QED BY <3>3
  <2> QED BY <2>1, <2>2
<1>6. items = [k \in K |-> x.items[k]]
  BY <1>5 DEF Restrict
<1>7. /\ y.items = items /\ y.maxError = x.maxError /\ y.total = x.total
      /\ y.minimum = IF DOMAIN items = {} THEN later ELSE Peeked(later, items)
      /\ y = [items |-> items, minimum |-> y.minimum, maxError |-> x.maxError, total |-> x.total]
  <2> DEFINE heap == IF DOMAIN items = {} THEN later ELSE Peeked(later, items)
  <2>1. y = [x EXCEPT !.items = items, !.minimum = heap]
    BY DEF RemoveExpired
  <2>2. x = [items |-> x.items, minimum |-> x.minimum, maxError |-> x.maxError, total |-> x.total]
    BY <1>1, FieldsRecord
  <2> HIDE DEF items, heap, y
  <2>3. y = [items |-> items, minimum |-> heap, maxError |-> x.maxError, total |-> x.total]
    BY <2>1, <2>2
  <2>4. y.minimum = heap
    BY <2>3
  <2> QED BY <2>3, <2>4 DEF heap
<1>8. ASSUME NEW k \in K PROVE <<x.items[k], k>> \in L
  <2>1. <<x.items[k], k>> \in C
    BY <1>4
  <2>2. <<x.items[k], k>> \in DOMAIN x.minimum
    BY <2>1 DEF Current
  <2>3. ASSUME NEW p \in expired PROVE ~ NotAfter(<<x.items[k], k>>, p)
    <3>1. PICK j \in D : p = <<x.items[j], j>>
      BY <1>4
    <3>2. x.items[j] <= x.maxError /\ x.items[k] > x.maxError
      BY <3>1
    <3>3. x.items[k] > x.items[j] /\ x.items[k] \in Int /\ x.items[j] \in Int
      BY <1>3, <3>2
    <3> QED BY <3>1, <3>3 DEF NotAfter
  <2> QED BY <2>2, <2>3
<1>9. ASSUME NEW k \in K PROVE <<x.items[k], k>> \in T
  <2>1. <<x.items[k], k>> \in L /\ DOMAIN later = L /\ DOMAIN items = K /\ items[k] = x.items[k]
    BY <1>6, <1>8 DEF Restrict
  <2>2. <<x.items[k], k>> \in Current(later, items)
    BY <2>1 DEF Current, IsCurrent
  <2>3. NotAfter(<<x.items[k], k>>, <<x.items[k], k>>)
    BY <1>3 DEF NotAfter
  <2> QED BY <2>1, <2>2, <2>3
<1>10. Peeked(later, items) = Restrict(x.minimum, T)
  <2>1. DOMAIN later = L /\ \A q \in L : later[q] = x.minimum[q]
    BY DEF Restrict
  <2>2. Peeked(later, items) = Restrict(later, T)
    BY <2>1 DEF Peeked
  <2>3. Restrict(later, T) = Restrict(x.minimum, T)
    BY <2>1 DEF Restrict
  <2> QED BY <2>2, <2>3
<1> DEFINE S == IF DOMAIN items = {} THEN L ELSE T
<1>11. S \in SUBSET DOMAIN x.minimum /\ \A k \in K : <<x.items[k], k>> \in S
  BY <1>8, <1>9
<1>12. y.minimum = Restrict(x.minimum, S)
  BY <1>7, <1>10
<1> HIDE DEF S, T, L, later, expired, C, y
<1>13. y.items = [k \in K |-> x.items[k]] /\ DOMAIN y.items = K
  BY <1>6, <1>7
<1> HIDE DEF items
<1>14. y \in Fields
  <2>1. y.items \in [K -> Amounts] /\ K \in SUBSET Key
    BY <1>2, <1>13
  <2>2. y.items \in Dicts
    BY <2>1 DEF Dicts
  <2>3. y.minimum \in Heaps
    BY <1>1, <1>11, <1>12, RestrictedHeap
  <2>4. x.total \in Amounts
    BY <1>1, FieldsAre
  <2> QED BY <1>2, <1>7, <2>2, <2>3, <2>4 DEF Fields
<1>15. Good(y)
  <2>1. DOMAIN y.items \subseteq D
    BY <1>13
  <2>2. \A k \in DOMAIN y.items : y.items[k] = x.items[k] /\ <<x.items[k], k>> \in S
    BY <1>11, <1>13
  <2>3. x.maxError <= y.maxError
    BY <1>2, <1>7, AmountsAre
  <2>4. \A k \in D \ DOMAIN y.items : x.items[k] <= y.maxError
    BY <1>3, <1>7, <1>13
  <2>5. Sound(y)
    BY <1>11, <1>12, <1>14, <2>1, <2>2, <2>3, <2>4, StillSound
  <2>6. Fresh(y)
    BY <1>7, <1>13 DEF Fresh
  <2> QED BY <2>5, <2>6 DEF Good
<1>16. AllKeys(y.items) = Abstract!Unexpired(AllKeys(x.items), x.maxError)
  <2>1. \A k \in Key : AllKeys(y.items)[k] = IF k \in K THEN x.items[k] ELSE 0
    BY <1>13, <1>14, AllKeysIs
  <2>2. \A k \in Key : AllKeys(x.items)[k] = IF k \in D THEN x.items[k] ELSE 0
    BY <1>1, AllKeysIs
  <2>3. 0 <= x.maxError /\ x.maxError \in Int
    BY <1>2, AmountsAre
  <2>4. \A k \in Key : AllKeys(y.items)[k]
                         = IF AllKeys(x.items)[k] > x.maxError THEN AllKeys(x.items)[k] ELSE 0
    BY <1>3, <2>1, <2>2, <2>3
  <2>5. AllKeys(y.items) = [k \in Key |-> AllKeys(y.items)[k]]
    BY DEF AllKeys
  <2> QED BY <2>4, <2>5 DEF Abstract!Unexpired
<1> QED BY <1>7, <1>13, <1>15, <1>16 DEF y
-----------------------------------------------------------------------------
(* Adding a residual, in the terms of FrequentItems. *)

(* The result of an insertion, against Store, PruneAndStore, AddResidual. *)
StoredAs(res, it, e, k, n) ==
  /\ res.fields.maxError = e
  /\ IF n <= MaxInt THEN AllKeys(res.fields.items) = [it EXCEPT ![k] = n] /\ res.ok
                    ELSE AllKeys(res.fields.items) = it /\ ~ res.ok

PrunedAs(res, it, e, k, r) ==
  LET d    == Abstract!Consumed(it, e, r)
      kept == Abstract!Unexpired(it, e + d)
  IN IF d # r /\ Abstract!HasRoom(kept)
       THEN StoredAs(res, kept, e + d, k, e + d + (r - d))
       ELSE /\ res.fields.maxError = e + d
            /\ AllKeys(res.fields.items) = kept
            /\ res.ok <=> d = r

AddedAs(res, it, e, k, r) ==
  \/ it[k] > 0 /\ StoredAs(res, it, e, k, it[k] + r)
  \/ it[k] = 0 /\ Abstract!HasRoom(it) /\ StoredAs(res, it, e, k, e + r)
  \/ it[k] = 0 /\ ~ Abstract!HasRoom(it) /\ PrunedAs(res, it, e, k, r)

(* The guarded write of a counter.                                         *)
LEMMA StoreIs ==
  ASSUME NEW x, Good(x), NEW k \in Key, NEW n \in Int, n > x.maxError,
         IF k \in DOMAIN x.items THEN n > x.items[k] ELSE Cardinality(DOMAIN x.items) < MapSize
  PROVE  /\ Good(StoreChecked(x, k, n).fields) /\ StoreChecked(x, k, n).fields.total = x.total
         /\ StoredAs(StoreChecked(x, k, n), AllKeys(x.items), x.maxError, k, n)
<1>1. CASE n > MaxInt
  <2>1. StoreChecked(x, k, n).fields = x /\ ~ StoreChecked(x, k, n).ok
    BY <1>1 DEF StoreChecked, Raise
  <2>2. ~(n <= MaxInt)
    BY <1>1, MaxIntAssumption DEF MaxIntAssumption
  <2> QED BY <2>1, <2>2 DEF StoredAs
<1>2. CASE ~(n > MaxInt)
  <2>1. x.maxError \in Nat
    BY FieldsAre, AmountsAre DEF Good, Sound
  <2>2. n \in Amounts /\ n <= MaxInt
    BY <1>2, <2>1, MaxIntAssumption DEF Amounts, MaxIntAssumption
  <2>3. StoreChecked(x, k, n).fields = SetCounter(x, k, n) /\ StoreChecked(x, k, n).ok
    BY <1>2 DEF StoreChecked, Ok
  <2> QED BY <2>2, <2>3, SetCounterSound DEF StoredAs
<1> QED BY <1>1, <1>2

(* Both modules mean the same by a map with room.                          *)
LEMMA RoomIs ==
  ASSUME NEW x, Good(x)
  PROVE  Abstract!HasRoom(AllKeys(x.items)) <=> Cardinality(DOMAIN x.items) < MapSize
<1>1. x \in Fields /\ Fresh(x)
  BY DEF Good, Sound
<1>2. Abstract!Tracked(AllKeys(x.items)) = DOMAIN x.items
  BY <1>1, TrackedIs
<1> QED BY <1>2 DEF Abstract!HasRoom, Abstract!Cardinality, Cardinality

(* _prune_for_residual and what follows it in _add_residual.               *)
LEMMA PruneIs ==
  ASSUME NEW x, Good(x), NEW k \in Key \ DOMAIN x.items, NEW r \in Nat \ {0},
         ~(Cardinality(DOMAIN x.items) < MapSize)
  PROVE  /\ Good(PruneAndStore(x, k, r).fields) /\ PruneAndStore(x, k, r).fields.total = x.total
         /\ PrunedAs(PruneAndStore(x, k, r), AllKeys(x.items), x.maxError, k, r)
<1> DEFINE it == AllKeys(x.items)
           e == x.maxError
           peeked == [x EXCEPT !.minimum = Peeked(@, x.items)]
           least == LeastEstimate(x) - e
           d == IF r < least THEN r ELSE least
           raised == [peeked EXCEPT !.maxError = @ + d]
           pruned == IF r < least THEN raised ELSE RemoveExpired(raised)
           kept == Abstract!Unexpired(it, e + d)
           res == PruneAndStore(x, k, r)
<1>1. x \in Fields /\ Sound(x) /\ Fresh(x) /\ InRoom(x)
  BY DEF Good, Sound
<1>2. /\ x.items \in [DOMAIN x.items -> Amounts] /\ DOMAIN x.items \subseteq Key
      /\ e \in Amounts /\ x.total \in Amounts /\ Cardinality(DOMAIN x.items) \in Nat
  BY <1>1, FieldsAre
<1>3. DOMAIN x.items # {}
  <2>1. SUFFICES ASSUME DOMAIN x.items = {} PROVE FALSE
    OBVIOUS
  <2>2. Cardinality(DOMAIN x.items) = 0
    BY <2>1, FS_EmptySet
  <2> QED BY <2>2, MapSizeAssumption DEF MapSizeAssumption
<1>4. \A j \in DOMAIN x.items : x.items[j] \in Int /\ x.items[j] > e /\ x.items[j] <= MaxInt
  <2>1. \A j \in DOMAIN x.items : x.items[j] \in Amounts
    BY <1>2
  <2>2. \A j \in DOMAIN x.items : x.items[j] > e
    BY <1>1 DEF Fresh
  <2> QED BY <2>1, <2>2, AmountsAre
<1>5. e \in Nat /\ MaxInt \in Nat
  BY <1>2, AmountsAre, MaxIntAssumption DEF MaxIntAssumption
<1>6. /\ least \in Int /\ least > 0 /\ e + least <= MaxInt
      /\ \A j \in DOMAIN x.items : e + least <= x.items[j]
      /\ least = Abstract!MinEstimate(it) - e
  <2>1. PICK j \in DOMAIN x.items : LeastEstimate(x) = x.items[j]
    BY <1>3, LeastIs
  <2>2. \A i \in DOMAIN x.items : LeastEstimate(x) <= x.items[i]
    BY <1>3, LeastIs
  <2>3. LeastEstimate(x) = Abstract!MinEstimate(it)
    BY <1>3, LeastIs
  <2>4. LeastEstimate(x) \in Int /\ LeastEstimate(x) > e /\ LeastEstimate(x) <= MaxInt
    BY <1>4, <2>1
  <2> HIDE DEF it
  <2> QED BY <1>4, <1>5, <2>2, <2>3, <2>4
<1> HIDE DEF least
<1>7. /\ d \in Nat \ {0} /\ d <= r /\ d <= least /\ e + d \in Amounts /\ e + d > e
      /\ (d # r => r - d > 0)
  BY <1>5, <1>6 DEF Amounts
<1>8. d = Abstract!Consumed(it, e, r)
  BY <1>6 DEF Abstract!Consumed
<1>9. Sound(peeked) /\ peeked.items = x.items /\ peeked.maxError = e /\ peeked.total = x.total
  BY <1>1, PeekedKeeps
<1> HIDE DEF peeked, d
<1>10. /\ raised.items = x.items /\ raised.maxError = e + d /\ raised.total = x.total
       /\ raised.minimum = peeked.minimum /\ raised \in Fields
  <2>1. peeked \in Fields
    BY <1>9 DEF Sound
  <2>2. peeked = [items |-> peeked.items, minimum |-> peeked.minimum, maxError |-> peeked.maxError,
                  total |-> peeked.total]
    BY <2>1, FieldsRecord
  <2>3. raised = [items |-> x.items, minimum |-> peeked.minimum, maxError |-> e + d, total |-> x.total]
    BY <1>9, <2>2
  <2> QED BY <1>7, <1>9, <2>1, <2>3 DEF Fields
<1> HIDE DEF raised
<1>11. Sound(raised)
  <2>1. \A p \in DOMAIN peeked.minimum :
           p[1] <= IF p[2] \in DOMAIN x.items THEN x.items[p[2]] ELSE e
    BY <1>9 DEF Sound, HeapHolds
  <2>2. DOMAIN peeked.minimum \subseteq Pairs
    BY <1>9, FieldsAre DEF Sound
  <2>3. ASSUME NEW p \in DOMAIN peeked.minimum
        PROVE  p[1] <= IF p[2] \in DOMAIN x.items THEN x.items[p[2]] ELSE e + d
    <3>1. p[1] \in Int
      BY <2>2, PairIs
    <3> QED BY <1>5, <1>7, <2>1, <3>1
  <2> QED BY <1>9, <1>10, <2>3 DEF Sound, HeapHolds, InRoom
<1>12. /\ Good(pruned) /\ pruned.maxError = e + d /\ pruned.total = x.total
       /\ AllKeys(pruned.items) = kept /\ k \notin DOMAIN pruned.items
  <2>1. CASE r < least
    <3>1. pruned = raised /\ d = r
      BY <2>1 DEF d
    <3>2. Good(raised)
      <4>1. \A j \in DOMAIN x.items : x.items[j] > e + d
        BY <1>4, <1>5, <1>6, <1>7, <2>1, <3>1
      <4> QED BY <1>10, <1>11, <4>1 DEF Good, Fresh
    <3>3. it = kept
      <4>1. \A j \in Key : it[j] = IF j \in DOMAIN x.items THEN x.items[j] ELSE 0
        BY <1>1, AllKeysIs
      <4>2. \A j \in DOMAIN x.items : x.items[j] > e + d
        BY <3>2, <1>10 DEF Good, Fresh
      <4>3. \A j \in Key : it[j] = IF it[j] > e + d THEN it[j] ELSE 0
        BY <1>5, <1>7, <4>1, <4>2
      <4>4. it = [j \in Key |-> it[j]]
        BY DEF AllKeys
      <4> HIDE DEF it
      <4> QED BY <4>3, <4>4 DEF Abstract!Unexpired
    <3> QED BY <1>10, <3>1, <3>2, <3>3
  <2>2. CASE ~(r < least)
    <3>1. pruned = RemoveExpired(raised)
      BY <2>2
    <3>2. /\ Good(pruned) /\ pruned.maxError = e + d /\ pruned.total = x.total
          /\ DOMAIN pruned.items \subseteq DOMAIN x.items
      BY <1>10, <1>11, <3>1, RemoveExpiredKeeps
    <3>3. AllKeys(pruned.items) = kept
      BY <1>10, <1>11, <3>1, RemoveExpiredKeeps
    <3> QED BY <3>2, <3>3
  <2> QED BY <2>1, <2>2
<1>13. res = IF d = r THEN Ok(pruned)
             ELSE IF Cardinality(DOMAIN pruned.items) >= MapSize THEN Raise(pruned)
             ELSE StoreChecked(pruned, k, e + d + (r - d))
  <2>1. ~ Missing(x)
    BY <1>1, NeverMissing
  <2>2. ~(e + d > MaxInt)
    <3>1. e + d <= MaxInt /\ e + d \in Int
      BY <1>7, AmountsAre
    <3> QED BY <1>5, <3>1
  <2>3. ~ Missing(pruned)
    BY <1>12, NeverMissing DEF Good
  <2>4. res = IF Missing(x) \/ e + d > MaxInt
                THEN Raise(peeked)
                ELSE IF ~ Missing(pruned) /\ d = r
                  THEN Ok(pruned)
                  ELSE IF Missing(pruned) \/ Cardinality(DOMAIN pruned.items) >= MapSize
                    THEN Raise(pruned)
                    ELSE StoreChecked(pruned, k, pruned.maxError + (r - d))
    BY DEF PruneAndStore, peeked, least, d, raised
  <2>5. pruned.maxError = e + d
    BY <1>12
  <2> HIDE DEF res, pruned, e
  <2> QED BY <2>1, <2>2, <2>3, <2>4, <2>5
<1> HIDE DEF pruned, res
<1>14. Abstract!HasRoom(kept) <=> Cardinality(DOMAIN pruned.items) < MapSize
  BY <1>12, RoomIs
<1>15. Cardinality(DOMAIN pruned.items) \in Nat /\ MapSize \in Nat
  BY <1>12, FieldsAre, MapSizeAssumption DEF Good, Sound, MapSizeAssumption
<1>16. CASE d = r
  <2>1. res.fields = pruned /\ res.ok
    BY <1>13, <1>16 DEF Ok
  <2> QED BY <1>8, <1>12, <1>16, <2>1 DEF PrunedAs, res
<1>17. CASE d # r /\ ~ Abstract!HasRoom(kept)
  <2>1. res = Raise(pruned)
    BY <1>13, <1>14, <1>15, <1>17
  <2>2. res.fields = pruned /\ ~ res.ok
    BY <2>1 DEF Raise
  <2> QED BY <1>8, <1>12, <1>17, <2>2 DEF PrunedAs, res
<1>18. CASE d # r /\ Abstract!HasRoom(kept)
  <2>1. res = StoreChecked(pruned, k, e + d + (r - d))
    BY <1>13, <1>14, <1>15, <1>18
  <2>2. e + d + (r - d) \in Int /\ e + d + (r - d) > pruned.maxError
    BY <1>5, <1>7, <1>12, <1>18
  <2>3. Cardinality(DOMAIN pruned.items) < MapSize
    BY <1>14, <1>18
  <2>4. /\ Good(res.fields) /\ res.fields.total = pruned.total
        /\ StoredAs(res, AllKeys(pruned.items), pruned.maxError, k, e + d + (r - d))
    BY <1>12, <2>1, <2>2, <2>3, StoreIs
  <2> QED BY <1>8, <1>12, <1>18, <2>4 DEF PrunedAs, res
<1> QED BY <1>16, <1>17, <1>18

(* _add_residual.                                                          *)
LEMMA AddIs ==
  ASSUME NEW x, Good(x), NEW k \in Key, NEW r \in Nat \ {0}
  PROVE  /\ Good(AddResidual(x, k, r).fields) /\ AddResidual(x, k, r).fields.total = x.total
         /\ AddedAs(AddResidual(x, k, r), AllKeys(x.items), x.maxError, k, r)
<1> DEFINE it == AllKeys(x.items)
           res == AddResidual(x, k, r)
<1>1. x \in Fields /\ Fresh(x)
  BY DEF Good, Sound
<1>2. x.maxError \in Nat /\ MapSize \in Nat /\ Cardinality(DOMAIN x.items) \in Nat
  BY <1>1, FieldsAre, AmountsAre, MapSizeAssumption DEF MapSizeAssumption
<1>3. it[k] = IF k \in DOMAIN x.items THEN x.items[k] ELSE 0
  BY <1>1, AllKeysIs
<1>4. k \in DOMAIN x.items => x.items[k] \in Nat /\ x.items[k] > x.maxError
  <2>1. k \in DOMAIN x.items => x.items[k] \in Amounts
    BY <1>1, FieldsAre
  <2> QED BY <1>1, <2>1, AmountsAre DEF Fresh
<1>5. Abstract!HasRoom(it) <=> Cardinality(DOMAIN x.items) < MapSize
  BY RoomIs
<1>6. CASE k \in DOMAIN x.items
  <2>1. res = StoreChecked(x, k, x.items[k] + r)
    BY <1>6 DEF AddResidual
  <2>2. x.items[k] + r \in Int /\ x.items[k] + r > x.maxError /\ x.items[k] + r > x.items[k]
    BY <1>2, <1>4, <1>6
  <2>3. /\ Good(res.fields) /\ res.fields.total = x.total
        /\ StoredAs(res, it, x.maxError, k, x.items[k] + r)
    BY <1>6, <2>1, <2>2, StoreIs
  <2>4. it[k] = x.items[k] /\ it[k] > 0
    BY <1>2, <1>3, <1>4, <1>6
  <2> HIDE DEF res, it
  <2> QED BY <2>3, <2>4 DEF AddedAs, res, it
<1>7. CASE k \notin DOMAIN x.items /\ Cardinality(DOMAIN x.items) < MapSize
  <2>1. res = StoreChecked(x, k, x.maxError + r)
    BY <1>7 DEF AddResidual
  <2>2. x.maxError + r \in Int /\ x.maxError + r > x.maxError
    BY <1>2
  <2>3. /\ Good(res.fields) /\ res.fields.total = x.total
        /\ StoredAs(res, it, x.maxError, k, x.maxError + r)
    BY <1>7, <2>1, <2>2, StoreIs
  <2>4. it[k] = 0
    BY <1>3, <1>7
  <2> QED BY <1>5, <1>7, <2>3, <2>4 DEF AddedAs
<1>8. CASE k \notin DOMAIN x.items /\ ~(Cardinality(DOMAIN x.items) < MapSize)
  <2>1. res = PruneAndStore(x, k, r)
    BY <1>8 DEF AddResidual
  <2>2. /\ Good(res.fields) /\ res.fields.total = x.total
        /\ PrunedAs(res, it, x.maxError, k, r)
    BY <1>8, <2>1, PruneIs
  <2>3. it[k] = 0
    BY <1>3, <1>8
  <2> QED BY <1>5, <1>8, <2>2, <2>3 DEF AddedAs
<1> QED BY <1>6, <1>7, <1>8
-----------------------------------------------------------------------------
(* The inductive invariant. *)

(* The residuals of a merge are positive; a failed merge has none left.    *)
Pendings == UNION {[S -> 1 .. MaxInt] : S \in SUBSET Key}

LazyInv ==
  /\ sketch \in [Sketch -> Fields]
  /\ \A s \in Sketch : Good(sketch[s])
  /\ entries \in [Sketch -> Pendings]
  /\ failed \in SUBSET Sketch
  /\ \A s \in failed : entries[s] = NoDict

(* No entries are left: no key has a residual pending.                     *)
LEMMA NoDictIs ==
  /\ NoDict \in Dicts /\ NoDict \in Pendings /\ DOMAIN NoDict = {}
  /\ AllKeys(NoDict) = [k \in Key |-> 0]
<1>1. NoDict \in [{} -> Amounts] /\ NoDict \in [{} -> 1 .. MaxInt] /\ DOMAIN NoDict = {}
  BY DEF NoDict
<1>2. AllKeys(NoDict) = [k \in Key |-> 0]
  BY <1>1 DEF AllKeys, Lookup
<1> QED BY <1>1, <1>2 DEF Dicts, Pendings

(* A heap made anew from the counters.                                     *)
LEMMA RebuiltGood ==
  ASSUME NEW x \in Fields, InRoom(x), Fresh(x), x.minimum = Rebuilt(x.items)
  PROVE  Good(x)
<1> DEFINE D == DOMAIN x.items
           P == {<<x.items[j], j>> : j \in D}
<1>1. x.items \in [D -> Amounts] /\ IsFiniteSet(D) /\ Cardinality(D) \in Nat
  BY FieldsAre
<1>2. x.minimum = [p \in P |-> 1]
  BY DEF Rebuilt, SetToBag
<1>3. HeapSize(x.minimum) <= 2 * MapSize
  <2>1. HeapSize(x.minimum) = Cardinality(D)
    BY <1>1, RebuiltSize
  <2> QED BY <1>1, <2>1, MapSizeAssumption DEF InRoom, MapSizeAssumption
<1>4. \A j \in D : <<x.items[j], j>> \in DOMAIN x.minimum /\ x.minimum[<<x.items[j], j>>] = 1
  BY <1>2
<1>5. ASSUME NEW p \in DOMAIN x.minimum PROVE p[2] \in D /\ p[1] <= x.items[p[2]]
  <2>1. PICK j \in D : p = <<x.items[j], j>>
    BY <1>2
  <2>2. x.items[j] \in Amounts
    BY <1>1
  <2>3. x.items[j] \in Int
    BY <2>2, AmountsAre
  <2> QED BY <2>1, <2>3
<1> QED BY <1>3, <1>4, <1>5 DEF Good, Sound, HeapHolds

(* _reset.                                                                 *)
LEMMA EmptiedGood ==
  ASSUME NEW x \in Fields, x.items = NoDict, x.minimum = EmptyBag
  PROVE  Good(x)
<1>1. DOMAIN x.items = {}
  BY NoDictIs
<1>2. x.minimum = Rebuilt(x.items)
  BY <1>1 DEF EmptyBag, Rebuilt
<1>3. Fresh(x)
  BY <1>1 DEF Fresh
<1>4. InRoom(x)
  <2>1. Cardinality(DOMAIN x.items) = 0
    BY <1>1, FS_EmptySet
  <2> QED BY <2>1, MapSizeAssumption DEF InRoom, MapSizeAssumption
<1> QED BY <1>2, <1>3, <1>4, RebuiltGood

(* A change of the total alone.                                            *)
LEMMA TotalledGood ==
  ASSUME NEW x, Good(x), NEW n \in Amounts
  PROVE  /\ Good([x EXCEPT !.total = n])
         /\ [x EXCEPT !.total = n].items = x.items
         /\ [x EXCEPT !.total = n].maxError = x.maxError
         /\ [x EXCEPT !.total = n].total = n
<1> DEFINE y == [x EXCEPT !.total = n]
<1>1. x \in Fields /\ HeapHolds(x) /\ InRoom(x) /\ Fresh(x)
  BY DEF Good, Sound
<1>2. x = [items |-> x.items, minimum |-> x.minimum, maxError |-> x.maxError, total |-> x.total]
  BY <1>1, FieldsRecord
<1>3. /\ y.items = x.items /\ y.minimum = x.minimum /\ y.maxError = x.maxError /\ y.total = n
      /\ y \in Fields
  BY <1>1, <1>2 DEF Fields
<1> HIDE DEF y
<1>4. HeapHolds(y) /\ InRoom(y) /\ Fresh(y)
  BY <1>1, <1>3 DEF HeapHolds, InRoom, Fresh
<1>5. Good(y)
  BY <1>3, <1>4 DEF Good, Sound
<1> QED BY <1>3, <1>5 DEF y

(* Entries as a function on all keys.                                      *)
LEMMA PendingIs ==
  ASSUME NEW d \in Pendings
  PROVE  /\ d \in [DOMAIN d -> 1 .. MaxInt] /\ DOMAIN d \subseteq Key
         /\ \A k \in Key : AllKeys(d)[k] = IF k \in DOMAIN d THEN d[k] ELSE 0
         /\ \A k \in DOMAIN d : d[k] \in Nat \ {0}
<1>1. PICK S \in SUBSET Key : d \in [S -> 1 .. MaxInt]
  BY DEF Pendings
<1>2. \A k \in DOMAIN d : d[k] \in Nat \ {0}
  BY <1>1, MaxIntAssumption DEF MaxIntAssumption
<1> QED BY <1>1, <1>2 DEF AllKeys, Lookup

(* What merge retains of two sketches.                                     *)
LEMMA CombinedIs ==
  ASSUME NEW x, Good(x), NEW y, Good(y)
  PROVE  /\ Combined(x, y) \in Pendings
         /\ AllKeys(Combined(x, y)) =
              [k \in Key |-> Abstract!Saturate(Abstract!LowerBound(AllKeys(x.items), x.maxError, k)
                                        + Abstract!LowerBound(AllKeys(y.items), y.maxError, k))]
<1> DEFINE Sum(k) == Residual(x, k) + Residual(y, k)
           Present == {k \in DOMAIN x.items \cup DOMAIN y.items : Sum(k) > 0}
           c == Combined(x, y)
<1>1. ASSUME NEW z, Good(z)
      PROVE  /\ DOMAIN z.items \subseteq Key
             /\ \A k \in Key : /\ Residual(z, k) \in Nat
                               /\ Residual(z, k) = Abstract!LowerBound(AllKeys(z.items), z.maxError, k)
                               /\ k \notin DOMAIN z.items => Residual(z, k) = 0
                               /\ Residual(z, k) > 0 => MaxInt > 0
  <2>1. z \in Fields /\ Fresh(z)
    BY <1>1 DEF Good, Sound
  <2>2. z.items \in [DOMAIN z.items -> Amounts] /\ DOMAIN z.items \subseteq Key /\ z.maxError \in Amounts
    BY <2>1, FieldsAre
  <2>3. z.maxError \in Nat
    BY <2>2, AmountsAre
  <2>4. ASSUME NEW k \in Key
        PROVE  /\ Residual(z, k) \in Nat
               /\ Residual(z, k) = Abstract!LowerBound(AllKeys(z.items), z.maxError, k)
               /\ k \notin DOMAIN z.items => Residual(z, k) = 0
               /\ Residual(z, k) > 0 => MaxInt > 0
    <3>1. AllKeys(z.items)[k] = IF k \in DOMAIN z.items THEN z.items[k] ELSE 0
      BY <2>1, AllKeysIs
    <3>2. CASE k \in DOMAIN z.items
      <4>1. z.items[k] \in Amounts
        BY <2>2, <3>2
      <4>2. z.items[k] \in Nat /\ z.items[k] > z.maxError /\ z.items[k] <= MaxInt
        BY <2>1, <3>2, <4>1, AmountsAre DEF Fresh
      <4>3. Residual(z, k) = z.items[k] - z.maxError
        BY <3>2 DEF Residual
      <4>4. Abstract!LowerBound(AllKeys(z.items), z.maxError, k) = z.items[k] - z.maxError
        BY <3>1, <3>2, <4>2 DEF Abstract!LowerBound
      <4> QED BY <2>3, <3>2, <4>2, <4>3, <4>4, MaxIntAssumption DEF MaxIntAssumption
    <3>3. CASE k \notin DOMAIN z.items
      <4>1. Residual(z, k) = 0
        BY <3>3 DEF Residual
      <4>2. AllKeys(z.items)[k] = 0
        BY <3>1, <3>3
      <4>3. Abstract!LowerBound(AllKeys(z.items), z.maxError, k) = 0
        BY <2>3, <4>2 DEF Abstract!LowerBound
      <4> QED BY <4>1, <4>3
    <3> QED BY <3>2, <3>3
  <2> QED BY <2>2, <2>4
<1>2. Present \in SUBSET Key /\ DOMAIN c = Present
  <2>1. DOMAIN x.items \subseteq Key /\ DOMAIN y.items \subseteq Key
    BY <1>1
  <2>2. DOMAIN c = Present
    BY DEF Combined
  <2> QED BY <2>1, <2>2
<1>3. \A k \in Present : c[k] = IF Sum(k) > MaxInt THEN MaxInt ELSE Sum(k)
  BY DEF Combined
<1>4. c = [k \in Present |-> c[k]]
  BY DEF Combined
<1>5. \A k \in Key : /\ Residual(x, k) \in Nat /\ Residual(y, k) \in Nat
                     /\ k \notin DOMAIN x.items => Residual(x, k) = 0
                     /\ k \notin DOMAIN y.items => Residual(y, k) = 0
                     /\ Residual(x, k) > 0 => MaxInt > 0
                     /\ Residual(y, k) > 0 => MaxInt > 0
  BY <1>1
<1>6. \A k \in Key : Sum(k) \in Nat /\ (k \notin Present => Sum(k) = 0) /\ (Sum(k) > 0 => MaxInt > 0)
  <2>1. ASSUME NEW k \in Key
        PROVE  Sum(k) \in Nat /\ (k \notin Present => Sum(k) = 0) /\ (Sum(k) > 0 => MaxInt > 0)
    <3>1. /\ Residual(x, k) \in Nat /\ Residual(y, k) \in Nat
          /\ k \notin DOMAIN x.items => Residual(x, k) = 0
          /\ k \notin DOMAIN y.items => Residual(y, k) = 0
          /\ Residual(x, k) > 0 => MaxInt > 0
          /\ Residual(y, k) > 0 => MaxInt > 0
      BY <1>5
    <3>2. Sum(k) = 0 \/ Sum(k) > 0
      BY <3>1
    <3> QED BY <3>1, <3>2
  <2> QED BY <2>1
<1>7. \A k \in Key : Sum(k) = Abstract!LowerBound(AllKeys(x.items), x.maxError, k)
                                + Abstract!LowerBound(AllKeys(y.items), y.maxError, k)
  <2>1. \A k \in Key : Residual(x, k) = Abstract!LowerBound(AllKeys(x.items), x.maxError, k)
    BY <1>1
  <2>2. \A k \in Key : Residual(y, k) = Abstract!LowerBound(AllKeys(y.items), y.maxError, k)
    BY <1>1
  <2> QED BY <2>1, <2>2
<1>8. \A k \in Present : Sum(k) > 0
  OBVIOUS
<1> HIDE DEF Sum, Present, c
<1>9. c \in Pendings
  <2>1. \A k \in Present : c[k] \in 1 .. MaxInt
    <3>1. ASSUME NEW k \in Present PROVE c[k] \in 1 .. MaxInt
      <4>1. Sum(k) \in Nat /\ Sum(k) > 0 /\ MaxInt > 0
        BY <1>2, <1>6, <1>8
      <4>2. c[k] = IF Sum(k) > MaxInt THEN MaxInt ELSE Sum(k)
        BY <1>3
      <4> QED BY <4>1, <4>2, MaxIntAssumption DEF MaxIntAssumption
    <3> QED BY <3>1
  <2>2. c \in [Present -> 1 .. MaxInt]
    BY <1>4, <2>1
  <2> QED BY <1>2, <2>2 DEF Pendings
<1>10. \A k \in Key : AllKeys(c)[k] = Abstract!Saturate(Sum(k))
  <2>1. ASSUME NEW k \in Key PROVE AllKeys(c)[k] = Abstract!Saturate(Sum(k))
    <3>1. AllKeys(c)[k] = IF k \in Present THEN c[k] ELSE 0
      BY <1>2 DEF AllKeys, Lookup
    <3>2. CASE k \in Present
      BY <1>3, <3>1, <3>2 DEF Abstract!Saturate
    <3>3. CASE k \notin Present
      <4>1. Sum(k) = 0
        BY <1>6, <3>3
      <4> QED BY <3>1, <3>3, <4>1, MaxIntAssumption DEF Abstract!Saturate, MaxIntAssumption
    <3> QED BY <3>2, <3>3
  <2> QED BY <2>1
<1>11. AllKeys(c) = [k \in Key |-> AllKeys(c)[k]]
  BY DEF AllKeys
<1>12. AllKeys(c) =
              [k \in Key |-> Abstract!Saturate(Abstract!LowerBound(AllKeys(x.items), x.maxError, k)
                                        + Abstract!LowerBound(AllKeys(y.items), y.maxError, k))]
  BY <1>7, <1>10, <1>11
<1> QED BY <1>9, <1>12 DEF c
-----------------------------------------------------------------------------
(* The instances as FrequentItems sees them. *)

AbsItems == [s \in Sketch |-> AllKeys(sketch[s].items)]
AbsError == [s \in Sketch |-> sketch[s].maxError]
AbsTotal == [s \in Sketch |-> sketch[s].total]
AbsPending == [s \in Sketch |-> AllKeys(entries[s])]

(* What a write to the fields of an instance is to FrequentItems.          *)
LEMMA SketchChanges ==
  ASSUME LazyInv, NEW s \in Sketch, NEW x, sketch' = [sketch EXCEPT ![s] = x]
  PROVE  /\ AbsItems' = [AbsItems EXCEPT ![s] = AllKeys(x.items)]
         /\ AbsError' = [AbsError EXCEPT ![s] = x.maxError]
         /\ AbsTotal' = [AbsTotal EXCEPT ![s] = x.total]
<1>1. \A t \in Sketch : sketch'[t] = IF t = s THEN x ELSE sketch[t]
  BY DEF LazyInv
<1>2. AbsItems' = [t \in Sketch |-> AllKeys(sketch'[t].items)]
  BY DEF AbsItems, AllKeys, Lookup
<1>3. \A t \in Sketch : AllKeys(sketch'[t].items)
                          = IF t = s THEN AllKeys(x.items) ELSE AllKeys(sketch[t].items)
  BY <1>1
<1>4. AbsItems' = [t \in Sketch |-> IF t = s THEN AllKeys(x.items) ELSE AllKeys(sketch[t].items)]
  BY <1>2, <1>3
<1>5. AbsItems' = [AbsItems EXCEPT ![s] = AllKeys(x.items)]
  BY <1>4 DEF AbsItems
<1>6. AbsError' = [AbsError EXCEPT ![s] = x.maxError]
  <2>1. \A t \in Sketch : sketch'[t].maxError = IF t = s THEN x.maxError ELSE sketch[t].maxError
    BY <1>1
  <2>2. AbsError' = [t \in Sketch |-> sketch'[t].maxError]
    BY DEF AbsError
  <2> QED BY <2>1, <2>2 DEF AbsError
<1>7. AbsTotal' = [AbsTotal EXCEPT ![s] = x.total]
  <2>1. \A t \in Sketch : sketch'[t].total = IF t = s THEN x.total ELSE sketch[t].total
    BY <1>1
  <2>2. AbsTotal' = [t \in Sketch |-> sketch'[t].total]
    BY DEF AbsTotal
  <2> QED BY <2>1, <2>2 DEF AbsTotal
<1> QED BY <1>5, <1>6, <1>7

(* What a write to the entries of an instance is to it.                    *)
LEMMA EntriesChange ==
  ASSUME LazyInv, NEW s \in Sketch, NEW d, entries' = [entries EXCEPT ![s] = d]
  PROVE  AbsPending' = [AbsPending EXCEPT ![s] = AllKeys(d)]
<1>1. \A t \in Sketch : entries'[t] = IF t = s THEN d ELSE entries[t]
  BY DEF LazyInv
<1>2. AbsPending' = [t \in Sketch |-> AllKeys(entries'[t])]
  BY DEF AbsPending, AllKeys, Lookup
<1>3. \A t \in Sketch : AllKeys(entries'[t]) = IF t = s THEN AllKeys(d) ELSE AllKeys(entries[t])
  BY <1>1
<1>4. AbsPending' = [t \in Sketch |-> IF t = s THEN AllKeys(d) ELSE AllKeys(entries[t])]
  BY <1>2, <1>3
<1> QED BY <1>4 DEF AbsPending

LEMMA EntriesStay ==
  ASSUME entries' = entries PROVE AbsPending' = AbsPending
BY DEF AbsPending, AllKeys, Lookup

(* An insertion changes the fields and the failures as Store does.         *)
LEMMA StoreStep ==
  ASSUME LazyInv, NEW s \in Sketch, NEW res, Outcome(s, res),
         NEW it, NEW e, NEW k, NEW n, StoredAs(res, it, e, k, n)
  PROVE  Abstract!Store(s, it, e, k, n)
<1>1. /\ AbsItems' = [AbsItems EXCEPT ![s] = AllKeys(res.fields.items)]
      /\ AbsError' = [AbsError EXCEPT ![s] = e]
  BY SketchChanges DEF Outcome, StoredAs
<1>2. n <= MaxInt => AllKeys(res.fields.items) = [it EXCEPT ![k] = n] /\ failed' = failed
  BY DEF Outcome, StoredAs
<1>3. ~(n <= MaxInt) => AllKeys(res.fields.items) = it /\ failed' = failed \cup {s}
  BY DEF Outcome, StoredAs
<1> QED BY <1>1, <1>2, <1>3 DEF Abstract!Store, AbsItems, AbsError

(* The same of _add_residual as a whole.                                   *)
LEMMA AddStep ==
  ASSUME LazyInv, NEW s \in Sketch, NEW x, Good(x), x.items = sketch[s].items,
         x.maxError = sketch[s].maxError, NEW k \in Key, NEW r \in Nat \ {0},
         Outcome(s, AddResidual(x, k, r))
  PROVE  Abstract!AddResidual(s, k, r)
<1>a. PICK it : it = AbsItems[s]
  OBVIOUS
<1>b. PICK e : e = AbsError[s]
  OBVIOUS
<1> DEFINE res == AddResidual(x, k, r)
           d == Abstract!Consumed(it, e, r)
           kept == Abstract!Unexpired(it, e + d)
<1>1. it = AllKeys(x.items) /\ e = x.maxError
  BY <1>a, <1>b DEF AbsItems, AbsError
<1>2. AddedAs(res, it, e, k, r)
  BY <1>1, AddIs
<1>3. /\ AbsItems' = [AbsItems EXCEPT ![s] = AllKeys(res.fields.items)]
      /\ AbsError' = [AbsError EXCEPT ![s] = res.fields.maxError]
      /\ failed' = IF res.ok THEN failed ELSE failed \cup {s}
  BY SketchChanges DEF Outcome
<1>4. \A i, f, n : StoredAs(res, i, f, k, n) => Abstract!Store(s, i, f, k, n)
  BY StoreStep
<1> HIDE DEF res
<1>5. CASE it[k] > 0 /\ StoredAs(res, it, e, k, it[k] + r)
  <2>1. Abstract!Store(s, it, e, k, it[k] + r)
    BY <1>4, <1>5
  <2> QED BY <1>a, <1>b, <1>5, <2>1 DEF Abstract!AddResidual, Abstract!Store, AbsItems, AbsError
<1>6. CASE it[k] = 0 /\ Abstract!HasRoom(it) /\ StoredAs(res, it, e, k, e + r)
  <2>1. Abstract!Store(s, it, e, k, e + r)
    BY <1>4, <1>6
  <2> QED BY <1>a, <1>b, <1>6, <2>1 DEF Abstract!AddResidual, Abstract!Store, AbsItems, AbsError
<1>7. CASE it[k] = 0 /\ ~ Abstract!HasRoom(it) /\ PrunedAs(res, it, e, k, r)
  <2>1. Abstract!PruneAndStore(s, k, r)
    <3>1. CASE d = r
      <4>1. AbsItems' = [AbsItems EXCEPT ![s] = kept] /\ AbsError' = [AbsError EXCEPT ![s] = e + d]
            /\ failed' = failed
        BY <1>3, <1>7, <3>1 DEF PrunedAs
      <4> QED BY <1>a, <1>b, <3>1, <4>1 DEF Abstract!PruneAndStore, Abstract!Store, AbsItems, AbsError
    <3>2. CASE d # r /\ ~ Abstract!HasRoom(kept)
      <4>1. AbsItems' = [AbsItems EXCEPT ![s] = kept] /\ AbsError' = [AbsError EXCEPT ![s] = e + d]
            /\ failed' = failed \cup {s}
        BY <1>3, <1>7, <3>2 DEF PrunedAs
      <4> QED BY <1>a, <1>b, <3>2, <4>1 DEF Abstract!PruneAndStore, Abstract!Store, AbsItems, AbsError
    <3>3. CASE d # r /\ Abstract!HasRoom(kept)
      <4>1. StoredAs(res, kept, e + d, k, e + d + (r - d))
        BY <1>7, <3>3 DEF PrunedAs
      <4>2. Abstract!Store(s, kept, e + d, k, e + d + (r - d))
        BY <1>4, <4>1
      <4> QED BY <1>a, <1>b, <3>3, <4>2 DEF Abstract!PruneAndStore, Abstract!Store, AbsItems, AbsError
    <3> QED BY <3>1, <3>2, <3>3
  <2> QED BY <1>a, <1>b, <1>7, <2>1 DEF Abstract!AddResidual, AbsItems, AbsError
<1> QED BY <1>2, <1>5, <1>6, <1>7 DEF AddedAs

(* Both modules mean the same by a usable instance.                        *)
LEMMA UsableIs ==
  ASSUME LazyInv, NEW s \in Sketch
  PROVE  /\ Usable(s) => Abstract!Usable(s)
         /\ entries[s] = NoDict => Abstract!Idle(s)
<1>1. entries[s] = NoDict => AbsPending[s] = [k \in Key |-> 0]
  BY NoDictIs DEF AbsPending
<1> QED BY <1>1 DEF AbsPending, Usable, Abstract!Usable, Abstract!Idle, Abstract!None
-----------------------------------------------------------------------------
(* Every action keeps the invariant and is an action of FrequentItems. *)

(* An instance written with good fields keeps the invariant.               *)
LEMMA SketchKept ==
  ASSUME LazyInv, NEW s \in Sketch, NEW x, Good(x), sketch' = [sketch EXCEPT ![s] = x]
  PROVE  sketch' \in [Sketch -> Fields] /\ \A t \in Sketch : Good(sketch'[t])
<1>1. x \in Fields
  BY DEF Good, Sound
<1>2. \A t \in Sketch : sketch'[t] = IF t = s THEN x ELSE sketch[t]
  BY DEF LazyInv
<1> QED BY <1>1, <1>2 DEF LazyInv

LEMMA EntriesKept ==
  ASSUME LazyInv, NEW s \in Sketch, NEW d \in Pendings, entries' = [entries EXCEPT ![s] = d]
  PROVE  entries' \in [Sketch -> Pendings] /\ \A t \in Sketch : entries'[t] = IF t = s THEN d ELSE entries[t]
BY DEF LazyInv

LEMMA AddHashStep ==
  ASSUME LazyInv, NEW s \in Sketch, NEW k \in Key, NEW w \in Weight, AddHash(s, k, w)
  PROVE  LazyInv' /\ Abstract!AddHash(s, k, w)
<1>1. PICK x : x = [sketch[s] EXCEPT !.total = @ + w]
  OBVIOUS
<1>2. PICK y : y = sketch[s]
  OBVIOUS
<1>3. PICK n : n = y.total + w
  OBVIOUS
<1>4. Good(y) /\ y \in Fields
  BY <1>2 DEF LazyInv
<1>5. w \in Int /\ w > 0 /\ y.total <= MaxInt - w /\ Usable(s)
  BY <1>2, WeightAssumption DEF AddHash, Addable, WeightAssumption
<1>6. n \in Amounts /\ w \in Nat \ {0} /\ y.total \in Int
  <2>1. y.total \in Amounts
    BY <1>4, FieldsAre
  <2>2. y.total \in Nat
    BY <2>1, AmountsAre
  <2> QED BY <1>3, <1>5, <2>2, MaxIntAssumption DEF Amounts, MaxIntAssumption
<1>7. x = [y EXCEPT !.total = n]
  BY <1>1, <1>2, <1>3
<1>8. Good(x) /\ x.items = y.items /\ x.maxError = y.maxError /\ x.total = n
  BY <1>4, <1>6, <1>7, TotalledGood
<1>9. Outcome(s, AddResidual(x, k, w)) /\ entries' = entries
      /\ truth' = [truth EXCEPT ![s][k] = @ + w]
  BY <1>1 DEF AddHash
<1>10. /\ Good(AddResidual(x, k, w).fields) /\ AddResidual(x, k, w).fields.total = n
  BY <1>6, <1>8, AddIs
<1>11. sketch' = [sketch EXCEPT ![s] = AddResidual(x, k, w).fields]
       /\ failed' \in SUBSET (failed \cup {s}) /\ failed \subseteq failed'
  BY <1>9 DEF Outcome
<1>12. LazyInv'
  <2>1. sketch' \in [Sketch -> Fields] /\ \A t \in Sketch : Good(sketch'[t])
    BY <1>10, <1>11, SketchKept
  <2>2. entries[s] = NoDict
    BY <1>5 DEF Usable
  <2> QED BY <1>9, <1>11, <2>1, <2>2 DEF LazyInv
<1>13. Abstract!AddResidual(s, k, w)
  BY <1>2, <1>6, <1>8, <1>9, AddStep
<1>14. AbsTotal' = [AbsTotal EXCEPT ![s] = @ + w]
  <2>1. AbsTotal' = [AbsTotal EXCEPT ![s] = n]
    BY <1>10, <1>11, SketchChanges
  <2> QED BY <1>2, <1>3, <2>1 DEF AbsTotal
<1>15. Abstract!Usable(s)
  BY <1>5, UsableIs
<1>16. AbsPending' = AbsPending
  BY <1>9, EntriesStay
<1>17. Abstract!AddHash(s, k, w)
  BY <1>2, <1>5, <1>9, <1>13, <1>14, <1>15, <1>16 DEF Abstract!AddHash, AbsTotal, AbsPending
<1> QED BY <1>12, <1>17

LEMMA VarsStay ==
  ASSUME UNCHANGED vars
  PROVE  /\ AbsItems' = AbsItems /\ AbsError' = AbsError /\ AbsTotal' = AbsTotal
         /\ AbsPending' = AbsPending /\ failed' = failed /\ truth' = truth
         /\ LazyInv => LazyInv'
<1>1. sketch' = sketch /\ entries' = entries /\ failed' = failed /\ truth' = truth
  BY DEF vars
<1>2. LazyInv => LazyInv'
  BY <1>1 DEF LazyInv
<1> QED BY <1>1, <1>2 DEF AbsItems, AbsError, AbsTotal, AbsPending, AllKeys, Lookup

LEMMA AddRefusedStep ==
  ASSUME LazyInv, NEW s \in Sketch, NEW w \in Weight, AddRefused(s, w)
  PROVE  LazyInv' /\ Abstract!AddRefused(s, w)
<1>1. Usable(s) /\ ~ Addable(s, w) /\ UNCHANGED vars
  BY DEF AddRefused
<1>2. sketch[s].total \in Int /\ w \in Int
  <2>1. sketch[s] \in Fields
    BY DEF LazyInv
  <2>2. sketch[s].total \in Amounts
    BY <2>1, FieldsAre
  <2> QED BY <2>2, AmountsAre, WeightAssumption DEF WeightAssumption
<1>3. w <= 0 \/ sketch[s].total > MaxInt - w
  BY <1>1, <1>2, MaxIntAssumption DEF Addable, MaxIntAssumption
<1>4. Abstract!Usable(s)
  BY <1>1, UsableIs
<1>5. UNCHANGED Abstract!vars
  BY <1>1, VarsStay DEF Abstract!vars, AbsItems, AbsError, AbsTotal, AbsPending
<1> QED BY <1>1, <1>3, <1>4, <1>5, VarsStay DEF Abstract!AddRefused

LEMMA MergeRefusedStep ==
  ASSUME LazyInv, NEW s \in Sketch, NEW t \in Sketch, MergeRefused(s, t)
  PROVE  LazyInv' /\ Abstract!MergeRefused(s, t)
<1>1. Usable(s) /\ Usable(t) /\ ~ Mergeable(s, t) /\ UNCHANGED vars
  BY DEF MergeRefused
<1>2. ~ Abstract!Mergeable(s, t)
  BY <1>1 DEF Mergeable, Abstract!Mergeable
<1>3. Abstract!Usable(s) /\ Abstract!Usable(t)
  BY <1>1, UsableIs
<1>4. UNCHANGED Abstract!vars
  BY <1>1, VarsStay DEF Abstract!vars, AbsItems, AbsError, AbsTotal, AbsPending
<1> QED BY <1>1, <1>2, <1>3, <1>4, VarsStay DEF Abstract!MergeRefused

LEMMA MergeBeginStep ==
  ASSUME LazyInv, NEW s \in Sketch, NEW t \in Sketch, MergeBegin(s, t)
  PROVE  LazyInv' /\ Abstract!MergeBegin(s, t)
<1>1. PICK x : x = sketch[s]
  OBVIOUS
<1>2. PICK y : y = sketch[t]
  OBVIOUS
<1>3. PICK z : z = [Reset(x) EXCEPT !.total = @ + y.total, !.maxError = @ + y.maxError]
  OBVIOUS
<1>4. Good(x) /\ Good(y) /\ x \in Fields /\ y \in Fields
  BY <1>1, <1>2 DEF LazyInv
<1>5. /\ Usable(s) /\ Usable(t) /\ Keying[s] = Keying[t]
      /\ x.total <= MaxInt - y.total /\ x.maxError <= MaxInt - y.maxError
      /\ entries' = [entries EXCEPT ![s] = Combined(x, y)]
      /\ sketch' = [sketch EXCEPT ![s] = z]
      /\ truth' = [truth EXCEPT ![s] = [k \in Key |-> truth[s][k] + truth[t][k]]]
      /\ failed' = failed
  BY <1>1, <1>2, <1>3 DEF MergeBegin, Mergeable
<1>6. x.total + y.total \in Amounts /\ x.maxError + y.maxError \in Amounts
  <2>1. x.total \in Amounts /\ y.total \in Amounts /\ x.maxError \in Amounts /\ y.maxError \in Amounts
    BY <1>4, FieldsAre
  <2>2. x.total \in Nat /\ y.total \in Nat /\ x.maxError \in Nat /\ y.maxError \in Nat
    BY <2>1, AmountsAre
  <2> QED BY <1>5, <2>2, MaxIntAssumption DEF Amounts, MaxIntAssumption
<1>7. /\ z.items = NoDict /\ z.minimum = EmptyBag
      /\ z.total = x.total + y.total /\ z.maxError = x.maxError + y.maxError
      /\ z \in Fields
  <2>1. x = [items |-> x.items, minimum |-> x.minimum, maxError |-> x.maxError, total |-> x.total]
    BY <1>4, FieldsRecord
  <2>2. z = [items |-> NoDict, minimum |-> EmptyBag, maxError |-> x.maxError + y.maxError,
             total |-> x.total + y.total]
    BY <1>3, <2>1 DEF Reset
  <2>3. EmptyBag \in Heaps
    <3>1. EmptyBag \in [{} -> Nat \ {0}]
      BY DEF EmptyBag, SetToBag
    <3> QED BY <3>1 DEF Heaps
  <2> QED BY <1>6, <2>2, <2>3, NoDictIs DEF Fields
<1>8. Good(z)
  BY <1>7, EmptiedGood
<1>9. Combined(x, y) \in Pendings
  BY <1>4, CombinedIs
<1>10. LazyInv'
  <2>1. sketch' \in [Sketch -> Fields] /\ \A u \in Sketch : Good(sketch'[u])
    BY <1>5, <1>8, SketchKept
  <2>2. /\ entries' \in [Sketch -> Pendings]
        /\ \A u \in Sketch : entries'[u] = IF u = s THEN Combined(x, y) ELSE entries[u]
    BY <1>5, <1>9, EntriesKept
  <2>3. s \notin failed
    BY <1>5 DEF Usable
  <2> QED BY <1>5, <2>1, <2>2, <2>3 DEF LazyInv
<1>11. /\ AbsItems' = [AbsItems EXCEPT ![s] = [k \in Key |-> 0]]
       /\ AbsError' = [AbsError EXCEPT ![s] = x.maxError + y.maxError]
       /\ AbsTotal' = [AbsTotal EXCEPT ![s] = x.total + y.total]
  <2>1. /\ AbsItems' = [AbsItems EXCEPT ![s] = AllKeys(z.items)]
        /\ AbsError' = [AbsError EXCEPT ![s] = z.maxError]
        /\ AbsTotal' = [AbsTotal EXCEPT ![s] = z.total]
    BY <1>5, SketchChanges
  <2>2. AllKeys(z.items) = [k \in Key |-> 0]
    BY <1>7, NoDictIs
  <2> QED BY <1>7, <2>1, <2>2
<1>12. AbsItems[s] = AllKeys(x.items) /\ AbsError[s] = x.maxError /\ AbsTotal[s] = x.total
       /\ AbsItems[t] = AllKeys(y.items) /\ AbsError[t] = y.maxError /\ AbsTotal[t] = y.total
  BY <1>1, <1>2 DEF AbsItems, AbsError, AbsTotal
<1>13. AbsPending' = [AbsPending EXCEPT ![s] =
         [k \in Key |-> Abstract!Saturate(Abstract!LowerBound(AbsItems[s], AbsError[s], k)
                                        + Abstract!LowerBound(AbsItems[t], AbsError[t], k))]]
  <2>1. AbsPending' = [AbsPending EXCEPT ![s] = AllKeys(Combined(x, y))]
    BY <1>5, <1>9, EntriesChange
  <2>2. AllKeys(Combined(x, y)) =
          [k \in Key |-> Abstract!Saturate(Abstract!LowerBound(AllKeys(x.items), x.maxError, k)
                                        + Abstract!LowerBound(AllKeys(y.items), y.maxError, k))]
    BY <1>4, CombinedIs
  <2>3. AllKeys(Combined(x, y)) =
          [k \in Key |-> Abstract!Saturate(Abstract!LowerBound(AbsItems[s], AbsError[s], k)
                                        + Abstract!LowerBound(AbsItems[t], AbsError[t], k))]
    BY <1>12, <2>2
  <2> QED BY <2>1, <2>3
<1>14. AbsPending' = [AbsPending EXCEPT ![s] = Abstract!Combined(s, t)]
  BY <1>13 DEF Abstract!Combined, AbsItems, AbsError
<1>15. Abstract!Usable(s) /\ Abstract!Usable(t)
  BY <1>5, UsableIs
<1>16. Abstract!Mergeable(s, t)
  BY <1>1, <1>2, <1>5 DEF Abstract!Mergeable
<1>17. AbsError' = [AbsError EXCEPT ![s] = Abstract!MergedError(s, t)]
       /\ AbsTotal' = [AbsTotal EXCEPT ![s] = Abstract!MergedTotal(s, t)]
  BY <1>11, <1>12 DEF Abstract!MergedError, Abstract!MergedTotal, AbsError, AbsTotal
<1>18. AbsItems' = [AbsItems EXCEPT ![s] = Abstract!None]
  BY <1>11 DEF Abstract!None
<1>19. Abstract!MergeBegin(s, t)
  BY <1>5, <1>14, <1>15, <1>16, <1>17, <1>18
     DEF Abstract!MergeBegin, AbsItems, AbsError, AbsTotal, AbsPending
<1> QED BY <1>10, <1>19

LEMMA MergeStepStep ==
  ASSUME LazyInv, NEW s \in Sketch, NEW k \in Key, MergeStep(s, k)
  PROVE  LazyInv' /\ Abstract!MergeStep(s, k)
<1>1. PICK x : x = sketch[s]
  OBVIOUS
<1>2. PICK d : d = entries[s]
  OBVIOUS
<1>3. PICK r : r = d[k]
  OBVIOUS
<1>4. Good(x) /\ d \in Pendings
  BY <1>1, <1>2 DEF LazyInv
<1>5. /\ k \in DOMAIN d /\ (\A j \in DOMAIN d : k <= j)
      /\ Outcome(s, AddResidual(x, k, r))
      /\ entries' = [entries EXCEPT ![s] = IF s \in failed' THEN NoDict ELSE Without(@, k)]
      /\ truth' = truth
  BY <1>1, <1>2, <1>3 DEF MergeStep
<1>6. r \in Nat \ {0}
  BY <1>3, <1>4, <1>5, PendingIs
<1>7. s \notin failed
  <2>1. SUFFICES ASSUME s \in failed PROVE FALSE
    OBVIOUS
  <2>2. d = NoDict
    BY <1>2, <2>1 DEF LazyInv
  <2> QED BY <1>5, <2>2, NoDictIs
<1>8. Good(AddResidual(x, k, r).fields) /\ AddResidual(x, k, r).fields.total = x.total
  BY <1>4, <1>6, AddIs
<1>9. sketch' = [sketch EXCEPT ![s] = AddResidual(x, k, r).fields]
      /\ (failed' = failed \/ failed' = failed \cup {s})
  BY <1>5 DEF Outcome
<1>10. PICK rest : rest = IF s \in failed' THEN NoDict ELSE Without(d, k)
  OBVIOUS
<1>11. entries' = [entries EXCEPT ![s] = rest]
  BY <1>2, <1>5, <1>10
<1>12. /\ Without(d, k) \in Pendings
       /\ AllKeys(Without(d, k)) = [AllKeys(d) EXCEPT ![k] = 0]
  <2>1. d \in [DOMAIN d -> 1 .. MaxInt] /\ DOMAIN d \subseteq Key
    BY <1>4, PendingIs
  <2>2. Without(d, k) = [j \in DOMAIN d \ {k} |-> d[j]]
    BY DEF Without, Restrict
  <2>3. Without(d, k) \in [DOMAIN d \ {k} -> 1 .. MaxInt]
    BY <2>1, <2>2
  <2>4. Without(d, k) \in Pendings
    BY <2>1, <2>3 DEF Pendings
  <2>5. AllKeys(Without(d, k)) = [AllKeys(d) EXCEPT ![k] = 0]
    BY <2>2 DEF AllKeys, Lookup
  <2> QED BY <2>4, <2>5
<1>13. rest \in Pendings
  BY <1>10, <1>12, NoDictIs
<1>14. LazyInv'
  <2>1. sketch' \in [Sketch -> Fields] /\ \A t \in Sketch : Good(sketch'[t])
    BY <1>8, <1>9, SketchKept
  <2>2. /\ entries' \in [Sketch -> Pendings]
        /\ \A t \in Sketch : entries'[t] = IF t = s THEN rest ELSE entries[t]
    BY <1>11, <1>13, EntriesKept
  <2>3. \A t \in failed' : entries'[t] = NoDict
    BY <1>9, <1>10, <2>2 DEF LazyInv
  <2>4. failed' \in SUBSET Sketch
    BY <1>9 DEF LazyInv
  <2> QED BY <2>1, <2>2, <2>3, <2>4 DEF LazyInv
<1>15. Abstract!AddResidual(s, k, r)
  BY <1>1, <1>4, <1>5, <1>6, AddStep
<1>16. AbsTotal' = AbsTotal
  <2>0. AbsTotal' = [AbsTotal EXCEPT ![s] = AddResidual(x, k, r).fields.total]
    BY <1>9, SketchChanges
  <2>1. AbsTotal' = [AbsTotal EXCEPT ![s] = x.total]
    BY <1>8, <2>0
  <2> QED BY <1>1, <2>1 DEF AbsTotal
<1>17. AbsPending[s] = AllKeys(d)
  BY <1>2 DEF AbsPending
<1>18. \A j \in Key : AllKeys(d)[j] = IF j \in DOMAIN d THEN d[j] ELSE 0
  BY <1>4, PendingIs
<1>19. AbsPending[s][k] = r /\ r > 0 /\ \A j \in Key : AbsPending[s][j] > 0 => k <= j
  <2>1. AbsPending[s][k] = r /\ r > 0
    BY <1>3, <1>5, <1>6, <1>17, <1>18
  <2>2. ASSUME NEW j \in Key, AbsPending[s][j] > 0 PROVE k <= j
    <3>1. j \in DOMAIN d
      BY <1>17, <1>18, <2>2
    <3> QED BY <1>5, <3>1
  <2> QED BY <2>1, <2>2
<1>20. AbsPending' = [AbsPending EXCEPT ![s] =
         IF s \in failed' THEN [j \in Key |-> 0] ELSE [AbsPending[s] EXCEPT ![k] = 0]]
  <2>1. AbsPending' = [AbsPending EXCEPT ![s] = AllKeys(rest)]
    BY <1>11, EntriesChange
  <2>2. AllKeys(rest) = IF s \in failed' THEN [j \in Key |-> 0] ELSE [AbsPending[s] EXCEPT ![k] = 0]
    BY <1>10, <1>12, <1>17, NoDictIs
  <2> QED BY <2>1, <2>2
<1>21. Abstract!IsNext(s, k)
  BY <1>19 DEF Abstract!IsNext, AbsPending
<1>22. Abstract!AddResidual(s, k, AbsPending[s][k])
  BY <1>15, <1>19 DEF Abstract!AddResidual, Abstract!Store, Abstract!PruneAndStore
<1>23. Abstract!MergeStep(s, k)
  BY <1>5, <1>7, <1>16, <1>20, <1>21, <1>22
     DEF Abstract!MergeStep, Abstract!None, AbsTotal, AbsPending
<1> QED BY <1>14, <1>23

(* A copy, or what parse made of the bytes, takes the place of an instance. *)
LEMMA ReplaceStep ==
  ASSUME LazyInv, NEW t \in Sketch, NEW x, Good(x), NEW true, Replace(t, x, true)
  PROVE  /\ LazyInv' /\ Abstract!Idle(t)
         /\ Abstract!Replace(t, AllKeys(x.items), x.maxError, x.total, true)
<1>1. /\ entries[t] = NoDict /\ sketch' = [sketch EXCEPT ![t] = x] /\ failed' = failed \ {t}
      /\ truth' = [truth EXCEPT ![t] = true] /\ entries' = entries
  BY DEF Replace
<1>2. LazyInv'
  <2>1. sketch' \in [Sketch -> Fields] /\ \A u \in Sketch : Good(sketch'[u])
    BY <1>1, SketchKept
  <2> QED BY <1>1, <2>1 DEF LazyInv
<1>3. /\ AbsItems' = [AbsItems EXCEPT ![t] = AllKeys(x.items)]
      /\ AbsError' = [AbsError EXCEPT ![t] = x.maxError]
      /\ AbsTotal' = [AbsTotal EXCEPT ![t] = x.total]
  BY <1>1, SketchChanges
<1>4. AbsPending' = AbsPending
  BY <1>1, EntriesStay
<1> QED BY <1>1, <1>2, <1>3, <1>4, UsableIs
        DEF Abstract!Replace, AbsItems, AbsError, AbsTotal, AbsPending

LEMMA CloneStep ==
  ASSUME LazyInv, NEW s \in Sketch, NEW t \in Sketch, Clone(s, t)
  PROVE  LazyInv' /\ Abstract!Clone(s, t)
<1>1. PICK y : y = sketch[s]
  OBVIOUS
<1>2. PICK x : x = [y EXCEPT !.minimum = Rebuilt(y.items)]
  OBVIOUS
<1>3. PICK true : true = truth[s]
  OBVIOUS
<1>4. Usable(s) /\ s # t /\ Keying[s] = Keying[t] /\ Replace(t, x, true)
  BY <1>1, <1>2, <1>3 DEF Clone
<1>5. y \in Fields /\ InRoom(y) /\ Fresh(y)
  BY <1>1 DEF LazyInv, Good, Sound
<1>6. /\ x.items = y.items /\ x.maxError = y.maxError /\ x.total = y.total
      /\ x.minimum = Rebuilt(y.items)
      /\ x = [items |-> y.items, minimum |-> Rebuilt(y.items), maxError |-> y.maxError, total |-> y.total]
  BY <1>2, <1>5, FieldsRecord
<1>7. Rebuilt(y.items) \in Heaps
  <2> DEFINE P == {<<y.items[k], k>> : k \in DOMAIN y.items}
  <2>1. y.items \in [DOMAIN y.items -> Amounts] /\ DOMAIN y.items \subseteq Key
    BY <1>5, FieldsAre
  <2>2. P \in SUBSET Pairs
    BY <2>1 DEF Pairs
  <2>3. Rebuilt(y.items) \in [P -> Nat \ {0}]
    BY DEF Rebuilt, SetToBag
  <2> QED BY <2>2, <2>3, HeapIs
<1>8. x \in Fields
  BY <1>5, <1>6, <1>7 DEF Fields
<1>9. Good(x)
  <2>1. InRoom(x) /\ Fresh(x)
    BY <1>5, <1>6 DEF InRoom, Fresh
  <2> QED BY <1>6, <1>8, <2>1, RebuiltGood
<1>10. /\ LazyInv' /\ Abstract!Idle(t)
       /\ Abstract!Replace(t, AllKeys(y.items), y.maxError, y.total, true)
  BY <1>4, <1>6, <1>9, ReplaceStep
<1>11. Abstract!Usable(s)
  BY <1>4, UsableIs
<1> QED BY <1>1, <1>3, <1>4, <1>10, <1>11 DEF Abstract!Clone, Abstract!Replace

LEMMA ReceiveStep ==
  ASSUME LazyInv, NEW t \in Sketch, NEW body \in Received, Receive(t, body)
  PROVE  LazyInv' /\ Abstract!Receive(t, body)
<1> DEFINE T == Abstract!Tracked(body.items)
           items == Restrict(body.items, T)
           x == [items |-> items, minimum |-> Rebuilt(items),
                 total |-> body.total, maxError |-> body.maxError]
<1>1. Abstract!WireAccepts(body.total, body.maxError, body.items) /\ Replace(t, x, body.truth)
  BY DEF Receive
<1>2. body.total \in Amounts /\ body.maxError \in Amounts /\ body.items \in [Key -> Amounts]
  BY ReceivedAssumption DEF ReceivedAssumption
<1>3. T \in SUBSET Key /\ \A k \in Key : k \in T <=> body.items[k] > 0
  BY DEF Abstract!Tracked
<1>4. Cardinality(T) <= MapSize /\ \A k \in T : body.items[k] > body.maxError
  <2>1. \A k \in T : body.maxError < body.items[k]
    BY <1>1 DEF Abstract!WireAccepts
  <2>2. Cardinality(T) <= MapSize
    BY <1>1 DEF Abstract!WireAccepts, Abstract!Cardinality, Cardinality
  <2>3. \A k \in T : body.items[k] \in Int
    <3>1. \A k \in T : body.items[k] \in Amounts
      BY <1>2, <1>3
    <3> QED BY <3>1, AmountsAre
  <2>4. body.maxError \in Int
    BY <1>2, AmountsAre
  <2> QED BY <2>1, <2>2, <2>3, <2>4
<1> HIDE DEF T
<1>5. items \in [T -> Amounts] /\ DOMAIN items = T /\ \A k \in T : items[k] = body.items[k]
  BY <1>2, <1>3 DEF Restrict
<1> HIDE DEF items
<1>6. Rebuilt(items) \in Heaps
  <2> DEFINE P == {<<items[k], k>> : k \in DOMAIN items}
  <2>1. P \in SUBSET Pairs
    BY <1>3, <1>5 DEF Pairs
  <2>2. Rebuilt(items) \in [P -> Nat \ {0}]
    BY DEF Rebuilt, SetToBag
  <2> QED BY <2>1, <2>2, HeapIs
<1>7. x \in Fields
  <2>1. items \in Dicts
    BY <1>3, <1>5 DEF Dicts
  <2> QED BY <1>2, <1>6, <2>1 DEF Fields
<1>8. Good(x)
  <2>1. x.items = items /\ x.minimum = Rebuilt(items) /\ x.maxError = body.maxError
    OBVIOUS
  <2>2. InRoom(x) /\ Fresh(x)
    BY <1>4, <1>5, <2>1 DEF InRoom, Fresh
  <2> QED BY <1>7, <2>1, <2>2, RebuiltGood
<1>9. AllKeys(items) = body.items
  <2>1. \A k \in Key : AllKeys(items)[k] = body.items[k]
    <3>1. ASSUME NEW k \in Key PROVE AllKeys(items)[k] = body.items[k]
      <4>1. body.items[k] \in Amounts
        BY <1>2
      <4>2. body.items[k] \in Nat
        BY <4>1, AmountsAre
      <4>3. k \notin T => body.items[k] = 0
        BY <1>3, <4>2
      <4> QED BY <1>5, <4>3 DEF AllKeys, Lookup
    <3> QED BY <3>1
  <2>2. AllKeys(items) = [k \in Key |-> AllKeys(items)[k]]
    BY DEF AllKeys
  <2> QED BY <1>2, <2>1, <2>2
<1>10. /\ LazyInv' /\ Abstract!Idle(t)
       /\ Abstract!Replace(t, AllKeys(items), body.maxError, body.total, body.truth)
  <2>1. x.items = items /\ x.maxError = body.maxError /\ x.total = body.total
    OBVIOUS
  <2> HIDE DEF x
  <2> QED BY <1>1, <1>8, <2>1, ReplaceStep
<1> QED BY <1>1, <1>9, <1>10 DEF Abstract!Receive, Abstract!Replace

(* Empty sketches are sound, and are the initial state of FrequentItems.   *)
LEMMA InitIs == Init => LazyInv /\ Abstract!Init
<1> SUFFICES ASSUME Init PROVE LazyInv /\ Abstract!Init
  OBVIOUS
<1>1. /\ sketch = [s \in Sketch |-> EmptySketch] /\ entries = [s \in Sketch |-> NoDict]
      /\ failed = {} /\ truth = [s \in Sketch |-> [k \in Key |-> 0]]
  BY DEF Init
<1>2. EmptySketch \in Fields
  <2>1. EmptyBag \in [{} -> Nat \ {0}]
    BY DEF EmptyBag, SetToBag
  <2>2. EmptyBag \in Heaps
    BY <2>1 DEF Heaps
  <2>3. 0 \in Amounts
    BY MaxIntAssumption DEF Amounts, MaxIntAssumption
  <2> QED BY <2>2, <2>3, NoDictIs DEF EmptySketch, Fields
<1>3. /\ EmptySketch.items = NoDict /\ EmptySketch.minimum = EmptyBag
      /\ EmptySketch.maxError = 0 /\ EmptySketch.total = 0
  BY DEF EmptySketch
<1>4. Good(EmptySketch)
  BY <1>2, <1>3, EmptiedGood
<1>5. LazyInv
  BY <1>1, <1>2, <1>4, NoDictIs DEF LazyInv
<1>6. AbsItems = [s \in Sketch |-> [k \in Key |-> 0]]
  <2>1. \A s \in Sketch : AllKeys(sketch[s].items) = [k \in Key |-> 0]
    BY <1>1, <1>3, NoDictIs
  <2> QED BY <2>1 DEF AbsItems
<1>7. AbsPending = [s \in Sketch |-> [k \in Key |-> 0]]
  <2>1. \A s \in Sketch : AllKeys(entries[s]) = [k \in Key |-> 0]
    BY <1>1, NoDictIs
  <2> QED BY <2>1 DEF AbsPending
<1>8. AbsError = [s \in Sketch |-> 0] /\ AbsTotal = [s \in Sketch |-> 0]
  BY <1>1, <1>3 DEF AbsError, AbsTotal
<1>9. Abstract!Init
  BY <1>1, <1>6, <1>7, <1>8
     DEF Abstract!Init, Abstract!None, AbsItems, AbsError, AbsTotal, AbsPending
<1> QED BY <1>5, <1>9

(* Each step keeps the invariant, and is one of FrequentItems or none.     *)
LEMMA NextIs ==
  LazyInv /\ [Next]_vars => LazyInv' /\ [Abstract!Next]_(Abstract!vars)
<1> SUFFICES ASSUME LazyInv, [Next]_vars PROVE LazyInv' /\ [Abstract!Next]_(Abstract!vars)
  OBVIOUS
<1>1. ASSUME NEW s \in Sketch, NEW k \in Key, NEW w \in Weight, AddHash(s, k, w)
      PROVE  LazyInv' /\ Abstract!Next
  BY <1>1, AddHashStep DEF Abstract!Next
<1>2. ASSUME NEW s \in Sketch, NEW w \in Weight, AddRefused(s, w)
      PROVE  LazyInv' /\ Abstract!Next
  BY <1>2, AddRefusedStep DEF Abstract!Next
<1>3. ASSUME NEW s \in Sketch, NEW t \in Sketch, MergeBegin(s, t)
      PROVE  LazyInv' /\ Abstract!Next
  BY <1>3, MergeBeginStep DEF Abstract!Next
<1>4. ASSUME NEW s \in Sketch, NEW t \in Sketch, MergeRefused(s, t)
      PROVE  LazyInv' /\ Abstract!Next
  BY <1>4, MergeRefusedStep DEF Abstract!Next
<1>5. ASSUME NEW s \in Sketch, NEW k \in Key, MergeStep(s, k)
      PROVE  LazyInv' /\ Abstract!Next
  BY <1>5, MergeStepStep DEF Abstract!Next
<1>6. ASSUME NEW s \in Sketch, NEW t \in Sketch, Clone(s, t)
      PROVE  LazyInv' /\ Abstract!Next
  BY <1>6, CloneStep DEF Abstract!Next
<1>7. ASSUME NEW t \in Sketch, NEW body \in Received, Receive(t, body)
      PROVE  LazyInv' /\ Abstract!Next
  BY <1>7, ReceiveStep DEF Abstract!Next
<1>8. ASSUME UNCHANGED vars PROVE LazyInv' /\ UNCHANGED Abstract!vars
  BY <1>8, VarsStay DEF Abstract!vars, AbsItems, AbsError, AbsTotal, AbsPending
<1> QED BY <1>1, <1>2, <1>3, <1>4, <1>5, <1>6, <1>7, <1>8 DEF Next

-----------------------------------------------------------------------------
(* The theorems. *)

LEMMA LazyInvHolds == Spec => []LazyInv
<1>1. Init => LazyInv
  BY InitIs
<1>2. LazyInv /\ [Next]_vars => LazyInv'
  BY NextIs
<1> QED BY <1>1, <1>2, PTL DEF Spec

(* Every counter has its current pair in the heap, once, and the heap is   *)
(* never larger than twice the map: "missing counter" cannot be raised,    *)
(* and the lazy removal of stale pairs does not let the heap grow.         *)
THEOREM HeapSoundCorrect == Spec => []HeapSound
<1>1. LazyInv => HeapSound
  BY DEF LazyInv, Good, Sound, HeapHolds, HeapSound, Lookup
<1> QED BY <1>1, LazyInvHolds, PTL

(* The sketch with its heap implements FrequentItems: every call does to   *)
(* the counters, the error and the total what the specification says, and  *)
(* fails when it says so.                                                  *)
THEOREM ImplementsCorrect == Spec => Implements
<1>1. Init => Abstract!Init
  BY InitIs
<1>2. LazyInv /\ [Next]_vars => [Abstract!Next]_(Abstract!vars)
  BY NextIs
<1> QED BY <1>1, <1>2, LazyInvHolds, PTL DEF Spec, Implements, Abstract!Spec

-----------------------------------------------------------------------------
(* What FrequentItemsProofs proves holds of the counters kept with a heap. *)

Counters == INSTANCE FrequentItemsProofs WITH
  items    <- [s \in Sketch |-> AllKeys(sketch[s].items)],
  maxError <- [s \in Sketch |-> sketch[s].maxError],
  total    <- [s \in Sketch |-> sketch[s].total],
  pending  <- [s \in Sketch |-> AllKeys(entries[s])]

(* The constants meet the assumptions those theorems rest on.              *)
LEMMA CountersAssumed ==
  /\ Counters!KeyAssumption /\ Counters!MapSizeAssumption /\ Counters!MaxIntAssumption
  /\ Counters!WeightAssumption /\ Counters!ReceivedAssumption
<1>1. Counters!KeyAssumption
  BY KeyAssumption DEF KeyAssumption, Counters!KeyAssumption, IsFiniteSet, Counters!IsFiniteSet
<1>2. Counters!MapSizeAssumption
  BY MapSizeAssumption DEF MapSizeAssumption, Counters!MapSizeAssumption
<1>3. Counters!MaxIntAssumption
  BY MaxIntAssumption DEF MaxIntAssumption, Counters!MaxIntAssumption
<1>4. Counters!WeightAssumption
  BY WeightAssumption DEF WeightAssumption, Counters!WeightAssumption
<1>5. Counters!ReceivedAssumption
  BY ReceivedAssumption
     DEF ReceivedAssumption, Amounts, Counters!ReceivedAssumption, Counters!Amounts
<1> QED BY <1>1, <1>2, <1>3, <1>4, <1>5

(* The two instances of the specification are one: Counters is Abstract    *)
(* seen from the module of its proofs.                                     *)
LEMMA CountersInit == Abstract!Init => Counters!Init
BY DEF Abstract!Init, Counters!Init, Abstract!None, Counters!None

LEMMA CountersNext == [Abstract!Next]_(Abstract!vars) => [Counters!Next]_(Counters!vars)
<1> USE DEF
     Abstract!vars, Counters!vars, Abstract!Idle, Counters!Idle, Abstract!Usable, Counters!Usable,
     Abstract!None, Counters!None, Abstract!Amounts, Counters!Amounts,
     Abstract!AddResidual, Counters!AddResidual, Abstract!Store, Counters!Store,
     Abstract!HasRoom, Counters!HasRoom, Abstract!Tracked, Counters!Tracked,
     Abstract!Cardinality, Counters!Cardinality,
     Abstract!PruneAndStore, Counters!PruneAndStore, Abstract!Consumed, Counters!Consumed,
     Abstract!MinEstimate, Counters!MinEstimate, Abstract!Unexpired, Counters!Unexpired,
     Abstract!LowerBound, Counters!LowerBound, Abstract!Saturate, Counters!Saturate,
     Abstract!Combined, Counters!Combined, Abstract!MergedTotal, Counters!MergedTotal,
     Abstract!MergedError, Counters!MergedError, Abstract!Mergeable, Counters!Mergeable,
     Abstract!IsNext, Counters!IsNext, Abstract!Replace, Counters!Replace
<1>1. ASSUME NEW s \in Sketch, NEW k \in Key, NEW w \in Weight, Abstract!AddHash(s, k, w)
      PROVE  Counters!AddHash(s, k, w)
  BY <1>1, Zenon DEF Abstract!AddHash, Counters!AddHash
<1>2. ASSUME NEW s \in Sketch, NEW w \in Weight, Abstract!AddRefused(s, w)
      PROVE  Counters!AddRefused(s, w)
  BY <1>2, Zenon DEF Abstract!AddRefused, Counters!AddRefused
<1>3. ASSUME NEW s \in Sketch, NEW t \in Sketch, Abstract!MergeBegin(s, t)
      PROVE  Counters!MergeBegin(s, t)
  BY <1>3, Zenon DEF Abstract!MergeBegin, Counters!MergeBegin
<1>4. ASSUME NEW s \in Sketch, NEW t \in Sketch, Abstract!MergeRefused(s, t)
      PROVE  Counters!MergeRefused(s, t)
  BY <1>4, Zenon DEF Abstract!MergeRefused, Counters!MergeRefused
<1>5. ASSUME NEW s \in Sketch, NEW k \in Key, Abstract!MergeStep(s, k)
      PROVE  Counters!MergeStep(s, k)
  BY <1>5, Zenon DEF Abstract!MergeStep, Counters!MergeStep
<1>6. ASSUME NEW s \in Sketch, NEW t \in Sketch, Abstract!Clone(s, t)
      PROVE  Counters!Clone(s, t)
  BY <1>6, Zenon DEF Abstract!Clone, Counters!Clone
<1>7. ASSUME NEW t \in Sketch, NEW body \in Received, Abstract!Receive(t, body)
      PROVE  Counters!Receive(t, body)
  BY <1>7, Zenon DEF Abstract!Receive, Counters!Receive, Abstract!WireAccepts, Counters!WireAccepts,
     Abstract!Retained, Counters!Retained, Abstract!SumFunction, Counters!SumFunction,
     Abstract!SumFunctionOnSet, Counters!SumFunctionOnSet,
     Abstract!FoldFunctionOnSet, Counters!FoldFunctionOnSet,
     Abstract!MapThenFoldSet, Counters!MapThenFoldSet
<1>8. UNCHANGED Abstract!vars => UNCHANGED Counters!vars
  OBVIOUS
<1> QED
  BY <1>1, <1>2, <1>3, <1>4, <1>5, <1>6, <1>7, <1>8, Zenon DEF Abstract!Next, Counters!Next

(* What the counters do is a behaviour of the proved specification.        *)
LEMMA CountersSpec == Spec => Counters!Spec
BY ImplementsCorrect, CountersInit, CountersNext, PTL DEF Implements, Abstract!Spec, Counters!Spec

(* The bounds of a query contain the true weight of every key, the least   *)
(* counter being taken from the heap.                                      *)
THEOREM BracketHolds == Spec => []Counters!Bracket
<1>1. Counters!Spec => []Counters!Bracket
  BY CountersAssumed, Counters!BracketCorrect
<1> QED BY <1>1, CountersSpec, PTL

(* frequent_items answers as its two modes are named.                      *)
THEOREM QueryModesHold == Spec => []Counters!QueryModes
<1>1. Counters!Spec => []Counters!QueryModes
  BY CountersAssumed, Counters!QueryModesCorrect
<1> QED BY <1>1, CountersSpec, PTL

(* The error stays within its share of the total weight, and no call fails *)
(* half way: neither the overflow of a counter or of the error, nor "no    *)
(* free counter", nor "missing counter" is ever raised, as long as bodies  *)
(* of other producers keep to the bound themselves.                        *)
THEOREM ErrorBoundHolds ==
  ASSUME Counters!ReceivedWithinBound
  PROVE  Spec => [](Counters!ErrorBound /\ failed = {})
<1>1. Counters!Spec => []Counters!ErrorBound
  BY CountersAssumed, Counters!ErrorBoundCorrect
<1>2. Counters!Spec => []Counters!NoLateError
  BY CountersAssumed, Counters!NoLateErrorCorrect
<1>3. Counters!NoLateError => failed = {}
  BY DEF Counters!NoLateError
<1> QED BY <1>1, <1>2, <1>3, CountersSpec, PTL
=====

---------------------------- MODULE HllppProofs ----------------------------
(***************************************************************************)
(* Proofs about Hllpp: the registers depend on the hashes and bodies       *)
(* behind a sketch alone, for every set of sketches, hashes and bodies,    *)
(* every precision and threshold, if each single hash converts as it       *)
(* should (Convertible).                                                   *)
(***************************************************************************)
EXTENDS Hllpp, FiniteSetTheorems, WellFoundedInduction, TLAPS

\* The largest ranks of sparse and of dense registers.
FineTop == Width - SP + 1
Top     == Width - P + 1

IsMap(m)  == m \in [DOMAIN m -> 0 .. Top]
IsFine(m) == m \in [DOMAIN m -> 1 .. FineTop]

LEMMA Tops ==
  /\ FineTop \in Nat /\ Top \in Nat /\ SP - P \in Nat /\ Top = SP - P + FineTop
  /\ 0 < SP - P /\ 0 < FineTop /\ FineTop <= Top
BY PrecisionAssumption DEF FineTop, Top

-----------------------------------------------------------------------------
(* Largest and least elements. *)

LEMMA MaxIs ==
  ASSUME NEW S \in SUBSET Int, NEW n \in S, \A x \in S : x <= n
  PROVE  Max(S) = n
<1>1. \E m \in S : \A y \in S : m >= y
  OBVIOUS
<1>2. Max(S) \in S /\ \A y \in S : Max(S) >= y
  BY <1>1 DEF Max
<1>3. Max(S) \in Int /\ n \in Int /\ Max(S) >= n /\ Max(S) <= n
  BY <1>2
<1> QED BY <1>3

Less == {p \in Nat \X Nat : p[1] < p[2]}
LEMMA LessIsWellFounded == IsWellFoundedOn(Less, Nat)
BY NatLessThanWellFounded, Zenon DEF OpToRel, Less

LEMMA MaxExists ==
  ASSUME NEW n \in Nat, NEW S \in SUBSET (0 .. n), S # {}
  PROVE  Max(S) \in S /\ \A x \in S : x <= Max(S)
<1> DEFINE T == {k \in Nat : n - k \in S}
<1>1. T # {}
  <2>1. PICK x \in S : TRUE
    OBVIOUS
  <2>2. n - x \in T
    BY <2>1
  <2> QED BY <2>2
<1>2. PICK k \in T : \A j \in T : ~ (<<j, k>> \in Less)
  <2>1. T \subseteq Nat
    OBVIOUS
  <2> HIDE DEF T
  <2> QED BY <1>1, <2>1, LessIsWellFounded, WFMin
<1>3. \A j \in T : ~ (j < k)
  BY <1>2 DEF Less
<1>4. \A x \in S : x <= n - k
  <2> SUFFICES ASSUME NEW x \in S PROVE x <= n - k
    OBVIOUS
  <2>1. n - x \in T
    OBVIOUS
  <2>2. k <= n - x
    BY <1>3, <2>1
  <2> QED BY <2>2
<1>5. n - k \in S
  OBVIOUS
<1> QED BY <1>4, <1>5, MaxIs

LEMMA MinOfTwo ==
  ASSUME NEW a \in Int, NEW b \in Int
  PROVE  Min({a, b}) = IF a <= b THEN a ELSE b
<1> DEFINE S == {a, b}
<1>1. \E x \in S : \A y \in S : x <= y
  OBVIOUS
<1>2. Min(S) \in S /\ \A y \in S : Min(S) <= y
  <2> HIDE DEF S
  <2> QED BY <1>1 DEF Min
<1> QED BY <1>2

LEMMA RankType ==
  ASSUME NEW m, IsMap(m), NEW i
  PROVE  Rank(m, i) \in 0 .. Top
BY Tops DEF IsMap, Rank

LEMMA FineIsMap == ASSUME NEW m, IsFine(m) PROVE IsMap(m)
<1>1. 1 .. FineTop \subseteq 0 .. Top
  BY Tops
<1> QED BY <1>1 DEF IsMap, IsFine

(* Two maps of equal domains and ranks are equal. *)
LEMMA SameMap ==
  ASSUME NEW f, NEW g, IsMap(f), IsMap(g), DOMAIN f = DOMAIN g,
         \A i \in DOMAIN f : Rank(f, i) = Rank(g, i)
  PROVE  f = g
BY DEF IsMap, Rank

-----------------------------------------------------------------------------
(* What joining does, in terms of ranks. *)

LEMMA JoinAllSpec ==
  ASSUME NEW A, \A m \in A : IsMap(m)
  PROVE  LET f == JoinAll(A)
         IN  /\ IsMap(f) /\ DOMAIN f = UNION {DOMAIN m : m \in A}
             /\ \A i \in DOMAIN f : \E m \in A : Rank(f, i) = Rank(m, i) /\ i \in DOMAIN m
             /\ \A i : \A m \in A : Rank(m, i) <= Rank(f, i)
<1> DEFINE f == JoinAll(A)
           D == UNION {DOMAIN m : m \in A}
           ranks(i) == {Rank(m, i) : m \in A}
<1>1. DOMAIN f = D /\ \A i \in D : f[i] = Max(ranks(i))
  BY DEF JoinAll
<1>2. ASSUME NEW i \in D
      PROVE  Max(ranks(i)) \in ranks(i) /\ \A x \in ranks(i) : x <= Max(ranks(i))
  <2>1. ranks(i) \in SUBSET (0 .. Top) /\ ranks(i) # {}
    BY RankType
  <2> HIDE DEF ranks
  <2> QED BY <2>1, MaxExists, Tops
<1> HIDE DEF f
<1>3. IsMap(f)
  <2>1. \A i \in D : f[i] \in 0 .. Top
    BY <1>1, <1>2, RankType
  <2>2. f = [i \in D |-> f[i]]
    BY DEF f, JoinAll
  <2> QED BY <1>1, <2>1, <2>2 DEF IsMap
<1>4. ASSUME NEW i \in D PROVE \E m \in A : Rank(f, i) = Rank(m, i) /\ i \in DOMAIN m
  <2>1. PICK m \in A : Rank(f, i) = Rank(m, i)
    BY <1>1, <1>2 DEF Rank
  <2>2. PICK o \in A : i \in DOMAIN o
    OBVIOUS
  <2>3. Rank(o, i) <= Rank(f, i)
    BY <1>1, <1>2 DEF Rank
  <2>4. CASE i \in DOMAIN m
    BY <2>1, <2>4
  <2>5. CASE i \notin DOMAIN m
    <3>1. Rank(f, i) = 0
      BY <2>1, <2>5 DEF Rank
    <3>2. Rank(o, i) = 0
      BY <2>3, <3>1, RankType, Tops
    <3> QED BY <2>2, <3>1, <3>2
  <2> QED BY <2>4, <2>5
<1>5. ASSUME NEW i, NEW m \in A PROVE Rank(m, i) <= Rank(f, i)
  <2>1. CASE i \in D
    BY <1>1, <1>2, <2>1 DEF Rank
  <2>2. CASE i \notin D
    BY <1>1, <2>2 DEF Rank
  <2> QED BY <2>1, <2>2
<1> QED BY <1>1, <1>3, <1>4, <1>5 DEF f

(* What JoinAll is, is determined by that. *)
LEMMA JoinAllIs ==
  ASSUME NEW A, \A m \in A : IsMap(m),
         NEW f, IsMap(f), DOMAIN f = UNION {DOMAIN m : m \in A},
         \A i \in DOMAIN f : \E m \in A : Rank(f, i) = Rank(m, i),
         \A i \in DOMAIN f : \A m \in A : Rank(m, i) <= Rank(f, i)
  PROVE  f = JoinAll(A)
<1> DEFINE g == JoinAll(A)
<1>1. /\ IsMap(g) /\ DOMAIN g = DOMAIN f
      /\ \A i \in DOMAIN g : \E m \in A : Rank(g, i) = Rank(m, i) /\ i \in DOMAIN m
      /\ \A i : \A m \in A : Rank(m, i) <= Rank(g, i)
  BY JoinAllSpec
<1> HIDE DEF g
<1>2. ASSUME NEW i \in DOMAIN f PROVE Rank(f, i) = Rank(g, i)
  <2>1. Rank(f, i) \in Int /\ Rank(g, i) \in Int
    BY <1>1, RankType
  <2>2. Rank(f, i) <= Rank(g, i)
    BY <1>1
  <2>3. Rank(g, i) <= Rank(f, i)
    BY <1>1
  <2> QED BY <2>1, <2>2, <2>3
<1>3. f = g
  BY <1>1, <1>2, SameMap
<1> QED BY <1>3 DEF g

LEMMA JoinIsJoinAll == ASSUME NEW l, NEW r PROVE Join(l, r) = JoinAll({l, r})
<1>1. UNION {DOMAIN m : m \in {l, r}} = DOMAIN l \cup DOMAIN r
  OBVIOUS
<1>2. \A i : {Rank(m, i) : m \in {l, r}} = {Rank(l, i), Rank(r, i)}
  OBVIOUS
<1> QED BY <1>1, <1>2 DEF Join, JoinAll

LEMMA JoinAllOne == ASSUME NEW m, IsMap(m) PROVE JoinAll({m}) = m
<1>1. UNION {DOMAIN o : o \in {m}} = DOMAIN m
  OBVIOUS
<1>2. \A i \in DOMAIN m : Rank(m, i) <= Rank(m, i)
  BY RankType
<1> QED BY <1>1, <1>2, JoinAllIs

(* Joining is a union of what is joined: order and repetition do not       *)
(* matter.                                                                 *)
LEMMA JoinUnion ==
  ASSUME NEW A, NEW B, \A m \in A \cup B : IsMap(m)
  PROVE  Join(JoinAll(A), JoinAll(B)) = JoinAll(A \cup B)
<1> DEFINE f == JoinAll(A)
           g == JoinAll(B)
           h == JoinAll({f, g})
<1>1. /\ IsMap(f) /\ DOMAIN f = UNION {DOMAIN m : m \in A}
      /\ \A i \in DOMAIN f : \E m \in A : Rank(f, i) = Rank(m, i) /\ i \in DOMAIN m
      /\ \A i : \A m \in A : Rank(m, i) <= Rank(f, i)
  BY JoinAllSpec
<1>2. /\ IsMap(g) /\ DOMAIN g = UNION {DOMAIN m : m \in B}
      /\ \A i \in DOMAIN g : \E m \in B : Rank(g, i) = Rank(m, i) /\ i \in DOMAIN m
      /\ \A i : \A m \in B : Rank(m, i) <= Rank(g, i)
  BY JoinAllSpec
<1> HIDE DEF f, g
<1>3. /\ IsMap(h) /\ DOMAIN h = UNION {DOMAIN m : m \in {f, g}}
      /\ \A i \in DOMAIN h : \E m \in {f, g} : Rank(h, i) = Rank(m, i) /\ i \in DOMAIN m
      /\ \A i : \A m \in {f, g} : Rank(m, i) <= Rank(h, i)
  <2>1. \A m \in {f, g} : IsMap(m)
    BY <1>1, <1>2
  <2> QED BY <2>1, JoinAllSpec
<1> HIDE DEF h
<1>4. DOMAIN h = UNION {DOMAIN m : m \in A \cup B}
  BY <1>1, <1>2, <1>3
<1>5. \A i \in DOMAIN h : \E m \in A \cup B : Rank(h, i) = Rank(m, i)
  BY <1>1, <1>2, <1>3
<1>6. ASSUME NEW i, NEW m \in A \cup B PROVE Rank(m, i) <= Rank(h, i)
  <2>1. Rank(m, i) \in Int /\ Rank(f, i) \in Int /\ Rank(g, i) \in Int /\ Rank(h, i) \in Int
    BY <1>1, <1>2, <1>3, RankType
  <2>2. Rank(f, i) <= Rank(h, i) /\ Rank(g, i) <= Rank(h, i)
    BY <1>3
  <2>3. Rank(m, i) <= Rank(f, i) \/ Rank(m, i) <= Rank(g, i)
    BY <1>1, <1>2
  <2> QED BY <2>1, <2>2, <2>3
<1>7. h = JoinAll(A \cup B)
  BY <1>3, <1>4, <1>5, <1>6, JoinAllIs
<1> QED BY <1>7, JoinIsJoinAll DEF f, g, h
-----------------------------------------------------------------------------
(* What the conversion of sparse registers does. *)

LEMMA RegisterRankType ==
  ASSUME NEW x, NEW width \in Nat
  PROVE  RegisterRank(x, width) \in 1 .. width + 1
<1> DEFINE B == {i \in 0 .. Width - 1 : 2 ^ i <= x}
<1>1. IsFiniteSet(0 .. Width - 1) /\ Cardinality(0 .. Width - 1) = Width
  <2>1. 0 \in Int /\ Width - 1 \in Int /\ ~ (0 > Width - 1) /\ Width - 1 - 0 + 1 = Width
    BY PrecisionAssumption
  <2> QED BY <2>1, FS_Interval
<1>2. B \in SUBSET (0 .. Width - 1)
  OBVIOUS
<1>3. IsFiniteSet(B) /\ Cardinality(B) <= Width
  <2> HIDE DEF B
  <2> QED BY <1>1, <1>2, FS_Subset
<1>4. BitLength(x) \in Nat /\ BitLength(x) <= Width
  BY <1>3, FS_CardinalityType DEF BitLength
<1>5. Width - BitLength(x) + 1 \in Int /\ Width - BitLength(x) + 1 >= 1 /\ width + 1 \in Int
  BY <1>4, PrecisionAssumption
<1>6. RegisterRank(x, width) =
        IF Width - BitLength(x) + 1 <= width + 1 THEN Width - BitLength(x) + 1 ELSE width + 1
  BY <1>5, MinOfTwo DEF RegisterRank
<1> QED BY <1>5, <1>6

\* The normal register a sparse one belongs to does not depend on its rank.
Place(i)    == SparseToDense(i, 0)[1]
Moved(i, r) == SparseToDense(i, r)[2]

LEMMA ConversionSpec ==
  ASSUME NEW i, NEW r \in 1 .. FineTop, NEW q \in 1 .. FineTop
  PROVE  /\ SparseToDense(i, r) = <<Place(i), Moved(i, r)>>
         /\ Moved(i, r) \in 1 .. Top
         /\ r <= q => Moved(i, r) <= Moved(i, q)
<1> DEFINE bits == SP - P
           extra == i % 2 ^ bits
           short == RegisterRank(extra * 2 ^ (Width - bits), bits)
<1>1. \A n : SparseToDense(i, n) = <<i \div 2 ^ bits, IF extra # 0 THEN short ELSE bits + n>>
  BY DEF SparseToDense
<1>2. short \in 1 .. bits + 1
  BY RegisterRankType, Tops
<1> HIDE DEF short, extra
<1>3. /\ Place(i) = i \div 2 ^ bits
      /\ \A n : Moved(i, n) = IF extra # 0 THEN short ELSE bits + n
  BY <1>1 DEF Place, Moved
<1>4. bits + 1 <= Top
  BY Tops
<1>5. bits + r \in 1 .. Top /\ (r <= q => bits + r <= bits + q)
  BY Tops
<1>6. bits \in Nat
  BY Tops
<1> QED BY <1>1, <1>2, <1>3, <1>4, <1>5, <1>6, Tops

(* The dense registers of sparse ones have the largest converted rank.     *)
LEMMA DensifiedSpec ==
  ASSUME NEW regs, IsFine(regs)
  PROVE  LET d == Densified(regs)
         IN  /\ IsMap(d) /\ DOMAIN d = DOMAIN Zeros
             /\ \A j \in DOMAIN Zeros :
                  \/ d[j] = 0
                  \/ \E i \in DOMAIN regs : Place(i) = j /\ d[j] = Moved(i, regs[i])
             /\ \A j \in DOMAIN Zeros : \A i \in DOMAIN regs :
                  Place(i) = j => Moved(i, regs[i]) <= d[j]
<1> DEFINE moved == {SparseToDense(i, regs[i]) : i \in DOMAIN regs}
           ranks(j) == {0} \cup {m[2] : m \in {n \in moved : n[1] = j}}
           d == Densified(regs)
<1>1. d = [j \in DOMAIN Zeros |-> Max(ranks(j))]
  BY DEF Densified
<1>2. \A j : \A x \in ranks(j) : x = 0 \/ \E i \in DOMAIN regs : Place(i) = j /\ x = Moved(i, regs[i])
  BY ConversionSpec DEF IsFine
<1>3. \A j : \A i \in DOMAIN regs : Place(i) = j => Moved(i, regs[i]) \in ranks(j)
  BY ConversionSpec DEF IsFine
<1>4. \A j : ranks(j) \in SUBSET (0 .. Top) /\ ranks(j) # {}
  <2>1. \A i \in DOMAIN regs : Moved(i, regs[i]) \in 0 .. Top
    BY ConversionSpec, Tops DEF IsFine
  <2>2. 0 \in 0 .. Top
    BY Tops
  <2>3. \A j : 0 \in ranks(j)
    OBVIOUS
  <2> HIDE DEF ranks
  <2> QED BY <1>2, <2>1, <2>2, <2>3
<1> HIDE DEF ranks
<1>5. \A j : Max(ranks(j)) \in ranks(j) /\ \A x \in ranks(j) : x <= Max(ranks(j))
  BY <1>4, MaxExists, Tops
<1>6. IsMap(d) /\ DOMAIN d = DOMAIN Zeros
  BY <1>1, <1>4, <1>5 DEF IsMap
<1> HIDE DEF d
<1>7. \A j \in DOMAIN Zeros : d[j] = Max(ranks(j))
  BY <1>1
<1> QED BY <1>2, <1>3, <1>5, <1>6, <1>7 DEF d
(* Promotion and joining may change places: the dense registers of joined  *)
(* sparse ones are the joined dense registers of each.                     *)
LEMMA PromotionJoins ==
  ASSUME NEW A, \A m \in A : IsFine(m)
  PROVE  /\ IsFine(JoinAll(A))
         /\ Densified(JoinAll(A)) = JoinAll({Zeros} \cup {Densified(m) : m \in A})
<1> DEFINE f == JoinAll(A)
           d == Densified(f)
           B == {Zeros} \cup {Densified(m) : m \in A}
<1>1. /\ IsMap(f) /\ DOMAIN f = UNION {DOMAIN m : m \in A}
      /\ \A i \in DOMAIN f : \E m \in A : Rank(f, i) = Rank(m, i) /\ i \in DOMAIN m
      /\ \A i : \A m \in A : Rank(m, i) <= Rank(f, i)
  BY JoinAllSpec, FineIsMap
<1> HIDE DEF f
<1>2. \A i \in DOMAIN f : \E m \in A : i \in DOMAIN m /\ f[i] = m[i]
  BY <1>1 DEF Rank
<1>3. \A m \in A : \A i \in DOMAIN m : i \in DOMAIN f /\ m[i] <= f[i]
  BY <1>1 DEF Rank
<1>4. IsFine(f)
  BY <1>1, <1>2 DEF IsFine, IsMap
<1>5. /\ IsMap(d) /\ DOMAIN d = DOMAIN Zeros
      /\ \A j \in DOMAIN Zeros :
           \/ d[j] = 0
           \/ \E i \in DOMAIN f : Place(i) = j /\ d[j] = Moved(i, f[i])
      /\ \A j \in DOMAIN Zeros : \A i \in DOMAIN f :
           Place(i) = j => Moved(i, f[i]) <= d[j]
  BY <1>4, DensifiedSpec
<1> HIDE DEF d
<1>6. ASSUME NEW m \in A
      PROVE  /\ IsMap(Densified(m)) /\ DOMAIN Densified(m) = DOMAIN Zeros
             /\ \A j \in DOMAIN Zeros :
                  \/ Densified(m)[j] = 0
                  \/ \E i \in DOMAIN m : Place(i) = j /\ Densified(m)[j] = Moved(i, m[i])
             /\ \A j \in DOMAIN Zeros : \A i \in DOMAIN m :
                  Place(i) = j => Moved(i, m[i]) <= Densified(m)[j]
  BY DensifiedSpec
<1>7. ASSUME NEW m \in A, NEW j \in DOMAIN Zeros
      PROVE  Densified(m)[j] <= d[j]
  <2>1. d[j] \in 0 .. Top
    BY <1>5 DEF IsMap
  <2>2. CASE Densified(m)[j] = 0
    BY <2>1, <2>2, Tops
  <2>3. ASSUME NEW i \in DOMAIN m, Place(i) = j, Densified(m)[j] = Moved(i, m[i])
        PROVE  Densified(m)[j] <= d[j]
    <3>1. i \in DOMAIN f /\ m[i] <= f[i] /\ m[i] \in 1 .. FineTop /\ f[i] \in 1 .. FineTop
      BY <1>3, <1>4 DEF IsFine
    <3>2. Moved(i, m[i]) <= Moved(i, f[i]) /\ Moved(i, m[i]) \in 1 .. Top /\ Moved(i, f[i]) \in 1 .. Top
      BY <3>1, ConversionSpec
    <3>3. Moved(i, f[i]) <= d[j]
      BY <1>5, <2>3, <3>1
    <3> QED BY <2>1, <2>3, <3>2, <3>3, Tops
  <2> QED BY <1>6, <2>2, <2>3
<1>8. IsMap(Zeros)
  BY Tops DEF Zeros, IsMap
<1>9. \A m \in B : IsMap(m) /\ DOMAIN m = DOMAIN Zeros
  BY <1>6, <1>8
<1>10. ASSUME NEW j \in DOMAIN d PROVE \E m \in B : Rank(d, j) = Rank(m, j)
  <2>1. CASE d[j] = 0
    <3>1. Rank(d, j) = Rank(Zeros, j)
      BY <1>5, <2>1 DEF Rank, Zeros
    <3> QED BY <3>1
  <2>2. ASSUME NEW i \in DOMAIN f, Place(i) = j, d[j] = Moved(i, f[i])
        PROVE  \E m \in B : Rank(d, j) = Rank(m, j)
    <3>1. PICK m \in A : i \in DOMAIN m /\ f[i] = m[i]
      BY <1>2
    <3>2. d[j] <= Densified(m)[j] /\ Densified(m)[j] <= d[j]
      BY <1>5, <1>6, <1>7, <2>2, <3>1
    <3>3. d[j] \in Int /\ Densified(m)[j] \in Int
      BY <1>5, <1>6 DEF IsMap
    <3>4. d[j] = Densified(m)[j]
      BY <3>2, <3>3
    <3>5. Rank(d, j) = Rank(Densified(m), j)
      BY <1>5, <1>6, <3>4 DEF Rank
    <3> QED BY <3>5
  <2> QED BY <1>5, <2>1, <2>2
<1>11. ASSUME NEW j \in DOMAIN d, NEW m \in B PROVE Rank(m, j) <= Rank(d, j)
  <2>1. CASE m = Zeros
    <3>1. Rank(m, j) = 0 /\ Rank(d, j) \in 0 .. Top
      BY <1>5, <2>1, RankType DEF Rank, Zeros
    <3> QED BY <3>1, Tops
  <2>2. ASSUME NEW o \in A, m = Densified(o) PROVE Rank(m, j) <= Rank(d, j)
    BY <1>5, <1>6, <1>7, <2>2 DEF Rank
  <2> QED BY <2>1, <2>2
<1>12. DOMAIN d = UNION {DOMAIN m : m \in B}
  <2>1. Zeros \in B
    OBVIOUS
  <2> HIDE DEF B
  <2> QED BY <1>5, <1>9, <2>1
<1>13. d = JoinAll(B)
  <2> HIDE DEF B
  <2> QED BY <1>5, <1>9, <1>10, <1>11, <1>12, JoinAllIs
<1> QED BY <1>4, <1>13 DEF d, f
-----------------------------------------------------------------------------
(* The registers of sets of hashes and of accepted bodies. *)

Accepted == {b \in Body : WireAccepts(b.mode, b.sparse, b.dense)}

FineFrom(S, G) ==
  {Singleton(Register(h, SP)) : h \in S} \cup {b.sparse : b \in G}
NormalFrom(S, G) ==
  {Zeros} \cup {Singleton(Register(h, P)) : h \in S}
    \cup {Densified(b.sparse) : b \in G} \cup {b.dense : b \in G}

\* What the decoder bounds of sparse registers.
Indexed(m) == \A i \in DOMAIN m : i < 2 ^ SP

LEMMA ZerosType == IsMap(Zeros) /\ \A j : Rank(Zeros, j) = 0
BY Tops DEF Zeros, IsMap, Rank

LEMMA SingletonType ==
  ASSUME NEW h
  PROVE  /\ IsFine(Singleton(Register(h, SP))) /\ DOMAIN Singleton(Register(h, SP)) = {Register(h, SP)[1]}
         /\ IsMap(Singleton(Register(h, P))) /\ DOMAIN Singleton(Register(h, P)) = {Register(h, P)[1]}
<1>1. Width - SP \in Nat /\ Width - P \in Nat
  BY PrecisionAssumption
<1>2. Register(h, SP)[2] \in 1 .. FineTop /\ Register(h, P)[2] \in 1 .. Top
  BY <1>1, RegisterRankType DEF Register, FineTop, Top
<1>3. 1 .. Top \subseteq 0 .. Top
  BY Tops
<1> QED BY <1>2, <1>3 DEF Singleton, IsFine, IsMap

(* A hash by its sparse register, made dense, is the hash by its dense one. *)
LEMMA HashConverts ==
  ASSUME NEW h \in Convertible, NEW j \in DOMAIN Zeros
  PROVE  Rank(Densified(Singleton(Register(h, SP))), j) = Rank(Singleton(Register(h, P)), j)
<1> DEFINE fine == Register(h, SP)
           normal == Register(h, P)
           m == Singleton(fine)
           d == Densified(m)
<1>1. SparseToDense(fine[1], fine[2]) = normal
  BY DEF Convertible
<1>2. fine[2] \in 1 .. FineTop
  BY SingletonType DEF Singleton, IsFine
<1>3. DOMAIN m = {fine[1]} /\ m[fine[1]] = fine[2] /\ IsFine(m)
  BY SingletonType DEF Singleton
<1>4. Place(fine[1]) = normal[1] /\ Moved(fine[1], fine[2]) = normal[2] /\ normal[2] \in 1 .. Top
  BY <1>1, <1>2, ConversionSpec
<1> HIDE DEF fine, normal, m
<1>5. /\ IsMap(d) /\ DOMAIN d = DOMAIN Zeros
      /\ d[j] = 0 \/ (Place(fine[1]) = j /\ d[j] = normal[2])
      /\ Place(fine[1]) = j => normal[2] <= d[j]
  BY <1>3, <1>4, DensifiedSpec
<1>6. Rank(Singleton(normal), j) = IF j = normal[1] THEN normal[2] ELSE 0
  BY DEF Singleton, Rank
<1>7. d[j] = IF j = normal[1] THEN normal[2] ELSE 0
  BY <1>4, <1>5, Tops
<1>8. Rank(d, j) = d[j]
  BY <1>5 DEF Rank
<1> QED BY <1>6, <1>7, <1>8 DEF fine, normal, m

LEMMA BodyType ==
  ASSUME NEW b \in Accepted
  PROVE  /\ b.mode \in {"sparse", "dense"}
         /\ IsFine(b.sparse) /\ Indexed(b.sparse) /\ IsFiniteSet(DOMAIN b.sparse)
         /\ IsMap(b.dense) /\ DOMAIN b.dense = DOMAIN Zeros
         /\ b.mode = "sparse" => b.dense = Zeros /\ Cardinality(DOMAIN b.sparse) <= Threshold
         /\ b.mode = "dense" => b.sparse = NoSparse
<1>1. /\ b.mode \in {"sparse", "dense"} /\ IsFiniteSet(DOMAIN b.sparse)
      /\ b.sparse \in [DOMAIN b.sparse -> Nat] /\ b.dense \in [DOMAIN Zeros -> Nat]
      /\ b.mode = "sparse" => b.dense = Zeros
      /\ b.mode = "dense" => b.sparse = NoSparse
      /\ WireAccepts(b.mode, b.sparse, b.dense)
  BY BodyAssumption DEF Accepted
<1>2. CASE b.mode = "sparse"
  <2>1. SparseAccepted(b.sparse)
    BY <1>1, <1>2 DEF WireAccepts
  <2>2. IsFine(b.sparse) /\ Indexed(b.sparse) /\ Cardinality(DOMAIN b.sparse) <= Threshold
    BY <1>1, <2>1 DEF SparseAccepted, IsFine, Indexed, FineTop
  <2> QED BY <1>1, <1>2, <2>2, ZerosType
<1>3. CASE b.mode = "dense"
  <2>1. \A i \in DOMAIN b.dense : b.dense[i] <= Top
    BY <1>1, <1>3 DEF WireAccepts, Top
  <2>2. \A i \in DOMAIN b.dense : b.dense[i] \in 0 .. Top
    BY <1>1, <2>1, Tops
  <2>3. IsMap(b.dense)
    BY <1>1, <2>2 DEF IsMap
  <2>4. IsFine(NoSparse) /\ Indexed(NoSparse)
    BY DEF NoSparse, IsFine, Indexed
  <2> QED BY <1>1, <1>3, <2>3, <2>4
<1> QED BY <1>1, <1>2, <1>3

LEMMA FineFacts ==
  ASSUME Hash \subseteq Convertible, NEW S \in SUBSET Hash, NEW G \in SUBSET Accepted
  PROVE  /\ \A m \in FineFrom(S, G) : IsFine(m) /\ IsMap(m)
         /\ IsFine(JoinAll(FineFrom(S, G))) /\ Indexed(JoinAll(FineFrom(S, G)))
<1>1. ASSUME NEW m \in FineFrom(S, G) PROVE IsFine(m) /\ IsMap(m) /\ Indexed(m)
  <2>1. ASSUME NEW h \in S, m = Singleton(Register(h, SP)) PROVE IsFine(m) /\ Indexed(m)
    <3>1. Register(h, SP)[1] < 2 ^ SP
      BY DEF Convertible
    <3> QED BY <2>1, <3>1, SingletonType DEF Indexed
  <2>2. ASSUME NEW b \in G, m = b.sparse PROVE IsFine(m) /\ Indexed(m)
    BY <2>2, BodyType
  <2> QED BY <2>1, <2>2, FineIsMap DEF FineFrom
<1> DEFINE A == FineFrom(S, G)
<1> HIDE DEF A
<1>2. IsFine(JoinAll(A)) /\ DOMAIN JoinAll(A) = UNION {DOMAIN m : m \in A}
  BY <1>1, PromotionJoins, JoinAllSpec DEF A
<1>3. Indexed(JoinAll(A))
  BY <1>1, <1>2 DEF Indexed, A
<1> QED BY <1>1, <1>2, <1>3 DEF A

LEMMA NormalFacts ==
  ASSUME Hash \subseteq Convertible, NEW S \in SUBSET Hash, NEW G \in SUBSET Accepted
  PROVE  /\ \A m \in NormalFrom(S, G) : IsMap(m)
         /\ IsMap(JoinAll(NormalFrom(S, G))) /\ DOMAIN JoinAll(NormalFrom(S, G)) = DOMAIN Zeros
<1>1. ASSUME NEW m \in NormalFrom(S, G) PROVE IsMap(m) /\ DOMAIN m \subseteq DOMAIN Zeros
  <2>1. ASSUME NEW h \in S, m = Singleton(Register(h, P)) PROVE IsMap(m) /\ DOMAIN m \subseteq DOMAIN Zeros
    <3>1. Register(h, P)[1] \in DOMAIN Zeros
      BY DEF Convertible
    <3> QED BY <2>1, <3>1, SingletonType
  <2>2. ASSUME NEW b \in G, m = Densified(b.sparse) PROVE IsMap(m) /\ DOMAIN m \subseteq DOMAIN Zeros
    BY <2>2, BodyType, DensifiedSpec
  <2>3. ASSUME NEW b \in G, m = b.dense PROVE IsMap(m) /\ DOMAIN m \subseteq DOMAIN Zeros
    BY <2>3, BodyType
  <2> QED BY <2>1, <2>2, <2>3, ZerosType DEF NormalFrom
<1> DEFINE A == NormalFrom(S, G)
<1>2. Zeros \in A
  BY DEF NormalFrom
<1> HIDE DEF A
<1>3. IsMap(JoinAll(A)) /\ DOMAIN JoinAll(A) = UNION {DOMAIN m : m \in A}
  BY <1>1, JoinAllSpec DEF A
<1>4. DOMAIN JoinAll(A) = DOMAIN Zeros
  BY <1>1, <1>2, <1>3 DEF A
<1> QED BY <1>1, <1>3, <1>4 DEF A
(* A sketch of sparse registers, made dense, has the registers it would    *)
(* have had if it had been dense from the start.                           *)
LEMMA PromotionExact ==
  ASSUME Hash \subseteq Convertible, NEW S \in SUBSET Hash, NEW G \in SUBSET Accepted,
         \A b \in G : b.mode = "sparse"
  PROVE  Densified(JoinAll(FineFrom(S, G))) = JoinAll(NormalFrom(S, G))
<1> DEFINE A == FineFrom(S, G)
           B == {Zeros} \cup {Densified(m) : m \in A}
           N == NormalFrom(S, G)
           f == JoinAll(B)
<1>1. Densified(JoinAll(A)) = f /\ \A m \in A : IsFine(m)
  BY FineFacts, PromotionJoins
<1>2. \A m \in N : IsMap(m)
  BY NormalFacts
<1>3. \A m \in B : IsMap(m) /\ DOMAIN m = DOMAIN Zeros
  BY <1>1, DensifiedSpec, ZerosType
<1>4. /\ IsMap(f) /\ DOMAIN f = UNION {DOMAIN m : m \in B}
      /\ \A i \in DOMAIN f : \E m \in B : Rank(f, i) = Rank(m, i) /\ i \in DOMAIN m
      /\ \A i : \A m \in B : Rank(m, i) <= Rank(f, i)
  <2> HIDE DEF B
  <2> QED BY <1>3, JoinAllSpec
<1>5. DOMAIN f = DOMAIN Zeros /\ DOMAIN JoinAll(N) = DOMAIN Zeros /\ DOMAIN JoinAll(N) = UNION {DOMAIN m : m \in N}
  <2>1. Zeros \in B
    OBVIOUS
  <2>2. DOMAIN JoinAll(N) = UNION {DOMAIN m : m \in N}
    <3> HIDE DEF N
    <3> QED BY <1>2, JoinAllSpec
  <2> HIDE DEF f, B
  <2> QED BY <1>3, <1>4, <2>1, <2>2, NormalFacts
(* Each of what is joined has its counterpart on the other side.           *)
<1>6. ASSUME NEW m \in B, NEW j \in DOMAIN Zeros PROVE \E o \in N : Rank(m, j) = Rank(o, j)
  <2>1. CASE m = Zeros
    BY <2>1 DEF NormalFrom
  <2>2. ASSUME NEW h \in S, m = Densified(Singleton(Register(h, SP)))
        PROVE  \E o \in N : Rank(m, j) = Rank(o, j)
    <3>1. Rank(m, j) = Rank(Singleton(Register(h, P)), j)
      BY <2>2, HashConverts
    <3> QED BY <3>1 DEF NormalFrom
  <2>3. ASSUME NEW b \in G, m = Densified(b.sparse)
        PROVE  \E o \in N : Rank(m, j) = Rank(o, j)
    BY <2>3 DEF NormalFrom
  <2> QED BY <2>1, <2>2, <2>3 DEF FineFrom
<1>7. ASSUME NEW o \in N, NEW j \in DOMAIN Zeros PROVE \E m \in B : Rank(m, j) = Rank(o, j)
  <2>1. CASE o = Zeros
    BY <2>1
  <2>2. ASSUME NEW h \in S, o = Singleton(Register(h, P))
        PROVE  \E m \in B : Rank(m, j) = Rank(o, j)
    <3>1. Rank(Densified(Singleton(Register(h, SP))), j) = Rank(o, j)
      BY <2>2, HashConverts
    <3>2. Densified(Singleton(Register(h, SP))) \in B
      BY DEF FineFrom
    <3> QED BY <3>1, <3>2
  <2>3. ASSUME NEW b \in G, o = Densified(b.sparse)
        PROVE  \E m \in B : Rank(m, j) = Rank(o, j)
    BY <2>3 DEF FineFrom
  <2>4. ASSUME NEW b \in G, o = b.dense
        PROVE  \E m \in B : Rank(m, j) = Rank(o, j)
    <3>1. o = Zeros
      BY <2>4, BodyType
    <3> QED BY <3>1
  <2> QED BY <2>1, <2>2, <2>3, <2>4 DEF NormalFrom
<1> HIDE DEF A, B, N, f
<1>8. \A i \in DOMAIN f : \E o \in N : Rank(f, i) = Rank(o, i)
  BY <1>4, <1>5, <1>6
<1>9. \A i \in DOMAIN f : \A o \in N : Rank(o, i) <= Rank(f, i)
  BY <1>4, <1>5, <1>7
<1>10. f = JoinAll(N)
  BY <1>2, <1>4, <1>5, <1>8, <1>9, JoinAllIs
<1> QED BY <1>1, <1>10 DEF A, N

-----------------------------------------------------------------------------
(* What holds of a sketch in mode m with registers sp and de, behind which *)
(* are the hashes S and the bodies G, and which was forced or not.         *)

Good(m, sp, de, S, G, f) ==
  /\ m \in {"sparse", "dense"} /\ S \subseteq Hash /\ G \subseteq Accepted /\ f \in BOOLEAN
  /\ IsFiniteSet(DOMAIN JoinAll(FineFrom(S, G)))
  /\ ~ f => \A b \in G : b.mode = "sparse"
  /\ m = "dense" <=> f \/ Cardinality(DOMAIN JoinAll(FineFrom(S, G))) > Threshold
  /\ m = "sparse" => sp = JoinAll(FineFrom(S, G)) /\ de = Zeros
  /\ m = "dense" => de = JoinAll(NormalFrom(S, G)) /\ sp = NoSparse

(* Sets of hashes and bodies are united by joining registers, and then     *)
(* there are at least as many.                                             *)
LEMMA FromUnion ==
  ASSUME Hash \subseteq Convertible, NEW S \in SUBSET Hash, NEW G \in SUBSET Accepted,
         NEW T \in SUBSET Hash, NEW K \in SUBSET Accepted
  PROVE  /\ Join(JoinAll(FineFrom(S, G)), JoinAll(FineFrom(T, K))) = JoinAll(FineFrom(S \cup T, G \cup K))
         /\ Join(JoinAll(NormalFrom(S, G)), JoinAll(NormalFrom(T, K))) = JoinAll(NormalFrom(S \cup T, G \cup K))
<1>1. /\ FineFrom(S, G) \cup FineFrom(T, K) = FineFrom(S \cup T, G \cup K)
      /\ NormalFrom(S, G) \cup NormalFrom(T, K) = NormalFrom(S \cup T, G \cup K)
  BY DEF FineFrom, NormalFrom
<1>2. \A m \in FineFrom(S, G) \cup FineFrom(T, K) : IsMap(m)
  BY FineFacts
<1>3. \A m \in NormalFrom(S, G) \cup NormalFrom(T, K) : IsMap(m)
  BY NormalFacts
<1> QED BY <1>1, <1>2, <1>3, JoinUnion

LEMMA FineGrows ==
  ASSUME Hash \subseteq Convertible, NEW S \in SUBSET Hash, NEW G \in SUBSET Accepted,
         NEW T \in SUBSET Hash, NEW K \in SUBSET Accepted,
         IsFiniteSet(DOMAIN JoinAll(FineFrom(S, G))), IsFiniteSet(DOMAIN JoinAll(FineFrom(T, K)))
  PROVE  LET D == DOMAIN JoinAll(FineFrom(S \cup T, G \cup K))
         IN  /\ IsFiniteSet(D) /\ Cardinality(D) \in Nat
             /\ Cardinality(DOMAIN JoinAll(FineFrom(S, G))) \in Nat
             /\ Cardinality(DOMAIN JoinAll(FineFrom(T, K))) \in Nat
             /\ Cardinality(DOMAIN JoinAll(FineFrom(S, G))) <= Cardinality(D)
             /\ Cardinality(DOMAIN JoinAll(FineFrom(T, K))) <= Cardinality(D)
<1> DEFINE l == JoinAll(FineFrom(S, G))
           r == JoinAll(FineFrom(T, K))
           D == DOMAIN JoinAll(FineFrom(S \cup T, G \cup K))
<1>1. D = DOMAIN l \cup DOMAIN r
  <2>1. DOMAIN Join(l, r) = DOMAIN l \cup DOMAIN r
    BY DEF Join
  <2> QED BY <2>1, FromUnion
<1> HIDE DEF l, r, D
<1>2. IsFiniteSet(DOMAIN l) /\ IsFiniteSet(DOMAIN r)
  BY DEF l, r
<1>3. IsFiniteSet(D)
  BY <1>1, <1>2, FS_Union
<1>4. Cardinality(DOMAIN l) <= Cardinality(D) /\ Cardinality(DOMAIN r) <= Cardinality(D)
  BY <1>1, <1>3, FS_Subset
<1> QED BY <1>2, <1>3, <1>4, FS_CardinalityType DEF l, r, D
(* What SetSparse leaves is good if the registers are those of S and G.    *)
LEMMA GoodSparse ==
  ASSUME Hash \subseteq Convertible, NEW S \in SUBSET Hash, NEW G \in SUBSET Accepted,
         \A b \in G : b.mode = "sparse", IsFiniteSet(DOMAIN JoinAll(FineFrom(S, G)))
  PROVE  LET r == JoinAll(FineFrom(S, G))
         IN  /\ TooMany(r) => Good("dense", NoSparse, Densified(r), S, G, FALSE)
             /\ ~ TooMany(r) => Good("sparse", r, Zeros, S, G, FALSE)
BY PromotionExact DEF Good, TooMany

LEMMA GoodIsAccepted ==
  ASSUME Hash \subseteq Convertible, NEW m, NEW sp, NEW de, NEW S, NEW G, NEW f,
         Good(m, sp, de, S, G, f)
  PROVE  WireAccepts(m, sp, de)
<1>1. CASE m = "sparse"
  <2>1. sp = JoinAll(FineFrom(S, G)) /\ IsFiniteSet(DOMAIN sp) /\ ~ (Cardinality(DOMAIN sp) > Threshold)
    BY <1>1 DEF Good
  <2>2. IsFine(sp) /\ Indexed(sp)
    BY <2>1, FineFacts DEF Good
  <2>3. Cardinality(DOMAIN sp) <= Threshold
    BY <2>1, FS_CardinalityType, PrecisionAssumption
  <2> QED BY <1>1, <2>2, <2>3 DEF WireAccepts, SparseAccepted, IsFine, Indexed, FineTop
<1>2. CASE m = "dense"
  <2>1. IsMap(de)
    BY <1>2, NormalFacts DEF Good
  <2>2. \A i \in DOMAIN de : de[i] <= Width - P + 1
    BY <2>1, Tops DEF IsMap, Top
  <2> QED BY <1>2, <2>2 DEF WireAccepts
<1> QED BY <1>1, <1>2 DEF Good

LEMMA GoodEmpty == Good("sparse", NoSparse, Zeros, {}, {}, FALSE)
<1>1. FineFrom({}, {}) = {}
  BY DEF FineFrom
<1>2. JoinAll({}) = NoSparse
  <2>1. UNION {DOMAIN m : m \in {}} = {}
    OBVIOUS
  <2> QED BY <2>1 DEF JoinAll, NoSparse
<1>3. IsFiniteSet(DOMAIN NoSparse) /\ Cardinality(DOMAIN NoSparse) = 0
  BY FS_EmptySet DEF NoSparse
<1>4. ~ (0 > Threshold)
  BY PrecisionAssumption
<1> QED BY <1>1, <1>2, <1>3, <1>4 DEF Good

(* One hash: the registers of it alone. *)
LEMMA OneHash ==
  ASSUME Hash \subseteq Convertible, NEW h \in Hash
  PROVE  /\ JoinAll(FineFrom({h}, {})) = Singleton(Register(h, SP))
         /\ IsFiniteSet(DOMAIN JoinAll(FineFrom({h}, {})))
<1>1. FineFrom({h}, {}) = {Singleton(Register(h, SP))}
  BY DEF FineFrom
<1>2. JoinAll(FineFrom({h}, {})) = Singleton(Register(h, SP))
  BY <1>1, SingletonType, FineIsMap, JoinAllOne
<1>3. IsFiniteSet(DOMAIN Singleton(Register(h, SP)))
  <2>1. DOMAIN Singleton(Register(h, SP)) = {Register(h, SP)[1]}
    BY SingletonType
  <2>2. \A x : IsFiniteSet({x})
    BY FS_Singleton
  <2> QED BY <2>1, <2>2
<1> QED BY <1>2, <1>3

LEMMA GoodAdd ==
  ASSUME Hash \subseteq Convertible, NEW m, NEW sp, NEW de, NEW S, NEW G, NEW f,
         Good(m, sp, de, S, G, f), NEW h \in Hash
  PROVE  /\ m = "sparse" =>
              /\ ~ f /\ \A b \in G : b.mode = "sparse"
              /\ Join(sp, Singleton(Register(h, SP))) = JoinAll(FineFrom(S \cup {h}, G))
              /\ IsFiniteSet(DOMAIN JoinAll(FineFrom(S \cup {h}, G)))
         /\ m = "dense" =>
              Good(m, sp, Join(de, Singleton(Register(h, P))), S \cup {h}, G, f)
<1>1. S \in SUBSET Hash /\ G \in SUBSET Accepted /\ {h} \in SUBSET Hash /\ {} \in SUBSET Accepted /\ G \cup {} = G
  BY DEF Good
<1>2. IsFiniteSet(DOMAIN JoinAll(FineFrom(S, G))) /\ IsFiniteSet(DOMAIN JoinAll(FineFrom({h}, {})))
  BY OneHash DEF Good
<1>3. Join(JoinAll(FineFrom(S, G)), Singleton(Register(h, SP))) = JoinAll(FineFrom(S \cup {h}, G))
  <2>1. Join(JoinAll(FineFrom(S, G)), JoinAll(FineFrom({h}, {}))) = JoinAll(FineFrom(S \cup {h}, G \cup {}))
    BY <1>1, FromUnion
  <2>2. JoinAll(FineFrom({h}, {})) = Singleton(Register(h, SP))
    BY OneHash
  <2> QED BY <1>1, <2>1, <2>2
<1>4. /\ IsFiniteSet(DOMAIN JoinAll(FineFrom(S \cup {h}, G)))
      /\ Cardinality(DOMAIN JoinAll(FineFrom(S, G))) > Threshold
           => Cardinality(DOMAIN JoinAll(FineFrom(S \cup {h}, G))) > Threshold
  <2> DEFINE c == Cardinality(DOMAIN JoinAll(FineFrom(S, G)))
             d == Cardinality(DOMAIN JoinAll(FineFrom(S \cup {h}, G)))
  <2>1. IsFiniteSet(DOMAIN JoinAll(FineFrom(S \cup {h}, G))) /\ c \in Nat /\ d \in Nat /\ c <= d
    BY <1>1, <1>2, FineGrows
  <2> HIDE DEF c, d
  <2>2. c > Threshold => d > Threshold
    BY <2>1, PrecisionAssumption
  <2> QED BY <2>1, <2>2 DEF c, d
<1>5. Join(JoinAll(NormalFrom(S, G)), Singleton(Register(h, P))) = JoinAll(NormalFrom(S \cup {h}, G))
  <2>1. NormalFrom(S, G) \cup {Singleton(Register(h, P))} = NormalFrom(S \cup {h}, G)
    BY DEF NormalFrom
  <2>2. \A o \in NormalFrom(S, G) \cup {Singleton(Register(h, P))} : IsMap(o)
    BY <1>1, NormalFacts, SingletonType
  <2> QED BY <2>1, <2>2, JoinUnion, JoinAllOne, SingletonType
<1>6. CASE m = "sparse"
  BY <1>3, <1>4, <1>6 DEF Good
<1>7. CASE m = "dense"
  BY <1>1, <1>4, <1>5, <1>7 DEF Good
<1> QED BY <1>6, <1>7 DEF Good

LEMMA GoodForced ==
  ASSUME Hash \subseteq Convertible, NEW m, NEW sp, NEW de, NEW S, NEW G, NEW f,
         Good(m, sp, de, S, G, f)
  PROVE  /\ m = "sparse" => Good("dense", NoSparse, Densified(sp), S, G, TRUE)
         /\ m = "dense" => Good(m, sp, de, S, G, TRUE)
BY PromotionExact DEF Good

LEMMA GoodReceived ==
  ASSUME NEW b \in Accepted
  PROVE  Good(b.mode, b.sparse, b.dense, {}, {b}, b.mode = "dense")
<1>1. FineFrom({}, {b}) = {b.sparse} /\ JoinAll({b.sparse}) = b.sparse
  BY BodyType, FineIsMap, JoinAllOne DEF FineFrom
<1>2. IsFiniteSet(DOMAIN b.sparse) /\ Cardinality(DOMAIN b.sparse) \in Nat
  BY BodyType, FS_CardinalityType
<1>3. b.mode = "sparse" => ~ (Cardinality(DOMAIN b.sparse) > Threshold)
  <2>1. b.mode = "sparse" => Cardinality(DOMAIN b.sparse) <= Threshold
    BY BodyType
  <2> QED BY <1>2, <2>1, PrecisionAssumption
<1>4. ASSUME b.mode = "dense" PROVE b.dense = JoinAll(NormalFrom({}, {b}))
  <2>1. Densified(NoSparse) = Zeros
    <3>1. IsFine(NoSparse)
      BY DEF NoSparse, IsFine
    <3>2. DOMAIN Densified(NoSparse) = DOMAIN Zeros /\ IsMap(Densified(NoSparse))
          /\ \A j \in DOMAIN Zeros : Densified(NoSparse)[j] = 0
      BY <3>1, DensifiedSpec DEF NoSparse
    <3>3. \A j \in DOMAIN Zeros : Rank(Densified(NoSparse), j) = Rank(Zeros, j)
      BY <3>2, ZerosType DEF Rank
    <3> QED BY <3>2, <3>3, ZerosType, SameMap
  <2>2. NormalFrom({}, {b}) = {Zeros, b.dense}
    BY <1>4, <2>1, BodyType DEF NormalFrom
  <2>3. \A o \in {Zeros, b.dense} : IsMap(o) /\ DOMAIN o = DOMAIN b.dense
    BY BodyType, ZerosType
  <2>4. \A i \in DOMAIN b.dense : \A o \in {Zeros, b.dense} : Rank(o, i) <= Rank(b.dense, i)
    <3>1. \A i : Rank(b.dense, i) \in Nat
      BY BodyType, RankType, Tops
    <3> QED BY <3>1, ZerosType
  <2>5. DOMAIN b.dense = UNION {DOMAIN o : o \in {Zeros, b.dense}}
    BY <2>3
  <2>6. \A i \in DOMAIN b.dense : \E o \in {Zeros, b.dense} : Rank(b.dense, i) = Rank(o, i)
    OBVIOUS
  <2>7. b.dense = JoinAll({Zeros, b.dense})
    <3> DEFINE A == {Zeros, b.dense}
    <3>1. \A o \in A : IsMap(o)
      BY <2>3
    <3>2. IsMap(b.dense)
      BY BodyType
    <3> HIDE DEF A
    <3> QED BY <3>1, <3>2, <2>4, <2>5, <2>6, JoinAllIs DEF A
  <2> QED BY <2>2, <2>7
<1> QED BY <1>1, <1>2, <1>3, <1>4, BodyType DEF Good
-----------------------------------------------------------------------------
(* The invariant: every sketch is good. *)

GoodAt(s) == Good(mode[s], sparse[s], dense[s], seen[s], got[s], forced[s])

Domains ==
  /\ DOMAIN mode = Sketch /\ DOMAIN sparse = Sketch /\ DOMAIN dense = Sketch
  /\ DOMAIN seen = Sketch /\ DOMAIN got = Sketch /\ DOMAIN forced = Sketch

IInv == Domains /\ \A s \in Sketch : GoodAt(s)

\* Nothing changes but what belongs to s.
Only(s) ==
  /\ Domains'
  /\ \A r \in Sketch \ {s} :
       /\ mode'[r] = mode[r] /\ sparse'[r] = sparse[r] /\ dense'[r] = dense[r]
       /\ seen'[r] = seen[r] /\ got'[r] = got[r] /\ forced'[r] = forced[r]

LEMMA OnlyOne ==
  ASSUME IInv, NEW s \in Sketch, Only(s),
         Good(mode'[s], sparse'[s], dense'[s], seen'[s], got'[s], forced'[s])
  PROVE  IInv'
<1>1. ASSUME NEW r \in Sketch PROVE GoodAt(r)'
  <2>1. CASE r = s
    BY <2>1 DEF GoodAt
  <2>2. CASE r # s
    BY <2>2 DEF IInv, GoodAt, Only
  <2> QED BY <2>1, <2>2
<1> QED BY <1>1 DEF IInv, Only

LEMMA InitIInv == Init => IInv
BY GoodEmpty DEF Init, IInv, GoodAt, Domains

(* What SetSparse does to s, whatever becomes of its history. *)
LEMMA SetSparseEffect ==
  ASSUME IInv, NEW s \in Sketch, NEW regs, SetSparse(s, regs), mode[s] = "sparse"
  PROVE  /\ DOMAIN mode' = Sketch /\ DOMAIN sparse' = Sketch /\ DOMAIN dense' = Sketch
         /\ \A r \in Sketch \ {s} : mode'[r] = mode[r] /\ sparse'[r] = sparse[r] /\ dense'[r] = dense[r]
         /\ TooMany(regs) => mode'[s] = "dense" /\ sparse'[s] = NoSparse /\ dense'[s] = Densified(regs)
         /\ ~ TooMany(regs) => mode'[s] = "sparse" /\ sparse'[s] = regs /\ dense'[s] = Zeros
<1>1. dense[s] = Zeros /\ Domains
  BY DEF IInv, GoodAt, Good
<1>2. CASE TooMany(regs)
  BY <1>1, <1>2 DEF SetSparse, BecomeDense, Domains
<1>3. CASE ~ TooMany(regs)
  BY <1>1, <1>3 DEF SetSparse, BecomeDense, Domains
<1> QED BY <1>2, <1>3

LEMMA AddKeepsIInv ==
  ASSUME Hash \subseteq Convertible, IInv, NEW s \in Sketch, NEW h \in Hash, AddHash(s, h)
  PROVE  IInv'
<1>1. /\ GoodAt(s) /\ Domains
      /\ seen' = [seen EXCEPT ![s] = seen[s] \cup {h}] /\ got' = got /\ forced' = forced
  BY DEF IInv, AddHash
<1>2. CASE AddSparse(s, h)
  <2> DEFINE regs == Join(sparse[s], Singleton(Register(h, SP)))
  <2>1. mode[s] = "sparse" /\ SetSparse(s, regs)
    BY <1>2 DEF AddSparse
  <2>2. /\ forced[s] = FALSE /\ \A b \in got[s] : b.mode = "sparse"
        /\ regs = JoinAll(FineFrom(seen[s] \cup {h}, got[s]))
        /\ IsFiniteSet(DOMAIN JoinAll(FineFrom(seen[s] \cup {h}, got[s])))
        /\ seen[s] \cup {h} \in SUBSET Hash /\ got[s] \in SUBSET Accepted
    <3>1. /\ ~ forced[s] /\ \A b \in got[s] : b.mode = "sparse"
          /\ regs = JoinAll(FineFrom(seen[s] \cup {h}, got[s]))
          /\ IsFiniteSet(DOMAIN JoinAll(FineFrom(seen[s] \cup {h}, got[s])))
      BY <1>1, <2>1, GoodAdd DEF GoodAt
    <3>2. forced[s] \in BOOLEAN /\ seen[s] \in SUBSET Hash /\ got[s] \in SUBSET Accepted
      BY <1>1 DEF GoodAt, Good
    <3> HIDE DEF regs
    <3> QED BY <3>1, <3>2
  <2> HIDE DEF regs
  <2>3. /\ TooMany(regs) => Good("dense", NoSparse, Densified(regs), seen[s] \cup {h}, got[s], FALSE)
        /\ ~ TooMany(regs) => Good("sparse", regs, Zeros, seen[s] \cup {h}, got[s], FALSE)
    BY <2>2, GoodSparse
  <2>4. Only(s)
    BY <1>1, <2>1, SetSparseEffect DEF Only, Domains
  <2>5. seen'[s] = seen[s] \cup {h} /\ got'[s] = got[s] /\ forced'[s] = FALSE
    BY <1>1, <2>2 DEF Domains
  <2>6. Good(mode'[s], sparse'[s], dense'[s], seen'[s], got'[s], forced'[s])
    BY <2>1, <2>3, <2>5, SetSparseEffect
  <2> QED BY <2>4, <2>6, OnlyOne
<1>3. CASE AddDense(s, h)
  <2>1. /\ mode[s] = "dense" /\ mode' = mode /\ sparse' = sparse
        /\ dense' = [dense EXCEPT ![s] = Join(dense[s], Singleton(Register(h, P)))]
    BY <1>3 DEF AddDense
  <2>2. Good(mode[s], sparse[s], Join(dense[s], Singleton(Register(h, P))), seen[s] \cup {h}, got[s], forced[s])
    BY <1>1, <2>1, GoodAdd DEF GoodAt
  <2>3. Only(s)
    BY <1>1, <2>1 DEF Only, Domains
  <2>4. Good(mode'[s], sparse'[s], dense'[s], seen'[s], got'[s], forced'[s])
    BY <1>1, <2>1, <2>2 DEF Domains
  <2> QED BY <2>3, <2>4, OnlyOne
<1> QED BY <1>2, <1>3 DEF AddHash

LEMMA ForceKeepsIInv ==
  ASSUME Hash \subseteq Convertible, IInv, NEW s \in Sketch, ForceDense(s)
  PROVE  IInv'
<1>1. /\ GoodAt(s) /\ Domains /\ mode[s] \in {"sparse", "dense"}
      /\ seen' = seen /\ got' = got /\ forced' = [forced EXCEPT ![s] = TRUE]
  BY DEF IInv, ForceDense, GoodAt, Good
<1>2. CASE mode[s] = "sparse"
  <2>1. BecomeDense(s, Densified(sparse[s]))
    BY <1>2 DEF ForceDense
  <2>2. Good("dense", NoSparse, Densified(sparse[s]), seen[s], got[s], TRUE)
    BY <1>1, <1>2, GoodForced DEF GoodAt
  <2>3. Only(s)
    BY <1>1, <2>1 DEF Only, Domains, BecomeDense
  <2>4. Good(mode'[s], sparse'[s], dense'[s], seen'[s], got'[s], forced'[s])
    BY <1>1, <2>1, <2>2 DEF Domains, BecomeDense
  <2> QED BY <2>3, <2>4, OnlyOne
<1>3. CASE mode[s] = "dense"
  <2>1. mode' = mode /\ sparse' = sparse /\ dense' = dense
    BY <1>3 DEF ForceDense
  <2>2. Good(mode[s], sparse[s], dense[s], seen[s], got[s], TRUE)
    BY <1>1, <1>3, GoodForced DEF GoodAt
  <2>3. Only(s)
    BY <1>1, <2>1 DEF Only, Domains
  <2>4. Good(mode'[s], sparse'[s], dense'[s], seen'[s], got'[s], forced'[s])
    BY <1>1, <2>1, <2>2 DEF Domains
  <2> QED BY <2>3, <2>4, OnlyOne
<1> QED BY <1>1, <1>2, <1>3
(* Merging unites what is behind the two. *)
LEMMA GoodMerged ==
  ASSUME Hash \subseteq Convertible, IInv, NEW s \in Sketch, NEW t \in Sketch
  PROVE  LET S == seen[s] \cup seen[t]
             G == got[s] \cup got[t]
             f == forced[s] \/ forced[t]
         IN  /\ mode[s] = "sparse" /\ mode[t] = "sparse" =>
                  /\ ~ f /\ \A b \in G : b.mode = "sparse"
                  /\ Join(sparse[s], sparse[t]) = JoinAll(FineFrom(S, G))
                  /\ IsFiniteSet(DOMAIN JoinAll(FineFrom(S, G)))
             /\ mode[s] = "sparse" /\ mode[t] = "dense" =>
                  Good("dense", NoSparse, Join(Densified(sparse[s]), dense[t]), S, G, f)
             /\ mode[s] = "dense" /\ mode[t] = "sparse" =>
                  Good("dense", sparse[s], Join(dense[s], Densified(sparse[t])), S, G, f)
             /\ mode[s] = "dense" /\ mode[t] = "dense" =>
                  Good("dense", sparse[s], Join(dense[s], dense[t]), S, G, f)
<1> DEFINE m == mode[s]  sp == sparse[s]  de == dense[s]  S == seen[s]  G == got[s]  f == forced[s]
           n == mode[t]  sq == sparse[t]  df == dense[t]  T == seen[t]  K == got[t]  g == forced[t]
<1>0. Good(m, sp, de, S, G, f) /\ Good(n, sq, df, T, K, g)
  BY DEF IInv, GoodAt
<1> SUFFICES /\ m = "sparse" /\ n = "sparse" =>
                  /\ ~ (f \/ g) /\ \A b \in G \cup K : b.mode = "sparse"
                  /\ Join(sp, sq) = JoinAll(FineFrom(S \cup T, G \cup K))
                  /\ IsFiniteSet(DOMAIN JoinAll(FineFrom(S \cup T, G \cup K)))
             /\ m = "sparse" /\ n = "dense" =>
                  Good("dense", NoSparse, Join(Densified(sp), df), S \cup T, G \cup K, f \/ g)
             /\ m = "dense" /\ n = "sparse" =>
                  Good("dense", sp, Join(de, Densified(sq)), S \cup T, G \cup K, f \/ g)
             /\ m = "dense" /\ n = "dense" =>
                  Good("dense", sp, Join(de, df), S \cup T, G \cup K, f \/ g)
  OBVIOUS
<1> HIDE DEF m, sp, de, S, G, f, n, sq, df, T, K, g
<1> DEFINE U == S \cup T
           L == G \cup K
           big(A, B) == Cardinality(DOMAIN JoinAll(FineFrom(A, B))) > Threshold
<1>1. /\ S \in SUBSET Hash /\ G \in SUBSET Accepted /\ T \in SUBSET Hash /\ K \in SUBSET Accepted
      /\ f \in BOOLEAN /\ g \in BOOLEAN /\ m \in {"sparse", "dense"} /\ n \in {"sparse", "dense"}
      /\ IsFiniteSet(DOMAIN JoinAll(FineFrom(S, G))) /\ IsFiniteSet(DOMAIN JoinAll(FineFrom(T, K)))
  BY <1>0 DEF Good
<1>2. /\ m = "dense" <=> f \/ big(S, G)
      /\ n = "dense" <=> g \/ big(T, K)
      /\ ~ f => \A b \in G : b.mode = "sparse"
      /\ ~ g => \A b \in K : b.mode = "sparse"
  BY <1>0 DEF Good
<1>3. /\ m = "sparse" => sp = JoinAll(FineFrom(S, G))
      /\ n = "sparse" => sq = JoinAll(FineFrom(T, K))
      /\ m = "dense" => de = JoinAll(NormalFrom(S, G)) /\ sp = NoSparse
      /\ n = "dense" => df = JoinAll(NormalFrom(T, K))
  BY <1>0 DEF Good
<1>4. /\ Join(JoinAll(FineFrom(S, G)), JoinAll(FineFrom(T, K))) = JoinAll(FineFrom(U, L))
      /\ Join(JoinAll(NormalFrom(S, G)), JoinAll(NormalFrom(T, K))) = JoinAll(NormalFrom(U, L))
  BY <1>1, FromUnion
<1>5. /\ IsFiniteSet(DOMAIN JoinAll(FineFrom(U, L)))
      /\ big(S, G) \/ big(T, K) => big(U, L)
  <2> DEFINE c == Cardinality(DOMAIN JoinAll(FineFrom(S, G)))
             d == Cardinality(DOMAIN JoinAll(FineFrom(T, K)))
             e == Cardinality(DOMAIN JoinAll(FineFrom(U, L)))
  <2>1. /\ IsFiniteSet(DOMAIN JoinAll(FineFrom(U, L)))
        /\ c \in Nat /\ d \in Nat /\ e \in Nat /\ c <= e /\ d <= e
    BY <1>1, FineGrows
  <2> HIDE DEF c, d, e
  <2>2. c > Threshold \/ d > Threshold => e > Threshold
    BY <2>1, PrecisionAssumption
  <2> QED BY <2>1, <2>2 DEF c, d, e
<1>6. /\ m = "sparse" => Densified(sp) = JoinAll(NormalFrom(S, G))
      /\ n = "sparse" => Densified(sq) = JoinAll(NormalFrom(T, K))
  <2>1. m = "sparse" => ~ f
    BY <1>2
  <2>2. n = "sparse" => ~ g
    BY <1>2
  <2> QED BY <1>1, <1>2, <1>3, <2>1, <2>2, PromotionExact
<1>7. /\ U \subseteq Hash /\ L \subseteq Accepted
      /\ ~ (f \/ g) => \A b \in L : b.mode = "sparse"
  BY <1>1, <1>2
<1> HIDE DEF U, L, big
<1>8. ASSUME NEW registers, registers = JoinAll(NormalFrom(U, L)), m = "dense" \/ n = "dense"
      PROVE  Good("dense", NoSparse, registers, U, L, f \/ g)
  <2>1. f \/ g \/ big(U, L)
    BY <1>2, <1>5, <1>8
  <2> QED BY <1>1, <1>5, <1>7, <1>8, <2>1 DEF Good, big
<1>9. CASE m = "sparse" /\ n = "sparse"
  <2>1. ~ f /\ ~ g
    BY <1>2, <1>9
  <2> QED BY <1>3, <1>4, <1>5, <1>7, <1>9, <2>1 DEF U, L
<1>10. CASE m = "sparse" /\ n = "dense"
  BY <1>3, <1>4, <1>6, <1>8, <1>10 DEF U, L
<1>11. CASE m = "dense" /\ n = "sparse"
  BY <1>3, <1>4, <1>6, <1>8, <1>11 DEF U, L
<1>12. CASE m = "dense" /\ n = "dense"
  BY <1>3, <1>4, <1>8, <1>12 DEF U, L
<1> QED BY <1>1, <1>9, <1>10, <1>11, <1>12

LEMMA MergeKeepsIInv ==
  ASSUME Hash \subseteq Convertible, IInv, NEW s \in Sketch, NEW t \in Sketch, Merge(s, t)
  PROVE  IInv'
<1> DEFINE S == seen[s] \cup seen[t]
           G == got[s] \cup got[t]
           f == forced[s] \/ forced[t]
<1>1. /\ GoodAt(s) /\ GoodAt(t) /\ Domains
      /\ seen' = [seen EXCEPT ![s] = S] /\ got' = [got EXCEPT ![s] = G]
      /\ forced' = [forced EXCEPT ![s] = f]
  BY DEF IInv, Merge
<1>2. /\ S \in SUBSET Hash /\ G \in SUBSET Accepted
  BY <1>1 DEF GoodAt, Good
<1>3. seen'[s] = S /\ got'[s] = G /\ forced'[s] = f
  BY <1>1 DEF Domains
<1>4. \A r \in Sketch \ {s} : seen'[r] = seen[r] /\ got'[r] = got[r] /\ forced'[r] = forced[r]
  BY <1>1 DEF Domains
<1>5. DOMAIN seen' = Sketch /\ DOMAIN got' = Sketch /\ DOMAIN forced' = Sketch
  BY <1>1 DEF Domains
<1>6. /\ mode[s] = "sparse" /\ mode[t] = "sparse" =>
           /\ ~ f /\ \A b \in G : b.mode = "sparse"
           /\ Join(sparse[s], sparse[t]) = JoinAll(FineFrom(S, G))
           /\ IsFiniteSet(DOMAIN JoinAll(FineFrom(S, G)))
      /\ mode[s] = "sparse" /\ mode[t] = "dense" =>
           Good("dense", NoSparse, Join(Densified(sparse[s]), dense[t]), S, G, f)
      /\ mode[s] = "dense" /\ mode[t] = "sparse" =>
           Good("dense", sparse[s], Join(dense[s], Densified(sparse[t])), S, G, f)
      /\ mode[s] = "dense" /\ mode[t] = "dense" =>
           Good("dense", sparse[s], Join(dense[s], dense[t]), S, G, f)
  BY GoodMerged
<1>7. f \in BOOLEAN
  OBVIOUS
<1> HIDE DEF S, G, f
<1>8. CASE MergeSparse(s, t)
  <2> DEFINE regs == Join(sparse[s], sparse[t])
  <2>1. mode[s] = "sparse" /\ mode[t] = "sparse" /\ SetSparse(s, regs)
    BY <1>8 DEF MergeSparse
  <2>2. f = FALSE /\ regs = JoinAll(FineFrom(S, G))
    BY <1>6, <1>7, <2>1
  <2> HIDE DEF regs
  <2>3. /\ TooMany(regs) => Good("dense", NoSparse, Densified(regs), S, G, FALSE)
        /\ ~ TooMany(regs) => Good("sparse", regs, Zeros, S, G, FALSE)
    BY <1>2, <1>6, <2>1, <2>2, GoodSparse
  <2>4. Only(s)
    BY <1>4, <1>5, <2>1, SetSparseEffect DEF Only, Domains
  <2>5. Good(mode'[s], sparse'[s], dense'[s], seen'[s], got'[s], forced'[s])
    BY <1>3, <2>1, <2>2, <2>3, SetSparseEffect
  <2> QED BY <2>4, <2>5, OnlyOne
<1>9. CASE MergeDenseIntoSparse(s, t)
  <2>1. /\ mode[s] = "sparse" /\ mode[t] = "dense"
        /\ BecomeDense(s, Join(Densified(sparse[s]), dense[t]))
    BY <1>9 DEF MergeDenseIntoSparse
  <2>2. Only(s)
    BY <1>1, <1>4, <1>5, <2>1 DEF Only, Domains, BecomeDense
  <2>3. mode'[s] = "dense" /\ sparse'[s] = NoSparse /\ dense'[s] = Join(Densified(sparse[s]), dense[t])
    BY <1>1, <2>1 DEF Domains, BecomeDense
  <2> QED BY <1>3, <1>6, <2>1, <2>2, <2>3, OnlyOne
<1>10. CASE MergeSparseIntoDense(s, t)
  <2>1. /\ mode[s] = "dense" /\ mode[t] = "sparse" /\ mode' = mode /\ sparse' = sparse
        /\ dense' = [dense EXCEPT ![s] = Join(dense[s], Densified(sparse[t]))]
    BY <1>10 DEF MergeSparseIntoDense
  <2>2. Only(s)
    BY <1>1, <1>4, <1>5, <2>1 DEF Only, Domains
  <2>3. dense'[s] = Join(dense[s], Densified(sparse[t]))
    BY <1>1, <2>1 DEF Domains
  <2> QED BY <1>3, <1>6, <2>1, <2>2, <2>3, OnlyOne
<1>11. CASE MergeDense(s, t)
  <2>1. /\ mode[s] = "dense" /\ mode[t] = "dense" /\ mode' = mode /\ sparse' = sparse
        /\ dense' = [dense EXCEPT ![s] = Join(dense[s], dense[t])]
    BY <1>11 DEF MergeDense
  <2>2. Only(s)
    BY <1>1, <1>4, <1>5, <2>1 DEF Only, Domains
  <2>3. dense'[s] = Join(dense[s], dense[t])
    BY <1>1, <2>1 DEF Domains
  <2> QED BY <1>3, <1>6, <2>1, <2>2, <2>3, OnlyOne
<1> QED BY <1>8, <1>9, <1>10, <1>11 DEF Merge
LEMMA CloneKeepsIInv ==
  ASSUME IInv, NEW s \in Sketch, NEW t \in Sketch, Clone(s, t)
  PROVE  IInv'
<1>1. /\ GoodAt(s) /\ Domains
      /\ mode' = [mode EXCEPT ![t] = mode[s]] /\ sparse' = [sparse EXCEPT ![t] = sparse[s]]
      /\ dense' = [dense EXCEPT ![t] = dense[s]] /\ seen' = [seen EXCEPT ![t] = seen[s]]
      /\ got' = [got EXCEPT ![t] = got[s]] /\ forced' = [forced EXCEPT ![t] = forced[s]]
  BY DEF IInv, Clone
<1>2. Only(t)
  BY <1>1 DEF Only, Domains
<1>3. Good(mode'[t], sparse'[t], dense'[t], seen'[t], got'[t], forced'[t])
  BY <1>1 DEF Domains, GoodAt
<1> QED BY <1>2, <1>3, OnlyOne

LEMMA ReceiveKeepsIInv ==
  ASSUME IInv, NEW s \in Sketch, NEW body \in Body, Receive(s, body)
  PROVE  IInv'
<1>1. /\ Domains /\ body \in Accepted
      /\ mode' = [mode EXCEPT ![s] = body.mode] /\ sparse' = [sparse EXCEPT ![s] = body.sparse]
      /\ dense' = [dense EXCEPT ![s] = body.dense] /\ seen' = [seen EXCEPT ![s] = {}]
      /\ got' = [got EXCEPT ![s] = {body}] /\ forced' = [forced EXCEPT ![s] = body.mode = "dense"]
  BY DEF IInv, Receive, Accepted
<1>2. Only(s)
  BY <1>1 DEF Only, Domains
<1>3. /\ mode'[s] = body.mode /\ sparse'[s] = body.sparse /\ dense'[s] = body.dense
      /\ seen'[s] = {} /\ got'[s] = {body} /\ forced'[s] = (body.mode = "dense")
  BY <1>1 DEF Domains
<1>4. Good(mode'[s], sparse'[s], dense'[s], seen'[s], got'[s], forced'[s])
  BY <1>1, <1>3, GoodReceived
<1> QED BY <1>2, <1>4, OnlyOne

LEMMA NextKeepsIInv ==
  ASSUME Hash \subseteq Convertible, IInv, [Next]_vars
  PROVE  IInv'
<1>1. ASSUME NEW s \in Sketch, NEW h \in Hash, AddHash(s, h) PROVE IInv'
  BY <1>1, AddKeepsIInv
<1>2. ASSUME NEW s \in Sketch, ForceDense(s) PROVE IInv'
  BY <1>2, ForceKeepsIInv
<1>3. ASSUME NEW s \in Sketch, NEW t \in Sketch, Merge(s, t) PROVE IInv'
  BY <1>3, MergeKeepsIInv
<1>4. CASE UNCHANGED vars
  BY <1>4 DEF vars, IInv, GoodAt, Domains
<1>5. ASSUME NEW s \in Sketch, NEW t \in Sketch, MergeRefused(s, t) PROVE IInv'
  BY <1>4, <1>5 DEF MergeRefused
<1>6. ASSUME NEW s \in Sketch, NEW t \in Sketch, Clone(s, t) PROVE IInv'
  BY <1>6, CloneKeepsIInv
<1>7. ASSUME NEW s \in Sketch, NEW body \in Body, Receive(s, body) PROVE IInv'
  BY <1>7, ReceiveKeepsIInv
<1> QED BY <1>1, <1>2, <1>3, <1>4, <1>5, <1>6, <1>7 DEF Next

LEMMA IInvInvariant == ASSUME Hash \subseteq Convertible PROVE Spec => []IInv
<1>1. IInv /\ [Next]_vars => IInv'
  BY NextKeepsIInv
<1> QED BY InitIInv, <1>1, PTL DEF Spec

LEMMA SourcesAre ==
  ASSUME NEW s \in Sketch
  PROVE  /\ FineRegisters(s) = JoinAll(FineFrom(seen[s], got[s]))
         /\ NormalRegisters(s) = JoinAll(NormalFrom(seen[s], got[s]))
BY DEF FineRegisters, NormalRegisters, FineSources, NormalSources, FineFrom, NormalFrom

(* The property of the run: mode and registers of every sketch are those   *)
(* that the hashes and bodies behind it call for, in whatever order        *)
(* add_hash, merge, force_dense, clone and parse were called; and what     *)
(* marshal_binary writes, parse accepts.                                   *)
THEOREM RegistersCorrect == ASSUME Hash \subseteq Convertible PROVE Spec => []RegistersExact
<1>1. IInv => RegistersExact
  <2> SUFFICES ASSUME IInv, NEW s \in Sketch
               PROVE  /\ RepresentationExact(s)
                      /\ WireAccepts(mode[s], sparse[s], dense[s])
                      /\ mode[s] = "sparse" => sparse[s] = FineRegisters(s) /\ dense[s] = Zeros
                      /\ mode[s] = "dense" => dense[s] = NormalRegisters(s) /\ sparse[s] = NoSparse
    BY DEF RegistersExact
  <2>1. Good(mode[s], sparse[s], dense[s], seen[s], got[s], forced[s])
    BY DEF IInv, GoodAt
  <2>2. WireAccepts(mode[s], sparse[s], dense[s])
    BY <2>1, GoodIsAccepted
  <2> QED BY <2>1, <2>2, SourcesAre DEF Good, RepresentationExact
<1> QED BY <1>1, IInvInvariant, PTL

(* The property of the run: a sketch of sparse registers may be made dense *)
(* at any time, with the registers of one that had been dense from the     *)
(* start, if every hash of the width converts.                             *)
THEOREM PromotionCorrect ==
  ASSUME 0 .. 2 ^ Width - 1 \subseteq Convertible
  PROVE  Spec => []ConversionExact
<1>1. Hash \subseteq Convertible
  BY HashAssumption
<1>2. IInv => ConversionExact
  <2> SUFFICES ASSUME IInv, NEW s \in Sketch, mode[s] = "sparse"
               PROVE  Densified(sparse[s]) = NormalRegisters(s)
    BY DEF ConversionExact
  <2>1. Good(mode[s], sparse[s], dense[s], seen[s], got[s], forced[s])
    BY DEF IInv, GoodAt
  <2>2. /\ seen[s] \in SUBSET Hash /\ got[s] \in SUBSET Accepted
        /\ sparse[s] = JoinAll(FineFrom(seen[s], got[s]))
        /\ \A b \in got[s] : b.mode = "sparse"
    BY <2>1 DEF Good
  <2> QED BY <1>1, <2>2, PromotionExact, SourcesAre
<1> QED BY <1>1, <1>2, IInvInvariant, PTL
=============================================================================

---------------------------- MODULE SumTheorems ----------------------------
(***************************************************************************)
(* Facts about SumFunctionOnSet and SumFunction of the module Functions,   *)
(* with which the models add up weights and totals: sums of integers over  *)
(* finite sets.  Induction is stated with a set of the things that have    *)
(* the property in place of the property.  A fold from the left is proved  *)
(* to be the last of its steps.                                            *)
(***************************************************************************)
EXTENDS Functions, FiniteSetsExt, FiniteSetTheorems, TLAPS

LEMMA NatSetInduction ==
  ASSUME NEW G, 0 \in G, \A n \in Nat : n \in G => n + 1 \in G
  PROVE  \A n \in Nat : n \in G
<1> DEFINE bad == Nat \ G
           less == {p \in Nat \X Nat : p[1] < p[2]}
<1> SUFFICES ASSUME bad # {} PROVE FALSE
  OBVIOUS
<1>1. IsWellFoundedOn(less, Nat)
  BY NatLessThanWellFounded, Zenon DEF OpToRel
<1>2. PICK n \in bad : \A m \in bad : ~ (<<m, n>> \in less)
  <2>1. bad \subseteq Nat
    OBVIOUS
  <2> HIDE DEF bad, less
  <2> QED BY <1>1, <2>1, WFMin
<1>3. n # 0 /\ n - 1 \in Nat /\ <<n - 1, n>> \in less
  OBVIOUS
<1>4. n - 1 \in G
  BY <1>2, <1>3
<1> QED BY <1>3, <1>4

LEMMA StrongSubsetInduction ==
  ASSUME NEW D, IsFiniteSet(D), NEW G,
         \A T \in SUBSET D : (\A U \in SUBSET T : U # T => U \in G) => T \in G
  PROVE  \A T \in SUBSET D : T \in G
<1> DEFINE bad == (SUBSET D) \ G
<1> SUFFICES ASSUME bad # {} PROVE FALSE
  OBVIOUS
<1>1. PICK T \in bad : \A U \in bad : ~ (<<U, T>> \in StrictSubsetOrdering(D))
  <2>1. bad \subseteq FiniteSubsetsOf(D)
    BY FS_FiniteSubsetsOfFinite
  <2> HIDE DEF bad
  <2> QED BY <2>1, FS_StrictSubsetOrderingWellFounded, WFMin
<1>2. ASSUME NEW U \in SUBSET T, U # T PROVE U \in G
  <2>1. <<U, T>> \in StrictSubsetOrdering(D)
    BY <1>2 DEF StrictSubsetOrdering
  <2> QED BY <1>1, <2>1
<1> QED BY <1>2

LEMMA SubsetInduction ==
  ASSUME NEW D, IsFiniteSet(D), NEW G,
         {} \in G,
         \A T \in SUBSET D : \A x \in D \ T : T \in G => T \cup {x} \in G
  PROVE  \A T \in SUBSET D : T \in G
<1>1. ASSUME NEW T \in SUBSET D, \A U \in SUBSET T : U # T => U \in G PROVE T \in G
  <2>1. CASE T = {}
    BY <2>1
  <2>2. ASSUME NEW x \in T PROVE T \in G
    <3>1. T \ {x} \in G
      BY <1>1
    <3>2. T = (T \ {x}) \cup {x} /\ x \in D \ (T \ {x})
      OBVIOUS
    <3> QED BY <3>1, <3>2
  <2> QED BY <2>1, <2>2
<1> HIDE DEF StrictSubsetOrdering
<1> QED BY <1>1, StrongSubsetInduction

-----------------------------------------------------------------------------
(* The recursive function inside SumFunctionOnSet. *)

Some(s) == CHOOSE x \in s : TRUE

IsIter(g, f, S) ==
  g = [s \in SUBSET S |-> IF s = {} THEN 0 ELSE f[Some(s)] + g[s \ {Some(s)}]]

LEMMA SumIsIter ==
  ASSUME NEW f, NEW S
  PROVE  SumFunctionOnSet(f, S) = (CHOOSE g : IsIter(g, f, S))[S]
BY DEF SumFunctionOnSet, FoldFunctionOnSet, MapThenFoldSet, IsIter, Some

LEMMA SomeSpec ==
  ASSUME NEW S, IsFiniteSet(S), S # {}
  PROVE  /\ Some(S) \in S
         /\ Cardinality(S \ {Some(S)}) = Cardinality(S) - 1
         /\ Cardinality(S) \in Nat
<1>1. Some(S) \in S
  BY DEF Some
<1> QED BY <1>1, FS_RemoveElement, FS_CardinalityType

LEMMA IterExists ==
  ASSUME NEW f, NEW S, IsFiniteSet(S)
  PROVE  \E g : IsIter(g, f, S)
<1> DEFINE Small(n) == {s \in SUBSET S : Cardinality(s) <= n}
           Next(g, n) == [s \in Small(n) |-> IF s = {} THEN 0 ELSE f[Some(s)] + g[s \ {Some(s)}]]
           G == {n \in Nat : \E g : g = Next(g, n)}
<1>1. \A s \in SUBSET S : IsFiniteSet(s) /\ Cardinality(s) \in Nat /\ Cardinality(s) <= Cardinality(S)
  BY FS_Subset, FS_CardinalityType
<1>2. 0 \in G
  <2>1. ASSUME NEW s \in Small(0) PROVE s = {}
    BY <1>1, FS_EmptySet
  <2>2. Next([s \in Small(0) |-> 0], 0) = [s \in Small(0) |-> 0]
    BY <2>1
  <2> QED BY <2>2
<1>3. ASSUME NEW n \in Nat, n \in G PROVE n + 1 \in G
  <2>1. PICK g : g = Next(g, n)
    BY <1>3
  <2> DEFINE h == Next(g, n + 1)
  <2>2. ASSUME NEW s \in Small(n + 1), s # {} PROVE s \ {Some(s)} \in Small(n)
    BY <1>1, <2>2, SomeSpec
  <2>3. ASSUME NEW s \in Small(n) PROVE s \in Small(n + 1) /\ h[s] = g[s]
    <3>1. s \in Small(n + 1)
      BY <1>1
    <3>2. g[s] = Next(g, n)[s]
      BY <2>1
    <3> QED BY <3>1, <3>2
  <2>4. h = Next(h, n + 1)
    <3>1. ASSUME NEW s \in Small(n + 1)
          PROVE  h[s] = IF s = {} THEN 0 ELSE f[Some(s)] + h[s \ {Some(s)}]
      <4> HIDE DEF Small
      <4>1. CASE s = {}
        BY <4>1
      <4>2. CASE s # {}
        <5>1. h[s] = f[Some(s)] + g[s \ {Some(s)}]
          BY <4>2
        <5>2. h[s \ {Some(s)}] = g[s \ {Some(s)}]
          BY <2>2, <2>3, <4>2
        <5> HIDE DEF h
        <5> QED BY <4>2, <5>1, <5>2
      <4> QED BY <4>1, <4>2
    <3>2. h = [s \in Small(n + 1) |-> h[s]]
      OBVIOUS
    <3> HIDE DEF h, Small
    <3> QED BY <3>1, <3>2
  <2>5. \E i : i = Next(i, n + 1)
    <3> HIDE DEF h, Next
    <3> QED BY <2>4
  <2> HIDE DEF h, Next
  <2> QED BY <2>5
<1>4. Cardinality(S) \in G
  <2> HIDE DEF G
  <2> QED BY <1>1, <1>2, <1>3, NatSetInduction
<1>5. Small(Cardinality(S)) = SUBSET S
  BY <1>1
<1> QED BY <1>4, <1>5 DEF IsIter

LEMMA IterValue ==
  ASSUME NEW f, NEW S, IsFiniteSet(S), NEW g, IsIter(g, f, S), NEW T \in SUBSET S
  PROVE  SumFunctionOnSet(f, T) = g[T]
<1> DEFINE h == CHOOSE i : IsIter(i, f, T)
           G == {U \in SUBSET T : h[U] = g[U]}
<1>1. IsFiniteSet(T)
  BY FS_Subset
<1>2. IsIter(h, f, T)
  BY <1>1, IterExists
<1> HIDE DEF h
<1>3. ASSUME NEW U \in SUBSET T, \A V \in SUBSET U : V # U => V \in G PROVE U \in G
  <2>1. /\ h[U] = IF U = {} THEN 0 ELSE f[Some(U)] + h[U \ {Some(U)}]
        /\ g[U] = IF U = {} THEN 0 ELSE f[Some(U)] + g[U \ {Some(U)}]
    BY <1>2 DEF IsIter
  <2>2. U # {} => Some(U) \in U
    BY DEF Some
  <2>3. U # {} => h[U \ {Some(U)}] = g[U \ {Some(U)}]
    BY <1>3, <2>2
  <2> QED BY <2>1, <2>3
<1>4. T \in G
  <2> HIDE DEF G
  <2> QED BY <1>1, <1>3, StrongSubsetInduction
<1> QED BY <1>4, SumIsIter DEF h

-----------------------------------------------------------------------------
(* The equations of a sum. *)

LEMMA SumEmpty == ASSUME NEW f PROVE SumFunctionOnSet(f, {}) = 0
<1>1. PICK g : IsIter(g, f, {})
  BY IterExists, FS_EmptySet
<1>2. g[{}] = 0
  BY <1>1 DEF IsIter
<1> QED BY <1>1, <1>2, IterValue, FS_EmptySet

LEMMA SumSome ==
  ASSUME NEW f, NEW S, IsFiniteSet(S), S # {}
  PROVE  SumFunctionOnSet(f, S) = f[Some(S)] + SumFunctionOnSet(f, S \ {Some(S)})
<1>1. PICK g : IsIter(g, f, S)
  BY IterExists
<1>2. g[S] = f[Some(S)] + g[S \ {Some(S)}]
  BY <1>1 DEF IsIter
<1> QED BY <1>1, <1>2, IterValue

(* Any two integer functions with the same values have the same sum.       *)
LEMMA SumEqual ==
  ASSUME NEW S, IsFiniteSet(S), NEW f, NEW g, \A x \in S : f[x] = g[x]
  PROVE  SumFunctionOnSet(f, S) = SumFunctionOnSet(g, S)
<1> DEFINE G == {T \in SUBSET S : SumFunctionOnSet(f, T) = SumFunctionOnSet(g, T)}
<1>1. ASSUME NEW T \in SUBSET S, \A U \in SUBSET T : U # T => U \in G PROVE T \in G
  <2>1. CASE T = {}
    BY <2>1, SumEmpty
  <2>2. CASE T # {}
    <3>1. IsFiniteSet(T) /\ Some(T) \in T
      BY <2>2, FS_Subset, SomeSpec
    <3>2. T \ {Some(T)} \in G
      BY <1>1, <3>1
    <3> QED BY <2>2, <3>1, <3>2, SumSome
  <2> QED BY <2>1, <2>2
<1>2. S \in G
  <2> HIDE DEF G
  <2> QED BY <1>1, StrongSubsetInduction
<1> QED BY <1>2

LEMMA SumType ==
  ASSUME NEW S, IsFiniteSet(S), NEW f, \A x \in S : f[x] \in Int
  PROVE  SumFunctionOnSet(f, S) \in Int
<1> DEFINE G == {T \in SUBSET S : SumFunctionOnSet(f, T) \in Int}
<1>1. ASSUME NEW T \in SUBSET S, \A U \in SUBSET T : U # T => U \in G PROVE T \in G
  <2>1. CASE T = {}
    BY <2>1, SumEmpty
  <2>2. CASE T # {}
    <3>1. IsFiniteSet(T) /\ Some(T) \in T
      BY <2>2, FS_Subset, SomeSpec
    <3>2. T \ {Some(T)} \in G
      BY <1>1, <3>1
    <3> QED BY <2>2, <3>1, <3>2, SumSome
  <2> QED BY <2>1, <2>2
<1>2. S \in G
  <2> HIDE DEF G
  <2> QED BY <1>1, StrongSubsetInduction
<1> QED BY <1>2

(* Any element may be taken out first.                                     *)
LEMMA SumRemove ==
  ASSUME NEW S, IsFiniteSet(S), NEW f, \A x \in S : f[x] \in Int, NEW y \in S
  PROVE  SumFunctionOnSet(f, S) = f[y] + SumFunctionOnSet(f, S \ {y})
<1> DEFINE Sum(T) == SumFunctionOnSet(f, T)
           G == {T \in SUBSET S : \A z \in T : Sum(T) = f[z] + Sum(T \ {z})}
<1>1. ASSUME NEW T \in SUBSET S, \A U \in SUBSET T : U # T => U \in G, NEW z \in T
      PROVE  Sum(T) = f[z] + Sum(T \ {z})
  <2> DEFINE c == Some(T)
  <2>1. IsFiniteSet(T) /\ c \in T
    BY FS_Subset, SomeSpec
  <2>2. Sum(T) = f[c] + Sum(T \ {c})
    BY <2>1, SumSome
  <2> HIDE DEF c
  <2>3. CASE z = c
    BY <2>2, <2>3
  <2>4. CASE z # c
    <3> DEFINE rest == Sum((T \ {c}) \ {z})
    <3>1. Sum(T \ {c}) = f[z] + rest
      BY <1>1, <2>1, <2>4
    <3>2. Sum(T \ {z}) = f[c] + rest
      <4>1. (T \ {z}) \ {c} = (T \ {c}) \ {z}
        OBVIOUS
      <4>2. Sum(T \ {z}) = f[c] + Sum((T \ {z}) \ {c})
        BY <1>1, <2>1, <2>4
      <4> QED BY <4>1, <4>2, Zenon
    <3>3. f[c] \in Int /\ f[z] \in Int /\ rest \in Int
      <4>1. IsFiniteSet((T \ {c}) \ {z})
        BY <2>1, FS_Subset
      <4> QED BY <2>1, <4>1, SumType
    <3> HIDE DEF rest
    <3>4. Sum(T) = f[c] + (f[z] + rest)
      BY <2>2, <3>1
    <3>5. f[c] + (f[z] + rest) = f[z] + (f[c] + rest)
      BY <3>3
    <3> QED BY <3>2, <3>4, <3>5
  <2> QED BY <2>3, <2>4
<1>2. S \in G
  <2>1. \A T \in SUBSET S : (\A U \in SUBSET T : U # T => U \in G) => T \in G
    BY <1>1
  <2> HIDE DEF G
  <2> QED BY <2>1, StrongSubsetInduction
<1> QED BY <1>2

LEMMA SumAdd ==
  ASSUME NEW S, IsFiniteSet(S), NEW y, y \notin S, NEW f, \A x \in S \cup {y} : f[x] \in Int
  PROVE  SumFunctionOnSet(f, S \cup {y}) = f[y] + SumFunctionOnSet(f, S)
<1>1. IsFiniteSet(S \cup {y}) /\ (S \cup {y}) \ {y} = S
  BY FS_AddElement
<1> QED BY <1>1, SumRemove

-----------------------------------------------------------------------------
(* Sums of functions that are related point by point. *)

LEMMA SumPlus ==
  ASSUME NEW S, IsFiniteSet(S), NEW f, NEW g, NEW h,
         \A x \in S : f[x] \in Int /\ g[x] \in Int /\ h[x] = f[x] + g[x]
  PROVE  SumFunctionOnSet(h, S) = SumFunctionOnSet(f, S) + SumFunctionOnSet(g, S)
<1> DEFINE F(T) == SumFunctionOnSet(f, T)
           E(T) == SumFunctionOnSet(g, T)
           H(T) == SumFunctionOnSet(h, T)
           G == {T \in SUBSET S : H(T) = F(T) + E(T)}
<1>1. {} \in G
  BY SumEmpty
<1>2. ASSUME NEW T \in SUBSET S, NEW x \in S \ T, T \in G PROVE T \cup {x} \in G
  <2>1. IsFiniteSet(T)
    BY FS_Subset
  <2>2. /\ F(T \cup {x}) = f[x] + F(T)
        /\ E(T \cup {x}) = g[x] + E(T)
        /\ H(T \cup {x}) = h[x] + H(T)
    <3>1. F(T \cup {x}) = f[x] + F(T)
      BY <2>1, SumAdd
    <3>2. E(T \cup {x}) = g[x] + E(T)
      BY <2>1, SumAdd
    <3>3. \A z \in T \cup {x} : h[z] \in Int
      OBVIOUS
    <3>4. H(T \cup {x}) = h[x] + H(T)
      BY <2>1, <3>3, SumAdd
    <3> QED BY <3>1, <3>2, <3>4
  <2>3. F(T) \in Int /\ E(T) \in Int
    BY <2>1, SumType
  <2> HIDE DEF F, E, H
  <2> QED BY <1>2, <2>2, <2>3
<1>3. S \in G
  <2> HIDE DEF G
  <2> QED BY <1>1, <1>2, SubsetInduction
<1> QED BY <1>3

LEMMA SumLess ==
  ASSUME NEW S, IsFiniteSet(S), NEW f, NEW g,
         \A x \in S : f[x] \in Int /\ g[x] \in Int /\ f[x] <= g[x]
  PROVE  SumFunctionOnSet(f, S) <= SumFunctionOnSet(g, S)
<1> DEFINE F(T) == SumFunctionOnSet(f, T)
           E(T) == SumFunctionOnSet(g, T)
           G == {T \in SUBSET S : F(T) <= E(T)}
<1>1. {} \in G
  BY SumEmpty
<1>2. ASSUME NEW T \in SUBSET S, NEW x \in S \ T, T \in G PROVE T \cup {x} \in G
  <2>1. IsFiniteSet(T)
    BY FS_Subset
  <2>2. F(T \cup {x}) = f[x] + F(T) /\ E(T \cup {x}) = g[x] + E(T)
    BY <2>1, SumAdd
  <2>3. F(T) \in Int /\ E(T) \in Int
    BY <2>1, SumType
  <2> HIDE DEF F, E
  <2> QED BY <1>2, <2>2, <2>3
<1>3. S \in G
  <2> HIDE DEF G
  <2> QED BY <1>1, <1>2, SubsetInduction
<1> QED BY <1>3

(* The same number for every element of a part, nothing for the others.    *)
LEMMA SumOfPart ==
  ASSUME NEW S, IsFiniteSet(S), NEW P \in SUBSET S, NEW d \in Int, NEW f,
         \A x \in S : f[x] = IF x \in P THEN d ELSE 0
  PROVE  SumFunctionOnSet(f, S) = d * Cardinality(P)
<1> DEFINE F(T) == SumFunctionOnSet(f, T)
           C(T) == Cardinality(P \cap T)
           G == {T \in SUBSET S : F(T) = d * C(T)}
<1>1. {} \in G
  <2>1. F({}) = 0 /\ C({}) = 0
    <3>1. P \cap {} = {}
      OBVIOUS
    <3> QED BY <3>1, SumEmpty, FS_EmptySet
  <2> HIDE DEF F, C
  <2> QED BY <2>1
<1>2. ASSUME NEW T \in SUBSET S, NEW x \in S \ T, T \in G PROVE T \cup {x} \in G
  <2>1. IsFiniteSet(T) /\ IsFiniteSet(P \cap T) /\ C(T) \in Nat
    BY FS_Subset, FS_Intersection, FS_CardinalityType
  <2>2. F(T \cup {x}) = f[x] + F(T)
    BY <2>1, SumAdd
  <2>3. CASE x \in P
    <3>1. P \cap (T \cup {x}) = (P \cap T) \cup {x}
      BY <2>3
    <3>2. C(T \cup {x}) = C(T) + 1
      BY <2>1, <3>1, FS_AddElement
    <3>3. f[x] = d
      BY <2>3
    <3> HIDE DEF F, C
    <3> QED BY <1>2, <2>1, <2>2, <3>2, <3>3
  <2>4. CASE x \notin P
    <3>1. P \cap (T \cup {x}) = P \cap T
      BY <2>4
    <3>2. C(T \cup {x}) = C(T)
      BY <3>1
    <3>3. f[x] = 0
      BY <2>4
    <3> HIDE DEF F, C
    <3> QED BY <1>2, <2>1, <2>2, <3>2, <3>3
  <2> QED BY <2>3, <2>4
<1>3. S \in G
  <2> HIDE DEF G
  <2> QED BY <1>1, <1>2, SubsetInduction
<1>4. P \cap S = P
  OBVIOUS
<1> QED BY <1>3, <1>4

LEMMA SumZero ==
  ASSUME NEW S, IsFiniteSet(S), NEW f, \A x \in S : f[x] = 0
  PROVE  SumFunctionOnSet(f, S) = 0
<1>1. SumFunctionOnSet(f, S) = 0 * Cardinality(S)
  BY SumOfPart
<1> QED BY <1>1, FS_CardinalityType

(* Natural numbers: a sum is at least each of them.                        *)
LEMMA SumNat ==
  ASSUME NEW S, IsFiniteSet(S), NEW f, \A x \in S : f[x] \in Nat
  PROVE  /\ SumFunctionOnSet(f, S) \in Nat
         /\ \A x \in S : f[x] <= SumFunctionOnSet(f, S)
<1> DEFINE zero == [x \in S |-> 0]
<1>1. \A T \in SUBSET S : SumFunctionOnSet(f, T) \in Nat
  <2> SUFFICES ASSUME NEW T \in SUBSET S PROVE SumFunctionOnSet(f, T) \in Nat
    OBVIOUS
  <2>1. IsFiniteSet(T) /\ T \in SUBSET T
    BY FS_Subset
  <2>2. SumFunctionOnSet(zero, T) = 0 * Cardinality(T)
    BY <2>1, SumOfPart
  <2>3. Cardinality(T) \in Nat
    BY <2>1, FS_CardinalityType
  <2>4. SumFunctionOnSet(zero, T) <= SumFunctionOnSet(f, T)
    BY <2>1, SumLess
  <2>5. SumFunctionOnSet(f, T) \in Int
    BY <2>1, SumType
  <2> QED BY <2>2, <2>3, <2>4, <2>5
<1>2. ASSUME NEW x \in S PROVE f[x] <= SumFunctionOnSet(f, S)
  <2>1. SumFunctionOnSet(f, S) = f[x] + SumFunctionOnSet(f, S \ {x})
    BY SumRemove
  <2>2. SumFunctionOnSet(f, S \ {x}) \in Nat
    BY <1>1
  <2> QED BY <2>1, <2>2
<1> QED BY <1>1, <1>2

(* One value changes.                                                      *)
LEMMA SumChange ==
  ASSUME NEW S, IsFiniteSet(S), NEW f \in [S -> Int], NEW g \in [S -> Int],
         NEW y \in S, \A x \in S \ {y} : f[x] = g[x]
  PROVE  SumFunctionOnSet(g, S) = SumFunctionOnSet(f, S) - f[y] + g[y]
<1>1. SumFunctionOnSet(f, S) = f[y] + SumFunctionOnSet(f, S \ {y})
  BY SumRemove
<1>2. SumFunctionOnSet(g, S) = g[y] + SumFunctionOnSet(g, S \ {y})
  BY SumRemove
<1>3. IsFiniteSet(S \ {y})
  BY FS_RemoveElement
<1>4. SumFunctionOnSet(f, S \ {y}) = SumFunctionOnSet(g, S \ {y})
  BY <1>3, SumEqual
<1>5. SumFunctionOnSet(f, S \ {y}) \in Int
  BY <1>3, SumType
<1>6. f[y] \in Int /\ g[y] \in Int
  OBVIOUS
<1> QED BY <1>1, <1>2, <1>4, <1>5, <1>6

(* A part of 1 .. n that is not empty has a greatest member.               *)
LEMMA MaxOfPart ==
  ASSUME NEW n \in Nat, NEW s \in SUBSET (1 .. n), s # {}
  PROVE  Max(s) \in s /\ \A i \in s : i <= Max(s)
<1> DEFINE G == {m \in Nat : \A t \in SUBSET (1 .. m) : t # {} => \E i \in t : \A j \in t : i >= j}
<1>1. 0 \in G
  <2>1. 1 .. 0 = {}
    OBVIOUS
  <2> QED BY <2>1
<1>2. ASSUME NEW m \in Nat, m \in G PROVE m + 1 \in G
  <2>1. ASSUME NEW t \in SUBSET (1 .. m + 1), t # {} PROVE \E i \in t : \A j \in t : i >= j
    <3>1. CASE m + 1 \in t
      BY <3>1
    <3>2. CASE m + 1 \notin t
      <4>1. t \in SUBSET (1 .. m)
        BY <3>2
      <4> QED BY <1>2, <4>1, <2>1
    <3> QED BY <3>1, <3>2
  <2> QED BY <2>1
<1>3. n \in G
  <2> HIDE DEF G
  <2> QED BY <1>1, <1>2, NatSetInduction
<1>4. \E i \in s : \A j \in s : i >= j
  BY <1>3
<1>5. Max(s) \in s /\ \A j \in s : Max(s) >= j
  BY <1>4 DEF Max
<1> QED BY <1>5

(* A fold from the left, as a sequence of steps.                           *)
Rest(s) == s \ {Max(s)}
(* The values f[0], f[1], .. of a fold over n arguments; step takes the    *)
(* value so far and a position.                                            *)
Steps(f, base, step, n) ==
  f[0] = base /\ \A k \in 1 .. n : f[k] = step[<<f[k - 1], k>>]

(* The same fold as MapThenFoldSet computes it: over sets of positions,    *)
(* the greatest taken last.                                                *)
Folded(g, base, step, n) ==
  \A s \in SUBSET (1 .. n) :
    g[s] = IF s = {} THEN base ELSE step[<<g[Rest(s)], Max(s)>>]

(* What a recursive function has to satisfy to be such a fold, as far as   *)
(* its values lie in X.                                                    *)
Follows(h, X, base, step, n) ==
  /\ h[{}] = base
  /\ \A s \in SUBSET (1 .. n) :
       s # {} /\ h[Rest(s)] \in X => h[s] = step[<<h[Rest(s)], Max(s)>>]

(* The steps f end where every such function ends.                         *)
Unrolled(f, X, base, step, n) ==
  /\ Steps(f, base, step, n)
  /\ \A h : Follows(h, X, base, step, n) => h[1 .. n] = f[n]

(* Taking the greatest position away makes a set of positions smaller by   *)
(* one.                                                                    *)
LEMMA RestIsSmaller ==
  ASSUME NEW n \in Nat, NEW s \in SUBSET (1 .. n), s # {}
  PROVE  /\ Rest(s) \in SUBSET s /\ Rest(s) # s
         /\ IsFiniteSet(s) /\ Cardinality(s) \in Nat
         /\ Cardinality(Rest(s)) = Cardinality(s) - 1
<1>1. Max(s) \in s
  BY MaxOfPart
<1>2. IsFiniteSet(1 .. n)
  BY FS_Interval
<1>3. IsFiniteSet(s)
  BY <1>2, FS_Subset
<1> QED BY <1>1, <1>3, FS_RemoveElement, FS_CardinalityType DEF Rest

(* A fold over sets of positions exists, by induction on their number.     *)
LEMMA FoldExists ==
  ASSUME NEW X, NEW n \in Nat, NEW base \in X, NEW step \in [X \X (1 .. n) -> X]
  PROVE  \E g \in [SUBSET (1 .. n) -> X] : Folded(g, base, step, n)
<1> DEFINE Small(k) == {s \in SUBSET (1 .. n) : Cardinality(s) <= k}
           Following(g, k) == [s \in Small(k) |-> IF s = {} THEN base ELSE step[<<g[Rest(s)], Max(s)>>]]
           G == {k \in Nat : \E g \in [Small(k) -> X] : g = Following(g, k)}
<1>0. IsFiniteSet(1 .. n) /\ Cardinality(1 .. n) = n
  BY FS_Interval
<1>1. ASSUME NEW s \in SUBSET (1 .. n)
      PROVE  IsFiniteSet(s) /\ Cardinality(s) \in Nat /\ Cardinality(s) <= n
  <2>1. IsFiniteSet(s) /\ Cardinality(s) <= Cardinality(1 .. n)
    BY <1>0, FS_Subset
  <2> QED BY <1>0, <2>1, FS_CardinalityType
<1>2. 0 \in G
  <2>1. ASSUME NEW s \in Small(0) PROVE s = {}
    BY <1>1, FS_EmptySet
  <2>2. Following([s \in Small(0) |-> base], 0) = [s \in Small(0) |-> base]
    BY <2>1
  <2>3. [s \in Small(0) |-> base] \in [Small(0) -> X]
    OBVIOUS
  <2> QED BY <2>2, <2>3
<1>3. ASSUME NEW k \in Nat, k \in G PROVE k + 1 \in G
  <2>1. PICK g \in [Small(k) -> X] : g = Following(g, k)
    BY <1>3
  <2> DEFINE h == Following(g, k + 1)
  <2>2. ASSUME NEW s \in Small(k + 1), s # {} PROVE Rest(s) \in Small(k) /\ Max(s) \in 1 .. n
    <3>1. s \in SUBSET (1 .. n) /\ Cardinality(s) <= k + 1
      OBVIOUS
    <3>2. Rest(s) \in SUBSET s /\ Cardinality(Rest(s)) = Cardinality(s) - 1 /\ Cardinality(s) \in Nat
      BY <3>1, <2>2, RestIsSmaller
    <3>3. Max(s) \in s
      BY <3>1, <2>2, MaxOfPart
    <3>4. Rest(s) \in SUBSET (1 .. n) /\ Max(s) \in 1 .. n
      BY <3>1, <3>2, <3>3
    <3>5. Cardinality(Rest(s)) <= k
      BY <3>1, <3>2
    <3> QED BY <3>4, <3>5
  <2>3. ASSUME NEW s \in Small(k) PROVE s \in Small(k + 1) /\ h[s] = g[s]
    <3>1. s \in Small(k + 1)
      BY <1>1
    <3>2. g[s] = Following(g, k)[s]
      BY <2>1
    <3> QED BY <3>1, <3>2
  <2>4. ASSUME NEW s \in Small(k + 1)
        PROVE  h[s] \in X /\ h[s] = IF s = {} THEN base ELSE step[<<h[Rest(s)], Max(s)>>]
    <3> HIDE DEF Small
    <3>1. CASE s = {}
      BY <3>1
    <3>2. CASE s # {}
      <4>1. h[s] = step[<<g[Rest(s)], Max(s)>>]
        BY <3>2
      <4>2. h[Rest(s)] = g[Rest(s)] /\ g[Rest(s)] \in X /\ Max(s) \in 1 .. n
        BY <2>2, <2>3, <3>2
      <4> HIDE DEF h
      <4> QED BY <3>2, <4>1, <4>2
    <3> QED BY <3>1, <3>2
  <2>5. h = [s \in Small(k + 1) |-> h[s]]
    OBVIOUS
  <2> HIDE DEF Small, h
  <2>6. h = Following(h, k + 1) /\ h \in [Small(k + 1) -> X]
    BY <2>4, <2>5
  <2> HIDE DEF Following
  <2> QED BY <2>6
<1>4. n \in G
  <2> HIDE DEF G
  <2> QED BY <1>2, <1>3, NatSetInduction
<1>5. Small(n) = SUBSET (1 .. n)
  BY <1>1
<1>6. \E g \in [Small(n) -> X] : g = Following(g, n)
  <2> HIDE DEF Small, Following
  <2> QED BY <1>4
<1>7. PICK g \in [Small(n) -> X] : g = Following(g, n)
  BY <1>6
<1>8. g \in [SUBSET (1 .. n) -> X]
  <2> HIDE DEF Small, Following
  <2> QED BY <1>5, <1>7
<1>9. \A s \in SUBSET (1 .. n) : g[s] = IF s = {} THEN base ELSE step[<<g[Rest(s)], Max(s)>>]
  <2>1. \A s \in Small(n) : g[s] = IF s = {} THEN base ELSE step[<<g[Rest(s)], Max(s)>>]
    <3> HIDE DEF Small
    <3> QED BY <1>7
  <2> HIDE DEF Small, Following
  <2> QED BY <1>5, <2>1
<1>10. Folded(g, base, step, n)
  BY <1>9 DEF Folded
<1> HIDE DEF Small, Following
<1> QED BY <1>8, <1>10

(* A fold from the left is the last of its steps.                          *)
LEMMA FoldSteps ==
  ASSUME NEW X, NEW n \in Nat, NEW base \in X, NEW step \in [X \X (1 .. n) -> X]
  PROVE  \E f \in [0 .. n -> X] : Unrolled(f, X, base, step, n)
<1>1. PICK g \in [SUBSET (1 .. n) -> X] : Folded(g, base, step, n)
  BY FoldExists
<1>2. g[{}] = base /\ \A s \in SUBSET (1 .. n) : s # {} => g[s] = step[<<g[Rest(s)], Max(s)>>]
  BY <1>1 DEF Folded
<1> DEFINE f == [k \in 0 .. n |-> g[1 .. k]]
<1>3. ASSUME NEW k \in 1 .. n
      PROVE  /\ 1 .. k \in SUBSET (1 .. n) /\ 1 .. k # {}
             /\ Max(1 .. k) = k /\ Rest(1 .. k) = 1 .. (k - 1)
  <2>1. 1 .. k \in SUBSET (1 .. n) /\ 1 .. k # {} /\ k \in 1 .. k
    OBVIOUS
  <2>2. Max(1 .. k) \in 1 .. k /\ \A i \in 1 .. k : i <= Max(1 .. k)
    BY <2>1, MaxOfPart
  <2>3. Max(1 .. k) = k
    BY <2>1, <2>2
  <2> QED BY <2>1, <2>3 DEF Rest
<1>4. f \in [0 .. n -> X]
  <2>1. \A k \in 0 .. n : 1 .. k \in SUBSET (1 .. n)
    OBVIOUS
  <2> QED BY <2>1
<1>5. Steps(f, base, step, n)
  <2>1. f[0] = base
    <3>1. 1 .. 0 = {} /\ 0 \in 0 .. n
      OBVIOUS
    <3>2. f[0] = g[1 .. 0]
      BY <3>1
    <3> QED BY <1>2, <3>1, <3>2
  <2>2. ASSUME NEW k \in 1 .. n PROVE f[k] = step[<<f[k - 1], k>>]
    <3>1. g[1 .. k] = step[<<g[1 .. (k - 1)], k>>]
      BY <1>2, <1>3
    <3>2. k \in 0 .. n /\ k - 1 \in 0 .. n
      OBVIOUS
    <3>3. f[k] = g[1 .. k] /\ f[k - 1] = g[1 .. (k - 1)]
      BY <3>2
    <3> QED BY <3>1, <3>3
  <2> QED BY <2>1, <2>2 DEF Steps
<1>6. ASSUME NEW h, Follows(h, X, base, step, n) PROVE h[1 .. n] = f[n]
  <2> DEFINE G == {k \in Nat : k <= n => h[1 .. k] = f[k]}
  <2>1. 0 \in G
    <3>1. 1 .. 0 = {} /\ 0 \in 0 .. n
      OBVIOUS
    <3>2. f[0] = base
      BY <1>5 DEF Steps
    <3> HIDE DEF f
    <3> QED BY <1>6, <3>1, <3>2 DEF Follows
  <2>2. ASSUME NEW k \in Nat, k \in G PROVE k + 1 \in G
    <3>1. SUFFICES ASSUME k + 1 <= n PROVE h[1 .. k + 1] = f[k + 1]
      OBVIOUS
    <3>2. h[1 .. k] = f[k] /\ k + 1 \in 1 .. n /\ k \in 0 .. n
      BY <2>2, <3>1
    <3>3. Rest(1 .. k + 1) = 1 .. k /\ Max(1 .. k + 1) = k + 1 /\ (k + 1) - 1 = k
      BY <3>2, <1>3
    <3>4. f[k] \in X /\ f[k + 1] = step[<<f[k], k + 1>>]
      <4> HIDE DEF f
      <4> QED BY <1>4, <1>5, <3>2, <3>3 DEF Steps
    <3>5. h[1 .. k + 1] = step[<<h[1 .. k], k + 1>>]
      <4>1. 1 .. k + 1 \in SUBSET (1 .. n) /\ 1 .. k + 1 # {}
        BY <1>3, <3>2
      <4>2. h[Rest(1 .. k + 1)] \in X
        <5> HIDE DEF f
        <5> QED BY <3>2, <3>3, <3>4
      <4> QED BY <1>6, <3>3, <4>1, <4>2 DEF Follows
    <3> HIDE DEF f
    <3> QED BY <3>2, <3>4, <3>5
  <2>3. n \in G
    <3> HIDE DEF G
    <3> QED BY <2>1, <2>2, NatSetInduction
  <2> QED BY <2>3
<1> HIDE DEF f
<1>7. Unrolled(f, X, base, step, n)
  BY <1>5, <1>6 DEF Unrolled
<1> QED BY <1>4, <1>7
=============================================================================

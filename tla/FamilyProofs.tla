---------------------------- MODULE FamilyProofs ----------------------------
(***************************************************************************)
(* Proofs about the two sketches that rest on a family of hash functions,  *)
(* MinHash and Bloom.  They hold for every set of sketches and hashes,     *)
(* every family and every set of received bodies.                          *)
(***************************************************************************)
EXTENDS MinHash, Bloom, FiniteSetTheorems, TLAPS

(* Signatures and counts stay in the unsigned 64-bit range.                *)
TypeOK ==
  /\ signature \in [Sketch -> [Index -> 0 .. MAX_UINT64]]
  /\ count \in [Sketch -> 0 .. MAX_UINT64]
  /\ seen \in [Sketch -> SUBSET Hash]
  /\ got \in [Sketch -> SUBSET Body]

(* A count of 0 means that nothing was added, received populated or merged *)
(* in; a sketch of its own making with nothing added has a count of 0.     *)
CountTells ==
  \A s \in Sketch :
    /\ count[s] = 0 => seen[s] = {} /\ \A b \in got[s] : b.signature = Empty
    /\ seen[s] = {} /\ got[s] = {} => count[s] = 0

IInv == TypeOK /\ SignatureExact /\ CountTells

-----------------------------------------------------------------------------
(* The values behind a sketch at one position, and what is least of them.  *)

Values(s, i) ==
  {MAX_UINT64} \cup {Family[i][h] : h \in seen[s]} \cup {b.signature[i] : b \in got[s]}

LEMMA ValuesAreNaturals ==
  ASSUME TypeOK, NEW s \in Sketch, NEW i \in Index
  PROVE  Values(s, i) \subseteq 0 .. MAX_UINT64
<1>1. \A h \in seen[s] : Family[i][h] \in 0 .. MAX_UINT64
  BY FamilyAssumption DEF TypeOK
<1>2. \A b \in got[s] : b.signature[i] \in 0 .. MAX_UINT64
  BY BodyAssumption DEF TypeOK
<1> QED BY <1>1, <1>2, CountAssumption DEF Values

-----------------------------------------------------------------------------

LEMMA InitIInv == Init => IInv
<1> SUFFICES ASSUME Init PROVE IInv
  OBVIOUS
<1>1. TypeOK
  BY CountAssumption DEF Init, TypeOK, Empty
<1>2. SignatureExact
  <2> SUFFICES ASSUME NEW s \in Sketch, NEW i \in Index
               PROVE  IsLeast(signature[s][i], s, i)
    BY DEF SignatureExact
  <2>1. signature[s][i] = MAX_UINT64 /\ seen[s] = {} /\ got[s] = {}
    BY DEF Init, Empty
  <2> QED BY <2>1, CountAssumption DEF IsLeast
<1>3. CountTells
  BY DEF Init, CountTells
<1> QED BY <1>1, <1>2, <1>3 DEF IInv

LEMMA AddKeepsIInv ==
  ASSUME IInv, NEW s \in Sketch, NEW h \in Hash, AddHash(s, h)
  PROVE  IInv'
<1>1. /\ signature' = [signature EXCEPT ![s] = Least(signature[s], ValuesOf(h))]
      /\ count' = [count EXCEPT ![s] = count[s] + 1] /\ count[s] # MAX_UINT64
      /\ seen' = [seen EXCEPT ![s] = seen[s] \cup {h}] /\ got' = got
      /\ TypeOK /\ SignatureExact /\ CountTells
  BY DEF IInv, AddHash
<1>2. ValuesOf(h) \in [Index -> 0 .. MAX_UINT64]
  BY FamilyAssumption DEF ValuesOf
<1>3. TypeOK'
  <2>1. Least(signature[s], ValuesOf(h)) \in [Index -> 0 .. MAX_UINT64]
    BY <1>1, <1>2 DEF TypeOK, Least, Smaller
  <2>2. count[s] + 1 \in 0 .. MAX_UINT64
    <3>1. count[s] \in 0 .. MAX_UINT64 /\ count[s] # MAX_UINT64
      BY <1>1 DEF TypeOK
    <3> QED BY <3>1, CountAssumption
  <2> QED BY <1>1, <2>1, <2>2 DEF TypeOK
<1>4. SignatureExact'
  <2> SUFFICES ASSUME NEW r \in Sketch, NEW i \in Index
               PROVE  IsLeast(signature[r][i], r, i)'
    BY DEF SignatureExact
  <2>1. CASE r # s
    BY <1>1, <2>1 DEF TypeOK, SignatureExact, IsLeast
  <2>2. CASE r = s
    <3>1. signature'[s][i] = Smaller(signature[s][i], Family[i][h])
      BY <1>1 DEF TypeOK, Least, ValuesOf
    <3>2. Values(s, i)' = Values(s, i) \cup {Family[i][h]}
      BY <1>1 DEF TypeOK, Values
    <3>3. /\ signature[s][i] \in Values(s, i)
          /\ \A v \in Values(s, i) : signature[s][i] <= v
      BY <1>1 DEF SignatureExact, IsLeast, Values
    <3>4. Values(s, i) \in SUBSET Nat /\ {Family[i][h]} \in SUBSET Nat
      BY <1>1, <1>2, ValuesAreNaturals DEF ValuesOf
    <3>5. /\ Smaller(signature[s][i], Family[i][h]) \in Values(s, i) \cup {Family[i][h]}
          /\ \A w \in Values(s, i) \cup {Family[i][h]} :
               Smaller(signature[s][i], Family[i][h]) <= w
      BY <3>3, <3>4 DEF Smaller
    <3> QED BY <2>2, <3>1, <3>2, <3>5 DEF IsLeast, Values
  <2> QED BY <2>1, <2>2
<1>5. CountTells'
  <2> SUFFICES ASSUME NEW r \in Sketch
               PROVE  /\ count'[r] = 0 => seen'[r] = {} /\ \A b \in got'[r] : b.signature = Empty
                      /\ seen'[r] = {} /\ got'[r] = {} => count'[r] = 0
    BY DEF CountTells, Empty
  <2>1. CASE r # s
    BY <1>1, <2>1 DEF TypeOK, CountTells
  <2>2. CASE r = s
    BY <1>1, <2>2, CountAssumption DEF TypeOK
  <2> QED BY <2>1, <2>2
<1> QED BY <1>3, <1>4, <1>5 DEF IInv

LEMMA MergeKeepsIInv ==
  ASSUME IInv, NEW s \in Sketch, NEW t \in Sketch, Merge(s, t)
  PROVE  IInv'
<1>1. /\ signature' = [signature EXCEPT ![s] = Least(signature[s], signature[t])]
      /\ count' = [count EXCEPT ![s] = (count[s] + count[t]) % (MAX_UINT64 + 1)]
      /\ count[s] <= MAX_UINT64 - count[t]
      /\ seen' = [seen EXCEPT ![s] = seen[s] \cup seen[t]]
      /\ got' = [got EXCEPT ![s] = got[s] \cup got[t]]
      /\ TypeOK /\ SignatureExact /\ CountTells
  BY DEF IInv, Merge, Mergeable
<1>2. /\ count[s] \in Nat /\ count[t] \in Nat /\ count[s] + count[t] \in 0 .. MAX_UINT64
      /\ (count[s] + count[t]) % (MAX_UINT64 + 1) = count[s] + count[t]
  <2>1. count[s] \in Nat /\ count[t] \in Nat /\ count[s] + count[t] \in 0 .. MAX_UINT64
    BY <1>1, CountAssumption DEF TypeOK
  <2>2. \A n, m \in Nat : n < m => n % m = n
    OBVIOUS
  <2>3. count[s] + count[t] \in Nat /\ MAX_UINT64 + 1 \in Nat
        /\ count[s] + count[t] < MAX_UINT64 + 1
    BY <2>1, CountAssumption
  <2>4. (count[s] + count[t]) % (MAX_UINT64 + 1) = count[s] + count[t]
    BY <2>2, <2>3
  <2> QED BY <2>1, <2>4
<1>3. TypeOK'
  <2>1. Least(signature[s], signature[t]) \in [Index -> 0 .. MAX_UINT64]
    BY <1>1 DEF TypeOK, Least, Smaller
  <2> QED BY <1>1, <1>2, <2>1 DEF TypeOK
<1>4. SignatureExact'
  <2> SUFFICES ASSUME NEW r \in Sketch, NEW i \in Index
               PROVE  IsLeast(signature[r][i], r, i)'
    BY DEF SignatureExact
  <2>1. CASE r # s
    BY <1>1, <2>1 DEF TypeOK, SignatureExact, IsLeast
  <2>2. CASE r = s
    <3>1. signature'[s][i] = Smaller(signature[s][i], signature[t][i])
      BY <1>1 DEF TypeOK, Least
    <3>2. Values(s, i)' = Values(s, i) \cup Values(t, i)
      BY <1>1 DEF TypeOK, Values
    <3>3. /\ signature[s][i] \in Values(s, i) /\ signature[t][i] \in Values(t, i)
          /\ \A v \in Values(s, i) : signature[s][i] <= v
          /\ \A v \in Values(t, i) : signature[t][i] <= v
      BY <1>1 DEF SignatureExact, IsLeast, Values
    <3>4. Values(s, i) \in SUBSET Nat /\ Values(t, i) \in SUBSET Nat
      BY <1>1, ValuesAreNaturals
    <3>5. /\ Smaller(signature[s][i], signature[t][i]) \in Values(s, i) \cup Values(t, i)
          /\ \A w \in Values(s, i) \cup Values(t, i) :
               Smaller(signature[s][i], signature[t][i]) <= w
      BY <3>3, <3>4 DEF Smaller
    <3> QED BY <2>2, <3>1, <3>2, <3>5 DEF IsLeast, Values
  <2> QED BY <2>1, <2>2
<1>5. CountTells'
  <2> SUFFICES ASSUME NEW r \in Sketch
               PROVE  /\ count'[r] = 0 => seen'[r] = {} /\ \A b \in got'[r] : b.signature = Empty
                      /\ seen'[r] = {} /\ got'[r] = {} => count'[r] = 0
    BY DEF CountTells, Empty
  <2>1. CASE r # s
    BY <1>1, <2>1 DEF TypeOK, CountTells
  <2>2. CASE r = s
    <3>1. /\ count'[s] = count[s] + count[t]
          /\ seen'[s] = seen[s] \cup seen[t] /\ got'[s] = got[s] \cup got[t]
      BY <1>1, <1>2 DEF TypeOK
    <3>2. count'[s] = 0 => count[s] = 0 /\ count[t] = 0
      BY <1>2, <3>1
    <3> QED BY <1>1, <1>2, <2>2, <3>1, <3>2 DEF CountTells
  <2> QED BY <2>1, <2>2
<1> QED BY <1>3, <1>4, <1>5 DEF IInv

LEMMA CloneKeepsIInv ==
  ASSUME IInv, NEW s \in Sketch, NEW t \in Sketch, Clone(s, t)
  PROVE  IInv'
<1> USE DEF IInv, Clone
<1>1. TypeOK'
  BY DEF TypeOK
<1>2. SignatureExact'
  BY DEF TypeOK, SignatureExact, IsLeast
<1>3. CountTells'
  BY DEF TypeOK, CountTells, Empty
<1> QED BY <1>1, <1>2, <1>3

LEMMA ReceiveKeepsIInv ==
  ASSUME IInv, NEW s \in Sketch, NEW body \in Body, Receive(s, body)
  PROVE  IInv'
<1> USE DEF IInv, Receive
<1>1. TypeOK'
  BY BodyAssumption DEF TypeOK
<1>2. SignatureExact'
  <2> SUFFICES ASSUME NEW r \in Sketch, NEW i \in Index
               PROVE  IsLeast(signature[r][i], r, i)'
    BY DEF SignatureExact
  <2>1. CASE r # s
    BY <2>1 DEF TypeOK, SignatureExact, IsLeast
  <2>2. CASE r = s
    <3>1. signature'[s][i] = body.signature[i] /\ seen'[s] = {} /\ got'[s] = {body}
      BY DEF TypeOK
    <3>2. body.signature[i] \in 0 .. MAX_UINT64
      BY BodyAssumption
    <3> QED BY <2>2, <3>1, <3>2, CountAssumption DEF IsLeast
  <2> QED BY <2>1, <2>2
<1>3. CountTells'
  BY DEF TypeOK, CountTells, Empty, WireAccepts
<1> QED BY <1>1, <1>2, <1>3

(* Each call preserves the inductive invariant, so it always holds.        *)
THEOREM Invariance == Spec => []IInv
<1>1. Init => IInv
  BY InitIInv
<1>2. IInv /\ [Next]_vars => IInv'
  <2> SUFFICES ASSUME IInv, [Next]_vars PROVE IInv'
    OBVIOUS
  <2>1. ASSUME NEW s \in Sketch, NEW h \in Hash, AddHash(s, h) PROVE IInv'
    BY <2>1, AddKeepsIInv
  <2>2. ASSUME NEW s \in Sketch, NEW t \in Sketch, Merge(s, t) PROVE IInv'
    BY <2>2, MergeKeepsIInv
  <2>3. ASSUME NEW s \in Sketch, NEW t \in Sketch, Clone(s, t) PROVE IInv'
    BY <2>3, CloneKeepsIInv
  <2>4. ASSUME NEW s \in Sketch, NEW body \in Body, Receive(s, body) PROVE IInv'
    BY <2>4, ReceiveKeepsIInv
  <2>5. ASSUME UNCHANGED vars PROVE IInv'
    BY <2>5 DEF vars, IInv, TypeOK, SignatureExact, IsLeast, CountTells, Empty
  <2> QED
    BY <2>1, <2>2, <2>3, <2>4, <2>5 DEF Next, AddRefused, MergeRefused
<1> QED BY <1>1, <1>2, PTL DEF Spec

(* A signature depends on what was added, not on the order of the calls.   *)
THEOREM SignatureCorrect == Spec => []SignatureExact
<1>1. IInv => SignatureExact
  BY DEF IInv
<1> QED BY <1>1, Invariance, PTL

(* The decoder accepts every sketch: a count of 0 means an unset signature.*)
THEOREM WireCorrect == Spec => []WireClosed
<1>1. IInv => WireClosed
  <2> SUFFICES ASSUME IInv, NEW s \in Sketch, count[s] = 0
               PROVE  signature[s] = Empty
    BY DEF WireClosed, WireAccepts
  <2>1. ASSUME NEW i \in Index PROVE signature[s][i] = MAX_UINT64
    <3>1. seen[s] = {} /\ \A b \in got[s] : b.signature[i] = MAX_UINT64
      BY DEF IInv, CountTells, Empty
    <3>2. signature[s][i] \in Values(s, i)
      BY DEF IInv, SignatureExact, IsLeast, Values
    <3> QED BY <3>1, <3>2 DEF Values
  <2> QED BY <2>1 DEF IInv, TypeOK, Empty
<1> QED BY <1>1, Invariance, PTL

(* The estimate counts the positions whose least hash of the union is in   *)
(* the intersection (jaccard_estimate), because the family is injective.   *)
THEOREM JaccardCorrect == Spec => []JaccardExact
<1>1. IInv => JaccardExact
  <2> SUFFICES ASSUME IInv, NEW s \in Sketch, NEW t \in Sketch, got[s] = {}, got[t] = {}
               PROVE  JaccardMatches(s, t) =
                        IF seen[s] = {} /\ seen[t] = {}
                          THEN Cardinality(Index)
                          ELSE Cardinality({i \in Index : LeastIsShared(i, seen[s], seen[t])})
    BY DEF JaccardExact
  <2>1. (count[s] = 0 <=> seen[s] = {}) /\ (count[t] = 0 <=> seen[t] = {})
    BY DEF IInv, CountTells
  <2>2. CASE count[s] = 0 /\ count[t] = 0
    BY <2>1, <2>2 DEF JaccardMatches
  <2>3. CASE (count[s] = 0) # (count[t] = 0)
    <3>1. {i \in Index : LeastIsShared(i, seen[s], seen[t])} = {}
      BY <2>1, <2>3 DEF LeastIsShared
    <3>2. JaccardMatches(s, t) = 0
      BY <2>3 DEF JaccardMatches
    <3> QED BY <2>1, <2>3, <3>1, <3>2, FS_EmptySet
  <2>4. CASE count[s] # 0 /\ count[t] # 0
    <3>1. ASSUME NEW r \in Sketch, got[r] = {}, seen[r] # {}, NEW i \in Index
          PROVE  /\ \A h \in seen[r] : signature[r][i] <= Family[i][h]
                 /\ \E h \in seen[r] : signature[r][i] = Family[i][h]
      <4>1. /\ signature[r][i] \in {MAX_UINT64} \cup {Family[i][h] : h \in seen[r]}
            /\ \A h \in seen[r] : signature[r][i] <= Family[i][h]
        BY <3>1 DEF IInv, SignatureExact, IsLeast
      <4>2. \A h \in seen[r] : Family[i][h] \in 0 .. MAX_UINT64
        BY FamilyAssumption DEF IInv, TypeOK
      <4>3. CASE signature[r][i] = MAX_UINT64
        BY <3>1, <4>1, <4>2, <4>3, CountAssumption
      <4> QED BY <4>1, <4>3
    <3>2. ASSUME NEW i \in Index
          PROVE  i \in Agreements(s, t) <=> LeastIsShared(i, seen[s], seen[t])
      <4> DEFINE F(h) == Family[i][h]
      <4>1. seen[s] \subseteq Hash /\ seen[t] \subseteq Hash /\ \A h \in Hash : F(h) \in Nat
        BY FamilyAssumption DEF IInv, TypeOK
      <4>2. PICK g \in seen[s] :
              signature[s][i] = F(g) /\ \A h \in seen[s] : F(g) <= F(h)
        BY <2>1, <2>4, <3>1
      <4>3. PICK k \in seen[t] :
              signature[t][i] = F(k) /\ \A h \in seen[t] : F(k) <= F(h)
        BY <2>1, <2>4, <3>1
      <4>4. ASSUME F(g) = F(k) PROVE LeastIsShared(i, seen[s], seen[t])
        <5>1. g = k
          BY <4>1, <4>4, FamilyAssumption
        <5> QED BY <4>2, <4>3, <5>1 DEF LeastIsShared
      <4>5. ASSUME LeastIsShared(i, seen[s], seen[t]) PROVE F(g) = F(k)
        <5>1. PICK h \in seen[s] \cap seen[t] : \A x \in seen[s] \cup seen[t] : F(h) <= F(x)
          BY <4>5 DEF LeastIsShared
        <5>2. F(h) <= F(g) /\ F(g) <= F(h) /\ F(h) <= F(k) /\ F(k) <= F(h)
          BY <4>2, <4>3, <5>1
        <5>3. F(h) \in Nat /\ F(g) \in Nat /\ F(k) \in Nat
          BY <4>1, <5>1
        <5> HIDE DEF F
        <5> QED BY <5>2, <5>3
      <4> QED BY <4>2, <4>3, <4>4, <4>5 DEF Agreements
    <3>3. Agreements(s, t) = {i \in Index : LeastIsShared(i, seen[s], seen[t])}
      BY <3>2 DEF Agreements
    <3>4. JaccardMatches(s, t) = Cardinality(Agreements(s, t))
      BY <2>4 DEF JaccardMatches
    <3> QED BY <2>1, <2>4, <3>3, <3>4
  <2> QED BY <2>2, <2>3, <2>4
<1> QED BY <1>1, Invariance, PTL

-----------------------------------------------------------------------------
(* The Bloom filter, over the same hashes and counts.                      *)

(* The variables are functions over the sketches, and counts stay in the   *)
(* unsigned 64-bit range.                                                  *)
BitsTypeOK ==
  /\ bitset \in [Sketch -> SUBSET UNION ({Location[h] : h \in Hash}
                                            \cup {b.bitset : b \in FilterBody})]
  /\ count \in [Sketch -> 0 .. MAX_UINT64]
  /\ seen \in [Sketch -> SUBSET Hash]
  /\ got \in [Sketch -> SUBSET FilterBody]

Covers == \A s \in Sketch : Cardinality(seen[s]) <= count[s]

BitsInv == BitsTypeOK /\ BitsetExact /\ Covers

-----------------------------------------------------------------------------

(* Adding to a set of hashes adds at most one to its size, and joining two *)
(* sets at most the sum: merges count a shared hash twice, never not at    *)
(* all.                                                                    *)
LEMMA JoinedSize ==
  ASSUME NEW S \in SUBSET Hash, NEW T \in SUBSET Hash
  PROVE  /\ Cardinality(S) \in Nat
         /\ Cardinality(S \cup T) <= Cardinality(S) + Cardinality(T)
<1>1. IsFiniteSet(S) /\ IsFiniteSet(T)
  BY HashAssumption, FS_Subset
<1>2. /\ Cardinality(S) \in Nat /\ Cardinality(T) \in Nat
      /\ Cardinality(S \cap T) \in Nat
  BY <1>1, FS_CardinalityType, FS_Intersection
<1>3. Cardinality(S \cup T) = Cardinality(S) + Cardinality(T) - Cardinality(S \cap T)
  BY <1>1, FS_Union
<1> QED BY <1>2, <1>3

LEMMA SingletonSize ==
  ASSUME NEW S \in SUBSET Hash, NEW h \in Hash
  PROVE  Cardinality(S \cup {h}) <= Cardinality(S) + 1
<1>1. Cardinality({h}) = 1
  BY FS_Singleton
<1> QED BY <1>1, JoinedSize

-----------------------------------------------------------------------------

LEMMA BitsInit == BloomInit => BitsInv
<1> SUFFICES ASSUME BloomInit PROVE BitsInv
  OBVIOUS
<1>1. BitsTypeOK
  BY CountAssumption DEF BloomInit, BitsTypeOK
<1>2. BitsetExact
  BY DEF BloomInit, BitsetExact
<1>3. Covers
  BY FS_EmptySet DEF BloomInit, Covers
<1> QED BY <1>1, <1>2, <1>3 DEF BitsInv

LEMMA AddKeepsBits ==
  ASSUME BitsInv, NEW s \in Sketch, NEW h \in Hash, BloomAddHash(s, h)
  PROVE  BitsInv'
<1> USE DEF BitsInv, BloomAddHash
<1>1. BitsTypeOK'
  BY CountAssumption DEF BitsTypeOK
<1>2. BitsetExact'
  <2> SUFFICES ASSUME NEW r \in Sketch
               PROVE  bitset'[r] = (UNION {Location[g] : g \in seen'[r]})
                                     \cup (UNION {b.bitset : b \in got'[r]})
    BY DEF BitsetExact
  <2>1. CASE r # s
    BY <2>1 DEF BitsTypeOK, BitsetExact
  <2>2. CASE r = s
    <3>1. (UNION {Location[g] : g \in seen[s] \cup {h}})
            = Location[h] \cup (UNION {Location[g] : g \in seen[s]})
      OBVIOUS
    <3>2. /\ bitset'[s] = bitset[s] \cup Location[h]
          /\ seen'[s] = seen[s] \cup {h} /\ got'[s] = got[s]
      BY DEF BitsTypeOK
    <3> QED BY <2>2, <3>1, <3>2 DEF BitsetExact
  <2> QED BY <2>1, <2>2
<1>3. Covers'
  <2> SUFFICES ASSUME NEW r \in Sketch PROVE Cardinality(seen'[r]) <= count'[r]
    BY DEF Covers
  <2>1. /\ seen[r] \in SUBSET Hash /\ seen'[r] = IF r = s THEN seen[s] \cup {h} ELSE seen[r]
        /\ count'[r] = IF r = s THEN count[s] + 1 ELSE count[r]
        /\ count[r] \in Nat /\ Cardinality(seen[r]) <= count[r]
    BY CountAssumption DEF BitsTypeOK, Covers
  <2>2. Cardinality(seen[r]) \in Nat /\ Cardinality(seen[r] \cup {h}) \in Nat
    BY <2>1, JoinedSize
  <2> QED BY <2>1, <2>2, SingletonSize
<1> QED BY <1>1, <1>2, <1>3

LEMMA MergeKeepsBits ==
  ASSUME BitsInv, NEW s \in Sketch, NEW t \in Sketch, BloomMerge(s, t)
  PROVE  BitsInv'
<1> USE DEF BitsInv, BloomMerge
<1>1. /\ count[s] \in Nat /\ count[t] \in Nat /\ count[s] + count[t] <= MAX_UINT64
      /\ (count[s] + count[t]) % (MAX_UINT64 + 1) = count[s] + count[t]
  <2>1. count[s] \in Nat /\ count[t] \in Nat /\ count[s] + count[t] <= MAX_UINT64
    BY CountAssumption DEF Mergeable, BitsTypeOK
  <2>2. \A n, m \in Nat : n < m => n % m = n
    OBVIOUS
  <2>3. count[s] + count[t] \in Nat /\ MAX_UINT64 + 1 \in Nat
        /\ count[s] + count[t] < MAX_UINT64 + 1
    BY <2>1, CountAssumption
  <2> HIDE DEF BitsInv, BloomMerge
  <2>4. (count[s] + count[t]) % (MAX_UINT64 + 1) = count[s] + count[t]
    BY <2>2, <2>3
  <2> QED BY <2>1, <2>4
<1>2. BitsTypeOK'
  BY <1>1, CountAssumption DEF BitsTypeOK, MergedBits
<1>3. BitsetExact'
  <2> SUFFICES ASSUME NEW r \in Sketch
               PROVE  bitset'[r] = (UNION {Location[g] : g \in seen'[r]})
                                     \cup (UNION {b.bitset : b \in got'[r]})
    BY DEF BitsetExact
  <2>1. CASE r # s
    BY <2>1 DEF BitsTypeOK, BitsetExact
  <2>2. CASE r = s
    <3>1. /\ bitset'[s] = bitset[s] \cup bitset[t]
          /\ seen'[s] = seen[s] \cup seen[t] /\ got'[s] = got[s] \cup got[t]
      BY DEF BitsTypeOK, MergedBits
    <3>2. (UNION {Location[g] : g \in seen[s] \cup seen[t]})
            = (UNION {Location[g] : g \in seen[s]}) \cup (UNION {Location[g] : g \in seen[t]})
      OBVIOUS
    <3>3. (UNION {b.bitset : b \in got[s] \cup got[t]})
            = (UNION {b.bitset : b \in got[s]}) \cup (UNION {b.bitset : b \in got[t]})
      OBVIOUS
    <3> QED BY <2>2, <3>1, <3>2, <3>3 DEF BitsetExact
  <2> QED BY <2>1, <2>2
<1>4. Covers'
  <2> SUFFICES ASSUME NEW r \in Sketch PROVE Cardinality(seen'[r]) <= count'[r]
    BY DEF Covers
  <2>1. CASE r # s
    BY <2>1 DEF BitsTypeOK, Covers
  <2>2. CASE r = s
    <3>1. /\ seen[s] \in SUBSET Hash /\ seen[t] \in SUBSET Hash
          /\ seen'[s] = seen[s] \cup seen[t] /\ count'[s] = count[s] + count[t]
          /\ Cardinality(seen[s]) <= count[s] /\ Cardinality(seen[t]) <= count[t]
      BY <1>1 DEF BitsTypeOK, Covers
    <3>2. /\ Cardinality(seen[s]) \in Nat /\ Cardinality(seen[t]) \in Nat
          /\ Cardinality(seen[s] \cup seen[t]) \in Nat
          /\ Cardinality(seen[s] \cup seen[t]) <= Cardinality(seen[s]) + Cardinality(seen[t])
      BY <3>1, JoinedSize
    <3> HIDE DEF BitsInv, BloomMerge
    <3>3. Cardinality(seen[s] \cup seen[t]) <= count[s] + count[t]
      BY <1>1, <3>1, <3>2
    <3>4. Cardinality(seen'[s]) <= count'[s]
      BY <3>1, <3>3
    <3> QED BY <2>2, <3>4
  <2> QED BY <2>1, <2>2
<1> QED BY <1>2, <1>3, <1>4

LEMMA CloneKeepsBits ==
  ASSUME BitsInv, NEW s \in Sketch, NEW t \in Sketch, BloomClone(s, t)
  PROVE  BitsInv'
<1> USE DEF BitsInv, BloomClone
<1>1. BitsTypeOK'
  BY DEF BitsTypeOK
<1>2. BitsetExact'
  BY DEF BitsTypeOK, BitsetExact
<1>3. Covers'
  BY DEF BitsTypeOK, Covers
<1> QED BY <1>1, <1>2, <1>3

LEMMA ReceiveKeepsBits ==
  ASSUME BitsInv, NEW s \in Sketch, NEW body \in FilterBody,
         BloomReceive(s, body)
  PROVE  BitsInv'
<1> USE DEF BitsInv, BloomReceive
<1>1. BitsTypeOK'
  BY FilterBodyAssumption DEF FilterBodyAssumption, BitsTypeOK
<1>2. BitsetExact'
  BY DEF BitsTypeOK, BitsetExact
<1>3. Covers'
  BY FS_EmptySet, FilterBodyAssumption DEF FilterBodyAssumption, BitsTypeOK, Covers
<1> QED BY <1>1, <1>2, <1>3

(* Each call preserves the inductive invariant, so it always holds.        *)
THEOREM BitsInvariance == BloomSpec => []BitsInv
<1>1. BloomInit => BitsInv
  BY BitsInit
<1>2. BitsInv /\ [BloomNext]_bloomVars => BitsInv'
  <2> SUFFICES ASSUME BitsInv, [BloomNext]_bloomVars PROVE BitsInv'
    OBVIOUS
  <2>1. ASSUME NEW s \in Sketch, NEW h \in Hash, BloomAddHash(s, h) PROVE BitsInv'
    BY <2>1, AddKeepsBits
  <2>2. ASSUME NEW s \in Sketch, NEW t \in Sketch, BloomMerge(s, t) PROVE BitsInv'
    BY <2>2, MergeKeepsBits
  <2>3. ASSUME NEW s \in Sketch, NEW t \in Sketch, BloomClone(s, t) PROVE BitsInv'
    BY <2>3, CloneKeepsBits
  <2>4. ASSUME NEW s \in Sketch, NEW body \in FilterBody, BloomReceive(s, body) PROVE BitsInv'
    BY <2>4, ReceiveKeepsBits
  <2>5. ASSUME UNCHANGED bloomVars PROVE BitsInv'
    BY <2>5 DEF bloomVars, BitsInv, BitsTypeOK, BitsetExact, Covers
  <2> QED
    BY <2>1, <2>2, <2>3, <2>4, <2>5 DEF BloomNext, BloomAddRefused, BloomMergeRefused
<1> QED BY <1>1, <1>2, PTL DEF BloomSpec

(* A hash inserted upstream is always found (may_contain_hash).            *)
THEOREM NoFalseNegativesCorrect == BloomSpec => []NoFalseNegatives
<1>1. BitsInv => NoFalseNegatives
  <2> SUFFICES ASSUME BitsInv, NEW s \in Sketch, NEW h \in seen[s]
               PROVE  Location[h] \subseteq bitset[s]
    BY DEF NoFalseNegatives, MayContainHash
  <2>1. bitset[s] = (UNION {Location[g] : g \in seen[s]}) \cup (UNION {b.bitset : b \in got[s]})
    BY DEF BitsInv, BitsetExact
  <2> QED BY <2>1
<1> QED BY <1>1, BitsInvariance, PTL

(* The bits depend on what was inserted, not on the order of the calls.    *)
THEOREM BitsetCorrect == BloomSpec => []BitsetExact
<1>1. BitsInv => BitsetExact
  BY DEF BitsInv
<1> QED BY <1>1, BitsInvariance, PTL

(* Counts stay in range and cover the different hashes inserted.           *)
THEOREM CountCorrect == BloomSpec => []CountCoversSeen
<1>1. BitsInv => CountCoversSeen
  BY DEF BitsInv, BitsTypeOK, Covers, CountCoversSeen
<1> QED BY <1>1, BitsInvariance, PTL
=============================================================================

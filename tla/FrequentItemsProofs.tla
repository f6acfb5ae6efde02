------------------------ MODULE FrequentItemsProofs ------------------------
(***************************************************************************)
(* Proofs about FrequentItems for every set of sketches, every finite set  *)
(* of keys, every map size and every integer range.                        *)
(***************************************************************************)
EXTENDS FrequentItems, SumTheorems, FiniteSetTheorems, WellFoundedInduction, TLAPS

USE DEF Amounts

(* No counter is at or below the shared error.                             *)
Fresh ==
  \A s \in Sketch : \A k \in Tracked(items[s]) : items[s][k] > maxError[s]

(* The interval of a key, with what a merge in progress has still to       *)
(* re-insert for it, contains the key's true weight.                       *)
Covered ==
  \A s \in Sketch \ failed : \A k \in Key :
    /\ LowerBound(items[s], maxError[s], k) + pending[s][k] <= truth[s][k]
    /\ truth[s][k] <= UpperBound(items[s], maxError[s], k) + pending[s][k]

(* No key weighs more than the stream.                                     *)
TruthBounded == \A s \in Sketch : \A k \in Key : truth[s][k] <= total[s]

IInv == TypeOK /\ Fresh /\ Covered /\ TruthBounded

-----------------------------------------------------------------------------
(* The least estimate: a nonempty set of naturals has a least element.     *)

LEMMA LessThanRelation ==
  OpToRel(<, Nat) = {p \in Nat \X Nat : p[1] < p[2]}
BY DEF OpToRel

LEMMA LeastEstimate ==
  ASSUME NEW it \in [Key -> Nat], Tracked(it) # {}
  PROVE  /\ MinEstimate(it) \in {it[k] : k \in Tracked(it)}
         /\ \A k \in Tracked(it) : MinEstimate(it) <= it[k]
<1> DEFINE E == {it[k] : k \in Tracked(it)}
<1>1. E \subseteq Nat /\ E # {}
  BY DEF Tracked
<1>2. PICK m \in E : \A y \in E : ~ (<<y, m>> \in OpToRel(<, Nat))
  BY <1>1, NatLessThanWellFounded, WFMin
<1>3. m \in Nat /\ \A y \in E : m <= y
  <2>1. ASSUME NEW y \in E, y < m PROVE FALSE
    <3>1. <<y, m>> \in {p \in Nat \X Nat : p[1] < p[2]}
      BY <1>1, <2>1
    <3> QED BY <3>1, <1>2, LessThanRelation
  <2> QED BY <1>1, <2>1
<1>4. \E n \in E : \A k \in Tracked(it) : n <= it[k]
  BY <1>3
<1> QED
  BY <1>4 DEF MinEstimate

(* A full map has a counter to take: MapSize is not zero.                  *)
LEMMA FullMapTracks ==
  ASSUME NEW it \in [Key -> Nat], ~ HasRoom(it)
  PROVE  Tracked(it) # {}
<1>1. SUFFICES ASSUME Tracked(it) = {} PROVE FALSE
  OBVIOUS
<1>2. Cardinality(Tracked(it)) = 0
  BY <1>1, FS_EmptySet
<1> QED
  BY <1>2, MapSizeAssumption DEF HasRoom

(* What pruning for a residual r takes: between nothing and r, and never   *)
(* so much that the error passes an estimate.                              *)
LEMMA ConsumedBounds ==
  ASSUME NEW it \in [Key -> Nat], NEW e \in Nat, NEW r \in Nat,
         Tracked(it) # {}, \A k \in Tracked(it) : it[k] > e
  PROVE  /\ Consumed(it, e, r) \in 0 .. r
         /\ \A k \in Tracked(it) : e + Consumed(it, e, r) <= it[k]
<1>1. /\ MinEstimate(it) \in {it[k] : k \in Tracked(it)}
      /\ \A k \in Tracked(it) : MinEstimate(it) <= it[k]
  BY LeastEstimate
<1>2. MinEstimate(it) \in Nat /\ MinEstimate(it) > e
  BY <1>1 DEF Tracked
<1>3. \A k \in Tracked(it) : it[k] \in Nat
  BY DEF Tracked
<1> QED
  BY <1>1, <1>2, <1>3 DEF Consumed

-----------------------------------------------------------------------------
(* The effect of adding one residual. *)

(* Only sketch s changes; it stays well-formed, failed or not.             *)
Touches(s) ==
  /\ items' \in [Sketch -> [Key -> Amounts]]
  /\ maxError' \in [Sketch -> Amounts]
  /\ failed' \in SUBSET Sketch
  /\ failed \subseteq failed'
  /\ \A t \in Sketch \ {s} : /\ items'[t] = items[t]
                             /\ maxError'[t] = maxError[t]
                             /\ t \in failed' <=> t \in failed
  /\ \A j \in Tracked(items'[s]) : items'[s][j] > maxError'[s]

(* The interval of every key can only widen; that of k also moves up by r. *)
Widens(s, k, r) ==
  \A j \in Key :
    /\ LowerBound(items'[s], maxError'[s], j)
         <= LowerBound(items[s], maxError[s], j) + (IF j = k THEN r ELSE 0)
    /\ UpperBound(items'[s], maxError'[s], j)
         >= UpperBound(items[s], maxError[s], j) + (IF j = k THEN r ELSE 0)

LEMMA StoreEffect ==
  ASSUME TypeOK, NEW s \in Sketch, NEW it \in [Key -> Amounts],
         NEW e \in Amounts, \A j \in Tracked(it) : it[j] > e,
         NEW k \in Key, NEW n \in Nat, n > e, Store(s, it, e, k, n)
  PROVE  /\ Touches(s)
         /\ s \notin failed' => /\ items'[s] = [it EXCEPT ![k] = n]
                               /\ maxError'[s] = e
<1>1. CASE n <= MaxInt
  <2>1. /\ maxError' = [maxError EXCEPT ![s] = e]
        /\ items' = [items EXCEPT ![s] = [it EXCEPT ![k] = n]]
        /\ failed' = failed
    BY <1>1 DEF Store
  <2>2. [it EXCEPT ![k] = n] \in [Key -> Amounts]
    BY <1>1
  <2> QED
    BY <2>1, <2>2 DEF Touches, TypeOK, Tracked
<1>2. CASE ~ (n <= MaxInt)
  BY <1>2 DEF Store, Touches, TypeOK
<1> QED
  BY <1>1, <1>2

LEMMA AddResidualEffect ==
  ASSUME TypeOK, Fresh, NEW s \in Sketch, NEW k \in Key,
         NEW r \in Amounts \ {0}, AddResidual(s, k, r)
  PROVE  Touches(s) /\ (s \notin failed' => Widens(s, k, r))
<1> DEFINE it == items[s]
           e  == maxError[s]
<1>1. /\ it \in [Key -> Amounts] /\ it \in [Key -> Nat]
      /\ e \in Amounts /\ e \in Nat /\ r \in Nat /\ r > 0
      /\ MaxInt \in Nat
  BY MaxIntAssumption DEF TypeOK
<1>2. \A j \in Tracked(it) : it[j] > e
  BY DEF Fresh
<1>3. CASE it[k] > 0 /\ Store(s, it, e, k, it[k] + r)
  <2>1. it[k] > e /\ it[k] + r \in Nat /\ it[k] + r > e
    BY <1>1, <1>2, <1>3 DEF Tracked
  <2>2. /\ Touches(s)
        /\ s \notin failed' => /\ items'[s] = [it EXCEPT ![k] = @ + r]
                              /\ maxError'[s] = e
    BY <1>1, <1>2, <1>3, <2>1, StoreEffect
  <2> QED
    BY <1>1, <2>1, <2>2 DEF Widens, LowerBound, UpperBound
<1>4. CASE it[k] = 0 /\ Store(s, it, e, k, e + r)
  <2>1. e + r \in Nat /\ e + r > e
    BY <1>1
  <2>2. /\ Touches(s)
        /\ s \notin failed' => /\ items'[s] = [it EXCEPT ![k] = e + r]
                              /\ maxError'[s] = e
    BY <1>1, <1>2, <1>4, <2>1, StoreEffect
  <2> QED
    BY <1>1, <1>4, <2>2 DEF Widens, LowerBound, UpperBound
<1>5. CASE it[k] = 0 /\ ~ HasRoom(it) /\ PruneAndStore(s, k, r)
  <2> DEFINE d    == Consumed(it, e, r)
             f    == e + d
             kept == Unexpired(it, f)
  <2>1. Tracked(it) # {}
    BY <1>1, <1>5, FullMapTracks
  <2>2. d \in 0 .. r /\ \A j \in Tracked(it) : f <= it[j]
    BY <1>1, <1>2, <2>1, ConsumedBounds
  <2>3. f \in Amounts /\ f \in Nat
    BY <1>1, <2>1, <2>2 DEF Tracked
  <2>4. /\ kept \in [Key -> Amounts]
        /\ \A j \in Tracked(kept) : kept[j] > f
    BY <1>1, <2>3 DEF Unexpired, Tracked
  <2>5. CASE d = r \/ ~ HasRoom(kept)
    <3>1. /\ items' = [items EXCEPT ![s] = kept]
          /\ maxError' = [maxError EXCEPT ![s] = f]
          /\ failed' \in {failed, failed \cup {s}}
          /\ s \notin failed' => d = r
      BY <1>5, <2>5 DEF PruneAndStore
    <3>2. Touches(s)
      BY <1>1, <2>3, <2>4, <3>1 DEF Touches, TypeOK
    <3>3. ASSUME s \notin failed', NEW j \in Key
          PROVE  /\ LowerBound(kept, f, j)
                      <= LowerBound(it, e, j) + (IF j = k THEN r ELSE 0)
                 /\ UpperBound(kept, f, j)
                      >= UpperBound(it, e, j) + (IF j = k THEN r ELSE 0)
      <4>1. f = e + r /\ (it[j] > 0 => f <= it[j])
        BY <2>2, <3>1, <3>3 DEF Tracked
      <4>2. kept[j] = IF it[j] > f THEN it[j] ELSE 0
        BY DEF Unexpired
      <4> QED
        BY <1>1, <1>5, <4>1, <4>2 DEF LowerBound, UpperBound
    <3>4. items'[s] = kept /\ maxError'[s] = f
      BY <3>1 DEF TypeOK
    <3> QED
      BY <3>2, <3>3, <3>4 DEF Widens
  <2>6. CASE d # r /\ HasRoom(kept)
    <3>1. Store(s, kept, f, k, f + (r - d))
      BY <1>5, <2>6 DEF PruneAndStore
    <3>2. f + (r - d) \in Nat /\ f + (r - d) > f /\ f + (r - d) = e + r
      BY <1>1, <2>2, <2>3, <2>6
    <3>3. /\ Touches(s)
          /\ s \notin failed' => /\ items'[s] = [kept EXCEPT ![k] = e + r]
                                /\ maxError'[s] = f
      BY <2>3, <2>4, <3>1, <3>2, StoreEffect
    <3>4. ASSUME NEW j \in Key
          PROVE  LET new == [kept EXCEPT ![k] = e + r]
                 IN /\ LowerBound(new, f, j)
                         <= LowerBound(it, e, j) + (IF j = k THEN r ELSE 0)
                    /\ UpperBound(new, f, j)
                         >= UpperBound(it, e, j) + (IF j = k THEN r ELSE 0)
      <4>1. d \in Nat /\ d <= r /\ f = e + d /\ (it[j] > 0 => f <= it[j])
        BY <2>2 DEF Tracked
      <4>2. kept[j] = IF it[j] > f THEN it[j] ELSE 0
        BY DEF Unexpired
      <4>3. CASE j = k
        BY <1>1, <1>5, <2>4, <4>1, <4>2, <4>3 DEF LowerBound, UpperBound
      <4>4. CASE j # k
        BY <1>1, <1>5, <2>4, <4>1, <4>2, <4>4 DEF LowerBound, UpperBound
      <4> QED
        BY <4>3, <4>4
    <3> QED
      BY <3>3, <3>4 DEF Widens
  <2> QED
    BY <2>5, <2>6
<1> QED
  BY <1>3, <1>4, <1>5 DEF AddResidual

-----------------------------------------------------------------------------
(* Type correctness and the bracket. *)

LEMMA InitInv == Init => IInv
<1> SUFFICES ASSUME Init PROVE IInv
  OBVIOUS
<1>1. None \in [Key -> Amounts] /\ None \in [Key -> Nat] /\ Tracked(None) = {}
  BY MaxIntAssumption DEF None, Tracked
<1>2. TypeOK
  BY <1>1, MaxIntAssumption DEF Init, TypeOK
<1> QED
  BY <1>1, <1>2 DEF Init, IInv, Fresh, Covered, TruthBounded, None,
                    LowerBound, UpperBound

(* add_hash: the whole weight goes to the key.                             *)
LEMMA AddHashInv ==
  ASSUME IInv, NEW s \in Sketch, NEW k \in Key, NEW w \in Weight,
         AddHash(s, k, w)
  PROVE  IInv'
<1>1. w \in Amounts \ {0} /\ total[s] + w \in Amounts
  BY MaxIntAssumption, WeightAssumption DEF AddHash, IInv, TypeOK
<1>2. Touches(s) /\ (s \notin failed' => Widens(s, k, w))
  BY <1>1, AddResidualEffect DEF AddHash, IInv
<1>3. /\ total' = [total EXCEPT ![s] = @ + w]
      /\ truth' = [truth EXCEPT ![s][k] = @ + w]
      /\ pending' = pending
  BY DEF AddHash
<1>4. TypeOK'
  BY <1>1, <1>2, <1>3 DEF IInv, TypeOK, Touches
<1>5. Fresh'
  BY <1>2 DEF IInv, Fresh, Touches
<1>6. Covered'
  <2> SUFFICES ASSUME NEW t \in Sketch \ failed', NEW j \in Key
               PROVE  /\ LowerBound(items'[t], maxError'[t], j) + pending'[t][j]
                            <= truth'[t][j]
                      /\ truth'[t][j]
                           <= UpperBound(items'[t], maxError'[t], j) + pending'[t][j]
    BY DEF Covered
  <2>1. t \notin failed
    BY <1>2 DEF Touches
  <2>2. CASE t = s
    <3> DEFINE a == IF j = k THEN w ELSE 0
    <3>1. /\ pending'[s][j] = pending[s][j]
          /\ truth'[s][j] = truth[s][j] + a
      BY <1>1, <1>3 DEF IInv, TypeOK
    <3>2. /\ LowerBound(items[s], maxError[s], j) + pending[s][j] <= truth[s][j]
          /\ truth[s][j] <= UpperBound(items[s], maxError[s], j) + pending[s][j]
      BY <2>1, <2>2 DEF IInv, Covered
    <3>3. /\ LowerBound(items'[s], maxError'[s], j)
               <= LowerBound(items[s], maxError[s], j) + a
          /\ UpperBound(items'[s], maxError'[s], j)
               >= UpperBound(items[s], maxError[s], j) + a
      BY <1>2, <2>2 DEF Widens
    <3> QED
      BY <1>1, <1>4, <2>2, <3>1, <3>2, <3>3
         DEF IInv, TypeOK, LowerBound, UpperBound
  <2>3. CASE t # s
    BY <1>2, <1>3, <2>1, <2>3 DEF IInv, TypeOK, Covered, Touches
  <2> QED
    BY <2>2, <2>3
<1>7. TruthBounded'
  BY <1>1, <1>3 DEF IInv, TypeOK, TruthBounded
<1> QED
  BY <1>4, <1>5, <1>6, <1>7 DEF IInv

(* merge up to the reset: the residuals carry both lower bounds, the sum   *)
(* of the errors both slacks, and neither sum saturates.                   *)
LEMMA MergeBeginInv ==
  ASSUME IInv, NEW s \in Sketch, NEW t \in Sketch, MergeBegin(s, t)
  PROVE  IInv'
<1>1. /\ pending'  = [pending EXCEPT ![s] = Combined(s, t)]
      /\ items'    = [items EXCEPT ![s] = None]
      /\ total'    = [total EXCEPT ![s] = total[s] + total[t]]
      /\ maxError' = [maxError EXCEPT ![s] = maxError[s] + maxError[t]]
      /\ truth'    = [truth EXCEPT ![s] = [k \in Key |-> truth[s][k] + truth[t][k]]]
      /\ failed'   = failed
      /\ s \notin failed /\ t \notin failed
      /\ pending[s] = None /\ pending[t] = None
      /\ total[s] <= MaxInt - total[t]
      /\ maxError[s] <= MaxInt - maxError[t]
  BY DEF MergeBegin, MergedTotal, MergedError, Usable, Idle, Mergeable
<1>2. None \in [Key -> Amounts]
  BY MaxIntAssumption DEF None
<1>3. Combined(s, t) \in [Key -> Amounts]
  BY MaxIntAssumption DEF Combined, Saturate, LowerBound, IInv, TypeOK
<1>4. TypeOK'
  BY <1>1, <1>2, <1>3, MaxIntAssumption DEF IInv, TypeOK
<1>5. Fresh'
  BY <1>1 DEF IInv, TypeOK, Fresh, Tracked, None
<1>6. ASSUME NEW k \in Key
      PROVE  /\ Combined(s, t)[k] <= truth[s][k] + truth[t][k]
             /\ truth[s][k] + truth[t][k]
                  <= (maxError[s] + maxError[t]) + Combined(s, t)[k]
  <2>1. /\ LowerBound(items[s], maxError[s], k) <= truth[s][k]
        /\ LowerBound(items[t], maxError[t], k) <= truth[t][k]
        /\ truth[s][k] <= UpperBound(items[s], maxError[s], k)
        /\ truth[t][k] <= UpperBound(items[t], maxError[t], k)
    BY <1>1 DEF IInv, Covered, None, TypeOK, LowerBound, UpperBound
  <2>2. truth[s][k] + truth[t][k] <= MaxInt
    BY <1>1, MaxIntAssumption DEF IInv, TypeOK, TruthBounded
  <2>3. Combined(s, t)[k] = LowerBound(items[s], maxError[s], k)
                              + LowerBound(items[t], maxError[t], k)
    BY <2>1, <2>2, MaxIntAssumption
       DEF Combined, Saturate, IInv, TypeOK, LowerBound
  <2> QED
    BY <2>1, <2>3 DEF IInv, TypeOK, LowerBound, UpperBound
<1>7. Covered'
  <2> SUFFICES ASSUME NEW u \in Sketch \ failed, NEW j \in Key
               PROVE  /\ LowerBound(items'[u], maxError'[u], j) + pending'[u][j]
                            <= truth'[u][j]
                      /\ truth'[u][j]
                           <= UpperBound(items'[u], maxError'[u], j) + pending'[u][j]
    BY <1>1 DEF Covered
  <2>1. CASE u = s
    BY <1>1, <1>2, <1>3, <1>4, <1>6, <2>1
       DEF IInv, TypeOK, None, LowerBound, UpperBound
  <2>2. CASE u # s
    BY <1>1, <2>2 DEF IInv, TypeOK, Covered
  <2> QED
    BY <2>1, <2>2
<1>8. TruthBounded'
  BY <1>1, MaxIntAssumption DEF IInv, TypeOK, TruthBounded
<1> QED
  BY <1>4, <1>5, <1>7, <1>8 DEF IInv

(* One residual re-inserted: it moves from pending to the interval.        *)
LEMMA MergeStepInv ==
  ASSUME IInv, NEW s \in Sketch, NEW k \in Key, MergeStep(s, k)
  PROVE  IInv'
<1> DEFINE r == pending[s][k]
<1>1. r \in Amounts \ {0}
  BY DEF MergeStep, IsNext, IInv, TypeOK
<1>2. Touches(s) /\ (s \notin failed' => Widens(s, k, r))
  BY <1>1, AddResidualEffect DEF MergeStep, IInv
<1>3. /\ total' = total /\ truth' = truth
      /\ pending' = [pending EXCEPT ![s] =
                       IF s \in failed' THEN None ELSE [@ EXCEPT ![k] = 0]]
  BY DEF MergeStep
<1>4. None \in [Key -> Amounts] /\ 0 \in Amounts
  BY MaxIntAssumption DEF None
<1>5. TypeOK'
  BY <1>2, <1>3, <1>4 DEF IInv, TypeOK, Touches
<1>6. Fresh'
  BY <1>2 DEF IInv, Fresh, Touches
<1>7. Covered'
  <2> SUFFICES ASSUME NEW t \in Sketch \ failed', NEW j \in Key
               PROVE  /\ LowerBound(items'[t], maxError'[t], j) + pending'[t][j]
                            <= truth'[t][j]
                      /\ truth'[t][j]
                           <= UpperBound(items'[t], maxError'[t], j) + pending'[t][j]
    BY DEF Covered
  <2>1. t \notin failed
    BY <1>2 DEF Touches
  <2>2. CASE t = s
    BY <1>1, <1>2, <1>3, <1>5, <2>1, <2>2
       DEF IInv, TypeOK, Covered, Widens, LowerBound, UpperBound
  <2>3. CASE t # s
    BY <1>2, <1>3, <2>1, <2>3 DEF IInv, TypeOK, Covered, Touches
  <2> QED
    BY <2>2, <2>3
<1>8. TruthBounded'
  BY <1>3 DEF IInv, TruthBounded
<1> QED
  BY <1>5, <1>6, <1>7, <1>8 DEF IInv

(* An instance replaced by a well-formed, truthful one.                    *)
LEMMA ReplaceInv ==
  ASSUME IInv, NEW t \in Sketch, pending[t] = None,
         NEW it \in [Key -> Amounts], NEW e \in Amounts,
         NEW n \in Amounts, NEW true \in [Key -> Nat],
         \A k \in Tracked(it) : it[k] > e,
         \A k \in Key : /\ true[k] <= n
                        /\ LowerBound(it, e, k) <= true[k]
                        /\ true[k] <= UpperBound(it, e, k),
         Replace(t, it, e, n, true)
  PROVE  IInv'
<1>1. TypeOK'
  BY DEF Replace, IInv, TypeOK
<1>2. Fresh'
  BY DEF Replace, IInv, TypeOK, Fresh
<1>3. Covered'
  BY DEF Replace, IInv, TypeOK, Covered, None, LowerBound, UpperBound
<1>4. TruthBounded'
  BY DEF Replace, IInv, TypeOK, TruthBounded
<1> QED
  BY <1>1, <1>2, <1>3, <1>4 DEF IInv

LEMMA CloneInv ==
  ASSUME IInv, NEW s \in Sketch, NEW t \in Sketch, Clone(s, t)
  PROVE  IInv'
<1>1. /\ pending[t] = None /\ pending[s] = None /\ s \notin failed
      /\ Replace(t, items[s], maxError[s], total[s], truth[s])
  BY DEF Clone, Usable, Idle
<1>2. /\ items[s] \in [Key -> Amounts] /\ maxError[s] \in Amounts
      /\ total[s] \in Amounts /\ truth[s] \in [Key -> Nat]
  BY DEF IInv, TypeOK
<1>3. \A k \in Key :
         /\ truth[s][k] <= total[s]
         /\ LowerBound(items[s], maxError[s], k) <= truth[s][k]
         /\ truth[s][k] <= UpperBound(items[s], maxError[s], k)
  BY <1>1, <1>2 DEF IInv, Covered, TruthBounded, None, LowerBound, UpperBound
<1> QED
  BY <1>1, <1>2, <1>3, ReplaceInv DEF IInv, Fresh

LEMMA ReceiveInv ==
  ASSUME IInv, NEW t \in Sketch, NEW body \in Received, Receive(t, body)
  PROVE  IInv'
<1>1. /\ pending[t] = None
      /\ Replace(t, body.items, body.maxError, body.total, body.truth)
      /\ \A k \in Tracked(body.items) : body.items[k] > body.maxError
  BY ReceivedAssumption DEF Receive, Idle, WireAccepts, Tracked
<1>2. /\ body.items \in [Key -> Amounts] /\ body.maxError \in Amounts
      /\ body.total \in Amounts /\ body.truth \in [Key -> Nat]
  BY ReceivedAssumption
<1>3. \A k \in Key :
         /\ body.truth[k] <= body.total
         /\ LowerBound(body.items, body.maxError, k) <= body.truth[k]
         /\ body.truth[k] <= UpperBound(body.items, body.maxError, k)
  BY <1>2, ReceivedAssumption DEF LowerBound, UpperBound
<1> QED
  BY <1>1, <1>2, <1>3, ReplaceInv

LEMMA NextInv == IInv /\ [Next]_vars => IInv'
<1> SUFFICES ASSUME IInv, [Next]_vars PROVE IInv'
  OBVIOUS
<1>1. CASE UNCHANGED vars
  BY <1>1 DEF vars, IInv, TypeOK, Fresh, Covered, TruthBounded
<1>2. CASE \E s \in Sketch, k \in Key, w \in Weight : AddHash(s, k, w)
  BY <1>2, AddHashInv
<1>3. CASE \E s \in Sketch, w \in Weight : AddRefused(s, w)
  BY <1>1, <1>3 DEF AddRefused
<1>4. CASE \E s, t \in Sketch : MergeBegin(s, t)
  BY <1>4, MergeBeginInv
<1>5. CASE \E s, t \in Sketch : MergeRefused(s, t)
  BY <1>1, <1>5 DEF MergeRefused
<1>6. CASE \E s \in Sketch, k \in Key : MergeStep(s, k)
  BY <1>6, MergeStepInv
<1>7. CASE \E s, t \in Sketch : Clone(s, t)
  BY <1>7, CloneInv
<1>8. CASE \E t \in Sketch, body \in Received : Receive(t, body)
  BY <1>8, ReceiveInv
<1> QED
  BY <1>1, <1>2, <1>3, <1>4, <1>5, <1>6, <1>7, <1>8 DEF Next

(* In every state the amounts are in range, and the intervals, widened by  *)
(* what a merge has still to re-insert, contain the weights.               *)
THEOREM Invariance == Spec => []IInv
BY InitInv, NextInv, PTL DEF Spec

(* No amount ever leaves the signed 64-bit range, the error included,      *)
(* although only some of the additions are checked for overflow.           *)
THEOREM TypeCorrect == Spec => []TypeOK
<1>1. IInv => TypeOK
  BY DEF IInv
<1> QED
  BY <1>1, Invariance, PTL

(* The interval a query returns always contains the true weight.           *)
THEOREM BracketCorrect == Spec => []Bracket
<1>1. IInv => Bracket
  BY DEF IInv, TypeOK, Covered, Bracket, Usable, Idle, None,
         LowerBound, UpperBound
<1> QED
  BY <1>1, Invariance, PTL

(* Both query modes return what their names promise.                       *)
THEOREM QueryModesCorrect == Spec => []QueryModes
<1>1. IInv => QueryModes
  <2> SUFFICES ASSUME IInv, NEW s \in Sketch, Usable(s), NEW k \in Key
               PROVE  /\ truth[s][k] > maxError[s] =>
                            k \in NoFalseNegatives(items[s], maxError[s])
                      /\ k \in NoFalsePositives(items[s], maxError[s]) =>
                            truth[s][k] > maxError[s]
    BY DEF QueryModes, NoFalsePositives, Tracked
  <2>1. /\ LowerBound(items[s], maxError[s], k) <= truth[s][k]
        /\ truth[s][k] <= UpperBound(items[s], maxError[s], k)
    BY DEF IInv, TypeOK, Covered, Usable, Idle, None, LowerBound, UpperBound
  <2> QED
    BY <2>1 DEF IInv, TypeOK, NoFalseNegatives, NoFalsePositives, Tracked,
                LowerBound, UpperBound
<1> QED
  BY <1>1, Invariance, PTL

-----------------------------------------------------------------------------
(* The bound of the counter map. *)

LEMMA TrackedFinite ==
  ASSUME NEW it \in [Key -> Nat]
  PROVE  IsFiniteSet(Tracked(it)) /\ Cardinality(Tracked(it)) \in Nat
<1>1. Tracked(it) \in SUBSET Key
  BY DEF Tracked
<1> QED
  BY <1>1, KeyAssumption, FS_Subset, FS_CardinalityType

(* Setting one counter tracks at most one key more.                        *)
LEMMA OneMoreTracked ==
  ASSUME NEW it \in [Key -> Nat], HasRoom(it), NEW k \in Key, NEW n \in Nat
  PROVE  Cardinality(Tracked([it EXCEPT ![k] = n])) <= MapSize
<1> DEFINE T == Tracked(it)
           U == Tracked([it EXCEPT ![k] = n])
<1>1. IsFiniteSet(T) /\ Cardinality(T) \in Nat /\ Cardinality(T) < MapSize
  BY TrackedFinite DEF HasRoom
<1>2. U \in SUBSET (T \cup {k})
  BY DEF Tracked
<1> HIDE DEF T, U
<1>3. /\ IsFiniteSet(T \cup {k})
      /\ Cardinality(T \cup {k}) \in Nat
      /\ Cardinality(T \cup {k}) <= Cardinality(T) + 1
  BY <1>1, FS_AddElement
<1>4. Cardinality(U) <= Cardinality(T \cup {k}) /\ Cardinality(U) \in Nat
  BY <1>2, <1>3, FS_Subset, FS_CardinalityType
<1> QED
  BY <1>1, <1>3, <1>4, MapSizeAssumption DEF U

LEMMA UnexpiredTracksFewer ==
  ASSUME NEW it \in [Key -> Nat], NEW f \in Nat
  PROVE  /\ Unexpired(it, f) \in [Key -> Nat]
         /\ Tracked(Unexpired(it, f)) = {k \in Tracked(it) : it[k] > f}
         /\ Cardinality(Tracked(Unexpired(it, f))) <= Cardinality(Tracked(it))
<1>1. /\ Unexpired(it, f) \in [Key -> Nat]
      /\ Tracked(Unexpired(it, f)) = {k \in Tracked(it) : it[k] > f}
  BY DEF Unexpired, Tracked
<1>2. Tracked(Unexpired(it, f)) \in SUBSET Tracked(it)
  BY <1>1
<1> QED
  BY <1>1, <1>2, TrackedFinite, FS_Subset

(* Pruning that leaves part of the residual over has removed the cheapest  *)
(* counter: the "no free counter" error of _add_residual is unreachable.   *)
LEMMA PruneFreesCounter ==
  ASSUME NEW it \in [Key -> Nat], NEW e \in Nat, NEW r \in Nat,
         ~ HasRoom(it), Cardinality(Tracked(it)) <= MapSize,
         Consumed(it, e, r) # r
  PROVE  HasRoom(Unexpired(it, e + Consumed(it, e, r)))
<1> DEFINE m    == MinEstimate(it)
           T    == Tracked(it)
           kept == Tracked(Unexpired(it, m))
<1>1. PICK j \in T : it[j] = m
  BY LeastEstimate, FullMapTracks
<1>2. m \in Nat /\ e + Consumed(it, e, r) = m
  BY <1>1 DEF Consumed, Tracked
<1>3. kept \in SUBSET (T \ {j})
  BY <1>1, <1>2, UnexpiredTracksFewer
<1>4. IsFiniteSet(T) /\ Cardinality(T) \in Nat
  BY TrackedFinite
<1>5. IsFiniteSet(T \ {j}) /\ Cardinality(T \ {j}) = Cardinality(T) - 1
  BY <1>1, <1>4, FS_RemoveElement
<1>6. Cardinality(kept) <= Cardinality(T) - 1 /\ Cardinality(kept) \in Nat
  BY <1>3, <1>5, FS_Subset, FS_CardinalityType
<1> QED
  BY <1>2, <1>4, <1>6, MapSizeAssumption DEF HasRoom

Capacity == \A s \in Sketch : Cardinality(Tracked(items[s])) <= MapSize

LEMMA AddResidualCapacity ==
  ASSUME IInv, Capacity, NEW s \in Sketch, NEW k \in Key,
         NEW r \in Amounts \ {0}, AddResidual(s, k, r)
  PROVE  Cardinality(Tracked(items'[s])) <= MapSize
<1> DEFINE it == items[s]
           e  == maxError[s]
<1>1. /\ it \in [Key -> Nat] /\ e \in Nat /\ r \in Nat
      /\ Cardinality(Tracked(it)) <= MapSize
      /\ Cardinality(Tracked(it)) \in Nat
  BY MaxIntAssumption, TrackedFinite DEF IInv, TypeOK, Capacity
<1>2. CASE it[k] > 0 /\ Store(s, it, e, k, it[k] + r)
  <2>1. Tracked([it EXCEPT ![k] = it[k] + r]) = Tracked(it)
    BY <1>1, <1>2 DEF Tracked
  <2>2. items'[s] \in {it, [it EXCEPT ![k] = it[k] + r]}
    BY <1>2 DEF Store, IInv, TypeOK
  <2> QED
    BY <1>1, <2>1, <2>2
<1>3. CASE HasRoom(it) /\ Store(s, it, e, k, e + r)
  <2>1. items'[s] \in {it, [it EXCEPT ![k] = e + r]}
    BY <1>3 DEF Store, IInv, TypeOK
  <2> QED
    BY <1>1, <1>3, <2>1, OneMoreTracked
<1>4. CASE ~ HasRoom(it) /\ PruneAndStore(s, k, r)
  <2> DEFINE d    == Consumed(it, e, r)
             f    == e + d
             kept == Unexpired(it, f)
  <2>1. Tracked(it) # {} /\ \A j \in Tracked(it) : it[j] > e
    BY <1>1, <1>4, FullMapTracks DEF IInv, Fresh
  <2>2. d \in 0 .. r /\ f \in Nat
    BY <1>1, <2>1, ConsumedBounds
  <2>3. /\ kept \in [Key -> Nat]
        /\ Cardinality(Tracked(kept)) \in Nat
        /\ Cardinality(Tracked(kept)) <= MapSize
    BY <1>1, <2>2, UnexpiredTracksFewer, TrackedFinite, MapSizeAssumption
  <2>4. CASE items'[s] = kept
    BY <2>3, <2>4
  <2>5. CASE d # r /\ items'[s] = [kept EXCEPT ![k] = f + (r - d)]
    <3>1. HasRoom(kept)
      BY <1>1, <1>4, <2>5, PruneFreesCounter
    <3>2. f + (r - d) \in Nat
      BY <1>1, <2>2
    <3> QED
      BY <2>3, <2>5, <3>1, <3>2, OneMoreTracked
  <2>6. items'[s] = kept \/ (d # r /\ items'[s] = [kept EXCEPT ![k] = f + (r - d)])
    BY <1>4 DEF PruneAndStore, Store, IInv, TypeOK
  <2> QED
    BY <2>4, <2>5, <2>6
<1> QED
  BY <1>2, <1>3, <1>4 DEF AddResidual

LEMMA NextCapacity == IInv /\ Capacity /\ [Next]_vars => Capacity'
<1> SUFFICES ASSUME IInv, Capacity, [Next]_vars, NEW u \in Sketch
             PROVE  Cardinality(Tracked(items'[u])) <= MapSize
  BY DEF Capacity
<1>1. CASE items'[u] = items[u]
  BY <1>1 DEF Capacity
<1>2. ASSUME NEW k \in Key, NEW w \in Weight, NEW s \in Sketch,
             AddHash(s, k, w)
      PROVE  Cardinality(Tracked(items'[u])) <= MapSize
  <2>1. w \in Amounts \ {0} /\ AddResidual(s, k, w)
    BY <1>2, MaxIntAssumption, WeightAssumption DEF AddHash, IInv, TypeOK
  <2>2. s # u => items'[u] = items[u]
    BY <2>1, AddResidualEffect DEF IInv, Touches
  <2> QED
    BY <1>1, <2>1, <2>2, AddResidualCapacity
<1>3. ASSUME NEW s \in Sketch, NEW k \in Key, MergeStep(s, k)
      PROVE  Cardinality(Tracked(items'[u])) <= MapSize
  <2>1. pending[s][k] \in Amounts \ {0} /\ AddResidual(s, k, pending[s][k])
    BY <1>3 DEF MergeStep, IsNext, IInv, TypeOK
  <2>2. s # u => items'[u] = items[u]
    BY <2>1, AddResidualEffect DEF IInv, Touches
  <2> QED
    BY <1>1, <2>1, <2>2, AddResidualCapacity
<1>4. ASSUME NEW s \in Sketch, NEW t \in Sketch, MergeBegin(s, t)
      PROVE  Cardinality(Tracked(items'[u])) <= MapSize
  <2>1. items'[u] \in {items[u], None}
    BY <1>4 DEF MergeBegin, IInv, TypeOK
  <2>2. Tracked(None) = {}
    BY DEF Tracked, None
  <2> QED
    BY <1>1, <2>1, <2>2, FS_EmptySet, MapSizeAssumption
<1>5. ASSUME NEW s \in Sketch, NEW t \in Sketch, Clone(s, t)
      PROVE  Cardinality(Tracked(items'[u])) <= MapSize
  BY <1>5 DEF Clone, Replace, Capacity, IInv, TypeOK
<1>6. ASSUME NEW t \in Sketch, NEW body \in Received, Receive(t, body)
      PROVE  Cardinality(Tracked(items'[u])) <= MapSize
  BY <1>6 DEF Receive, WireAccepts, Replace, Capacity, IInv, TypeOK
<1> QED
  BY <1>1, <1>2, <1>3, <1>4, <1>5, <1>6
     DEF Next, AddRefused, MergeRefused, vars

LEMMA InitCapacity == Init => Capacity
<1>1. Tracked(None) = {}
  BY DEF Tracked, None
<1> QED
  BY <1>1, FS_EmptySet, MapSizeAssumption DEF Init, Capacity

(* The counter map never outgrows the profile, and every counter in it is  *)
(* above the shared error, also in a half-finished or failed merge.        *)
THEOREM MapBoundedCorrect == Spec => []MapBounded
<1>1. IInv /\ Capacity => MapBounded
  BY DEF IInv, Fresh, Capacity, MapBounded
<1> QED
  BY <1>1, InitCapacity, Invariance, NextCapacity, PTL DEF Spec

-----------------------------------------------------------------------------
(* The accounts of a sketch: where the weight of the stream has gone.      *)

LEMMA FiniteKeys == IsFiniteSet(Key)
BY KeyAssumption

LEMMA RetainedSum ==
  ASSUME NEW it, NEW e
  PROVE  Retained(it, e) = SumFunctionOnSet([k \in Key |-> LowerBound(it, e, k)], Key)
BY DEF Retained, SumFunction

LEMMA RetainedBounds ==
  ASSUME NEW it \in [Key -> Nat], NEW e \in Nat
  PROVE  /\ Retained(it, e) \in Nat
         /\ \A k \in Key : LowerBound(it, e, k) <= Retained(it, e)
<1> DEFINE low == [k \in Key |-> LowerBound(it, e, k)]
<1>1. \A k \in Key : low[k] \in Nat
  BY DEF LowerBound
<1>2. /\ SumFunctionOnSet(low, Key) \in Nat
      /\ \A k \in Key : low[k] <= SumFunctionOnSet(low, Key)
  <2> HIDE DEF low
  <2> QED BY <1>1, FiniteKeys, SumNat
<1> QED
  BY <1>2, RetainedSum

LEMMA SumOfNaturals ==
  ASSUME NEW f \in [Key -> Nat]
  PROVE  /\ SumFunction(f) = SumFunctionOnSet(f, Key)
         /\ SumFunction(f) \in Nat
         /\ \A k \in Key : f[k] <= SumFunction(f)
<1>1. SumFunction(f) = SumFunctionOnSet(f, Key)
  BY DEF SumFunction
<1> QED
  BY <1>1, FiniteKeys, SumNat

LEMMA SumOfNone == SumFunction(None) = 0
<1>1. SumFunctionOnSet(None, Key) = 0
  BY FiniteKeys, SumZero DEF None
<1>2. SumFunction(None) = SumFunctionOnSet(None, Key)
  BY DEF SumFunction, None
<1> QED
  BY <1>1, <1>2

(* Only the value at k changes.                                            *)
LEMMA SumOfUpdate ==
  ASSUME NEW f \in [Key -> Nat], NEW k \in Key, NEW n \in Nat
  PROVE  SumFunction([f EXCEPT ![k] = n]) = SumFunction(f) - f[k] + n
<1> DEFINE g == [f EXCEPT ![k] = n]
<1>1. g \in [Key -> Nat] /\ g[k] = n
  OBVIOUS
<1>2. f \in [Key -> Int] /\ g \in [Key -> Int]
  OBVIOUS
<1>3. \A j \in Key \ {k} : f[j] = g[j]
  OBVIOUS
<1> HIDE DEF g
<1>4. SumFunctionOnSet(g, Key) = SumFunctionOnSet(f, Key) - f[k] + g[k]
  BY <1>2, <1>3, FiniteKeys, SumChange
<1>5. SumFunction(g) = SumFunction(f) - f[k] + n
  BY <1>1, <1>4, SumOfNaturals
<1> QED
  BY <1>5 DEF g

(* A counter takes r units more above the error: so does what is retained. *)
LEMMA RetainedStore ==
  ASSUME NEW it \in [Key -> Nat], NEW e \in Nat, NEW k \in Key, NEW r \in Nat
  PROVE  Retained([it EXCEPT ![k] = e + LowerBound(it, e, k) + r], e)
           = Retained(it, e) + r
<1> DEFINE low == [j \in Key |-> LowerBound(it, e, j)]
           new == [it EXCEPT ![k] = e + LowerBound(it, e, k) + r]
           lowNew == [j \in Key |-> LowerBound(new, e, j)]
<1>1. \A j \in Key : low[j] \in Nat
  BY DEF LowerBound
<1>2. low \in [Key -> Int] /\ lowNew \in [Key -> Int]
  <2>1. \A j \in Key : new[j] \in Nat
    BY <1>1
  <2> HIDE DEF new
  <2> QED BY <1>1, <2>1 DEF LowerBound
<1>3. /\ lowNew[k] = low[k] + r
      /\ \A j \in Key \ {k} : low[j] = lowNew[j]
  <2>1. lowNew[k] = low[k] + r
    BY <1>1 DEF LowerBound
  <2>2. \A j \in Key \ {k} : low[j] = lowNew[j]
    BY DEF LowerBound
  <2> QED BY <2>1, <2>2
<1>4. Retained(it, e) = SumFunctionOnSet(low, Key)
      /\ Retained(new, e) = SumFunctionOnSet(lowNew, Key)
      /\ Retained(it, e) \in Nat
  BY RetainedSum, RetainedBounds
<1> HIDE DEF low, lowNew, new
<1>5. SumFunctionOnSet(lowNew, Key) = SumFunctionOnSet(low, Key) - low[k] + lowNew[k]
  BY <1>2, <1>3, FiniteKeys, SumChange
<1>6. Retained(new, e) = Retained(it, e) + r
  BY <1>1, <1>3, <1>4, <1>5
<1> QED
  BY <1>6 DEF new

(* Pruning by d takes d from every counter.                                *)
LEMMA RetainedPrune ==
  ASSUME NEW it \in [Key -> Nat], NEW e \in Nat, NEW d \in Nat,
         \A j \in Tracked(it) : it[j] > e /\ e + d <= it[j]
  PROVE  Retained(it, e)
           = Retained(Unexpired(it, e + d), e + d) + d * Cardinality(Tracked(it))
<1> DEFINE T    == Tracked(it)
           kept == Unexpired(it, e + d)
           low  == [j \in Key |-> LowerBound(it, e, j)]
           less == [j \in Key |-> LowerBound(kept, e + d, j)]
           cut  == [j \in Key |-> IF j \in T THEN d ELSE 0]
<1>1. T \in SUBSET Key
  BY DEF Tracked
<1>2. \A j \in Key : less[j] \in Int /\ cut[j] \in Int /\ low[j] = less[j] + cut[j]
  BY DEF LowerBound, Unexpired, Tracked
<1>3. SumFunctionOnSet(cut, Key) = d * Cardinality(T)
  <2>1. d \in Int /\ \A j \in Key : cut[j] = IF j \in T THEN d ELSE 0
    OBVIOUS
  <2> HIDE DEF T, cut
  <2> QED BY <1>1, <2>1, FiniteKeys, SumOfPart
<1>4. SumFunctionOnSet(low, Key) = SumFunctionOnSet(less, Key) + SumFunctionOnSet(cut, Key)
  <2> HIDE DEF low, less, cut
  <2> QED BY <1>2, FiniteKeys, SumPlus
<1>5. Retained(it, e) = SumFunctionOnSet(low, Key)
      /\ Retained(kept, e + d) = SumFunctionOnSet(less, Key)
  BY RetainedSum
<1> QED
  BY <1>3, <1>4, <1>5

(* Where a sketch's weight is: in the error, which MapSize counters and    *)
(* the pruned residual paid for, in the counters, or still to be inserted. *)
Charged(it, e) == (MapSize + 1) * e + Retained(it, e)

LEMMA ChargedBounds ==
  ASSUME NEW it \in [Key -> Nat], NEW e \in Nat
  PROVE  Charged(it, e) \in Nat /\ e + Retained(it, e) <= Charged(it, e)
<1>1. Retained(it, e) \in Nat /\ MapSize * e \in Nat
  BY RetainedBounds, MapSizeAssumption
<1>2. (MapSize + 1) * e = MapSize * e + e
  BY MapSizeAssumption
<1> QED
  BY <1>1, <1>2 DEF Charged

(* Adding a residual that leaves the total representable never fails, and  *)
(* all of it is accounted for.                                             *)
LEMMA AddResidualAccounts ==
  ASSUME TypeOK, Fresh, Capacity, NEW s \in Sketch, NEW k \in Key,
         NEW r \in Amounts \ {0}, AddResidual(s, k, r),
         maxError[s] + Retained(items[s], maxError[s]) + r <= MaxInt
  PROVE  /\ failed' = failed
         /\ maxError'[s] >= maxError[s]
         /\ Charged(items'[s], maxError'[s]) = Charged(items[s], maxError[s]) + r
<1> DEFINE it == items[s]
           e  == maxError[s]
<1>1. /\ it \in [Key -> Nat] /\ e \in Nat /\ r \in Nat /\ r > 0
      /\ MaxInt \in Nat /\ MapSize \in Nat
  BY MaxIntAssumption, MapSizeAssumption DEF TypeOK
<1>2. \A j \in Tracked(it) : it[j] > e
  BY DEF Fresh
<1>3. Retained(it, e) \in Nat /\ LowerBound(it, e, k) <= Retained(it, e)
  BY <1>1, RetainedBounds
<1>4. ASSUME NEW n \in Nat, n = e + LowerBound(it, e, k) + r, Store(s, it, e, k, n)
      PROVE  /\ failed' = failed
             /\ maxError'[s] >= e
             /\ Charged(items'[s], maxError'[s]) = Charged(it, e) + r
  <2>1. n <= MaxInt
    BY <1>1, <1>3, <1>4 DEF LowerBound
  <2>2. /\ failed' = failed /\ maxError'[s] = e
        /\ items'[s] = [it EXCEPT ![k] = e + LowerBound(it, e, k) + r]
    BY <1>4, <2>1 DEF Store, TypeOK
  <2>3. Retained(items'[s], e) = Retained(it, e) + r
    BY <1>1, <2>2, RetainedStore
  <2> QED
    BY <1>1, <1>3, <2>2, <2>3 DEF Charged
<1>5. CASE it[k] > 0 /\ Store(s, it, e, k, it[k] + r)
  <2>1. it[k] + r \in Nat /\ it[k] + r = e + LowerBound(it, e, k) + r
    BY <1>1, <1>2, <1>5 DEF LowerBound, Tracked
  <2> QED
    BY <1>4, <1>5, <2>1
<1>6. CASE it[k] = 0 /\ Store(s, it, e, k, e + r)
  <2>1. e + r \in Nat /\ e + r = e + LowerBound(it, e, k) + r
    BY <1>1, <1>6 DEF LowerBound
  <2> QED
    BY <1>4, <1>6, <2>1
<1>7. CASE it[k] = 0 /\ ~ HasRoom(it) /\ PruneAndStore(s, k, r)
  <2> DEFINE d    == Consumed(it, e, r)
             f    == e + d
             kept == Unexpired(it, f)
  <2>1. d \in 0 .. r /\ d \in Nat /\ \A j \in Tracked(it) : f <= it[j]
    BY <1>1, <1>2, <1>7, FullMapTracks, ConsumedBounds
  <2>2. kept \in [Key -> Nat] /\ kept[k] = 0 /\ f \in Nat /\ f >= e
    BY <1>1, <1>7, <2>1 DEF Unexpired
  <2>3. Cardinality(Tracked(it)) = MapSize
    BY <1>1, <1>7, TrackedFinite DEF Capacity, HasRoom
  <2>4. Retained(it, e) = Retained(kept, f) + d * MapSize
    BY <1>1, <1>2, <2>1, <2>3, RetainedPrune
  <2>5. Retained(kept, f) \in Nat
    BY <2>2, RetainedBounds
  <2>6. Charged(kept, f) + (r - d) = Charged(it, e) + r
    <3>1. (MapSize + 1) * f = (MapSize + 1) * e + d * MapSize + d
      <4>1. \A a, b, c \in Nat : (a + 1) * (b + c) = (a + 1) * b + c * a + c
        OBVIOUS
      <4> HIDE DEF d
      <4> QED BY <1>1, <2>1, <4>1
    <3>2. (MapSize + 1) * e \in Nat /\ d * MapSize \in Nat
      BY <1>1, <2>1
    <3> HIDE DEF d, f, kept
    <3> QED BY <1>1, <1>3, <2>1, <2>4, <2>5, <3>1, <3>2 DEF Charged
  <2>7. CASE d = r
    <3>1. items'[s] = kept /\ maxError'[s] = f /\ failed' = failed
      BY <1>7, <2>7 DEF PruneAndStore, TypeOK
    <3> HIDE DEF d, f, kept
    <3>2. Charged(kept, f) \in Nat
      BY <2>2, ChargedBounds
    <3> QED BY <1>1, <2>2, <2>6, <2>7, <3>1, <3>2
  <2>8. CASE d # r
    <3>1. HasRoom(kept)
      BY <1>1, <1>7, <2>8, PruneFreesCounter DEF Capacity
    <3>2. Store(s, kept, f, k, f + (r - d))
      BY <1>7, <2>8, <3>1 DEF PruneAndStore
    <3>3. f + (r - d) = e + r /\ r - d \in Nat
      BY <1>1, <2>1
    <3>4. e + r <= MaxInt
      BY <1>1, <1>3
    <3>5. failed' = failed /\ maxError'[s] = f /\ items'[s] = [kept EXCEPT ![k] = f + (r - d)]
      BY <3>2, <3>3, <3>4 DEF Store, TypeOK
    <3>6. f + (r - d) = f + LowerBound(kept, f, k) + (r - d)
      BY <2>2, <3>3 DEF LowerBound
    <3> HIDE DEF d, f, kept
    <3>7. Retained(items'[s], f) = Retained(kept, f) + (r - d)
      <4>1. items'[s] = [kept EXCEPT ![k] = f + LowerBound(kept, f, k) + (r - d)]
        BY <3>5, <3>6
      <4>2. Retained(items'[s], f) = Retained([kept EXCEPT ![k] = f + LowerBound(kept, f, k) + (r - d)], f)
        BY <4>1
      <4> QED BY <2>2, <3>3, <4>2, RetainedStore
    <3>8. (MapSize + 1) * f \in Nat
      BY <1>1, <2>2
    <3>9. Charged(items'[s], maxError'[s]) = Charged(kept, f) + (r - d)
      BY <2>5, <3>3, <3>5, <3>7, <3>8 DEF Charged
    <3> QED BY <2>2, <2>6, <3>5, <3>9
  <2> QED
    BY <2>7, <2>8
<1> QED
  BY <1>5, <1>6, <1>7 DEF AddResidual

(* What honest producers send: bodies whose total is the weight behind     *)
(* them and whose error stayed within the Misra-Gries bound, as a sketch   *)
(* of either language writes them.  The decoder checks neither.            *)
ReceivedWithinBound ==
  \A body \in Received :
    /\ Charged(body.items, body.maxError) <= body.total
    /\ body.total = SumFunction(body.truth)

(* Every unit of the stream is accounted for; while the error is zero,     *)
(* none has been charged to it.                                            *)
Accounted(s) ==
  LET spent == Charged(items[s], maxError[s]) + SumFunction(pending[s])
  IN /\ total[s] = SumFunction(truth[s])
     /\ spent <= total[s]
     /\ maxError[s] = 0 => spent = total[s]

Ledger == failed = {} /\ \A s \in Sketch : Accounted(s)

AInv == IInv /\ Capacity /\ Ledger

LEMMA EmptyAccounts ==
  ASSUME NEW e \in Nat
  PROVE  Charged(None, e) = (MapSize + 1) * e
<1> DEFINE low == [k \in Key |-> LowerBound(None, e, k)]
<1>1. \A k \in Key : low[k] = 0
  BY DEF LowerBound, None
<1>2. SumFunctionOnSet(low, Key) = 0
  BY <1>1, FiniteKeys, SumZero
<1>3. (MapSize + 1) * e \in Nat
  BY MapSizeAssumption
<1> QED
  BY <1>2, <1>3, RetainedSum DEF Charged

LEMMA InitLedger == Init => Ledger
<1> SUFFICES ASSUME Init, NEW s \in Sketch PROVE Accounted(s)
  BY DEF Init, Ledger
<1>1. Charged(None, 0) = 0
  BY EmptyAccounts, MapSizeAssumption
<1> QED
  BY <1>1, SumOfNone DEF Init, Accounted

(* What both sides of a merge retain is what the merge re-inserts.         *)
LEMMA CombinedSum ==
  ASSUME IInv, NEW s \in Sketch, NEW t \in Sketch, MergeBegin(s, t)
  PROVE  SumFunction(Combined(s, t))
           = Retained(items[s], maxError[s]) + Retained(items[t], maxError[t])
<1> DEFINE f == [k \in Key |-> LowerBound(items[s], maxError[s], k)]
           g == [k \in Key |-> LowerBound(items[t], maxError[t], k)]
           h == Combined(s, t)
<1>1. /\ s \notin failed /\ pending[s] = None
      /\ t \notin failed /\ pending[t] = None
      /\ total[s] <= MaxInt - total[t]
  BY DEF MergeBegin, Usable, Idle, Mergeable
<1>2. ASSUME NEW k \in Key
      PROVE  f[k] \in Int /\ g[k] \in Int /\ h[k] = f[k] + g[k]
  <2>1. f[k] \in Nat /\ g[k] \in Nat
    BY DEF IInv, TypeOK, LowerBound
  <2>2. f[k] <= total[s] /\ g[k] <= total[t]
    <3>1. f[k] <= truth[s][k] /\ g[k] <= truth[t][k]
      BY <1>1 DEF IInv, TypeOK, Covered, None, LowerBound
    <3>2. truth[s][k] <= total[s] /\ truth[t][k] <= total[t]
      BY DEF IInv, TruthBounded
    <3>3. /\ total[s] \in Nat /\ total[t] \in Nat
          /\ truth[s][k] \in Nat /\ truth[t][k] \in Nat
      BY DEF IInv, TypeOK
    <3> HIDE DEF f, g
    <3> QED BY <2>1, <3>1, <3>2, <3>3
  <2>3. h[k] = Saturate(f[k] + g[k])
    BY DEF Combined
  <2>4. total[s] \in Nat /\ total[t] \in Nat /\ MaxInt \in Nat
    BY MaxIntAssumption DEF IInv, TypeOK
  <2> HIDE DEF f, g, h
  <2>5. f[k] + g[k] <= MaxInt
    BY <1>1, <2>1, <2>2, <2>4
  <2> QED BY <2>1, <2>3, <2>4, <2>5 DEF Saturate
<1>3. SumFunctionOnSet(h, Key) = SumFunctionOnSet(f, Key) + SumFunctionOnSet(g, Key)
  <2> HIDE DEF f, g, h
  <2> QED BY <1>2, FiniteKeys, SumPlus
<1>4. SumFunction(Combined(s, t)) = SumFunctionOnSet(h, Key)
  BY DEF SumFunction, Combined
<1> QED
  BY <1>3, <1>4, RetainedSum

LEMMA AddHashAccounts ==
  ASSUME AInv, NEW s \in Sketch, NEW k \in Key, NEW w \in Weight, AddHash(s, k, w)
  PROVE  Ledger'
<1> DEFINE it == items[s]
           e  == maxError[s]
<1>1. /\ w \in Amounts \ {0} /\ w \in Nat /\ total[s] \in Nat
      /\ total[s] + w <= MaxInt /\ MaxInt \in Nat
      /\ it \in [Key -> Nat] /\ e \in Nat
  BY MaxIntAssumption, WeightAssumption DEF AddHash, AInv, IInv, TypeOK
<1>2. /\ AddResidual(s, k, w) /\ pending' = pending /\ pending[s] = None
      /\ total' = [total EXCEPT ![s] = @ + w]
      /\ truth' = [truth EXCEPT ![s][k] = @ + w]
  BY DEF AddHash, Usable, Idle
<1>3. Touches(s)
  BY <1>1, <1>2, AddResidualEffect DEF AInv, IInv
<1>4. Accounted(s) /\ failed = {}
  BY DEF AInv, Ledger
<1>5. Charged(it, e) \in Nat /\ e + Retained(it, e) <= Charged(it, e)
  BY <1>1, ChargedBounds
<1>6. Charged(it, e) <= total[s]
  BY <1>2, <1>4, <1>5, SumOfNone DEF Accounted
<1>7. Retained(it, e) \in Nat
  BY <1>1, RetainedBounds
<1>8. /\ failed' = failed
      /\ maxError'[s] >= e
      /\ Charged(items'[s], maxError'[s]) = Charged(it, e) + w
  <2>1. e + Retained(it, e) + w <= MaxInt
    BY <1>1, <1>5, <1>6, <1>7
  <2> QED BY <1>1, <1>2, <2>1, AddResidualAccounts DEF AInv, IInv
<1>9. Accounted(s)'
  <2>1. SumFunction(truth'[s]) = SumFunction(truth[s]) + w
    <3>1. truth[s] \in [Key -> Nat] /\ truth[s][k] + w \in Nat /\ truth[s][k] \in Nat
      BY <1>1 DEF AInv, IInv, TypeOK
    <3>2. truth'[s] = [truth[s] EXCEPT ![k] = truth[s][k] + w]
      BY <1>2 DEF AInv, IInv, TypeOK
    <3>3. SumFunction([truth[s] EXCEPT ![k] = truth[s][k] + w])
            = SumFunction(truth[s]) - truth[s][k] + (truth[s][k] + w)
      BY <3>1, SumOfUpdate
    <3>4. SumFunction(truth[s]) \in Nat
      BY <3>1, SumOfNaturals
    <3> QED BY <1>1, <3>1, <3>2, <3>3, <3>4
  <2>2. total'[s] = total[s] + w /\ pending'[s] = None
    BY <1>2 DEF AInv, IInv, TypeOK
  <2>3. maxError'[s] \in Nat
    BY <1>3 DEF Touches
  <2> QED
    BY <1>1, <1>2, <1>4, <1>5, <1>6, <1>8, <2>1, <2>2, <2>3, SumOfNone DEF Accounted
<1>10. ASSUME NEW u \in Sketch \ {s} PROVE Accounted(u)'
  <2>1. /\ items'[u] = items[u] /\ maxError'[u] = maxError[u]
        /\ total'[u] = total[u] /\ truth'[u] = truth[u] /\ pending'[u] = pending[u]
    BY <1>2, <1>3 DEF Touches, AInv, IInv, TypeOK
  <2>2. Accounted(u)
    BY DEF AInv, Ledger
  <2> QED BY <2>1, <2>2 DEF Accounted
<1> QED
  BY <1>4, <1>8, <1>9, <1>10 DEF Ledger

LEMMA MergeBeginAccounts ==
  ASSUME AInv, NEW s \in Sketch, NEW t \in Sketch, MergeBegin(s, t)
  PROVE  Ledger'
<1>1. /\ pending'  = [pending EXCEPT ![s] = Combined(s, t)]
      /\ items'    = [items EXCEPT ![s] = None]
      /\ total'    = [total EXCEPT ![s] = total[s] + total[t]]
      /\ maxError' = [maxError EXCEPT ![s] = maxError[s] + maxError[t]]
      /\ truth'    = [truth EXCEPT ![s] = [k \in Key |-> truth[s][k] + truth[t][k]]]
      /\ failed'   = failed
      /\ pending[s] = None /\ pending[t] = None
  BY DEF MergeBegin, MergedTotal, MergedError, Usable, Idle
<1>2. Accounted(s) /\ Accounted(t) /\ failed = {}
  BY DEF AInv, Ledger
<1>3. /\ items[s] \in [Key -> Nat] /\ maxError[s] \in Nat /\ total[s] \in Nat
      /\ items[t] \in [Key -> Nat] /\ maxError[t] \in Nat /\ total[t] \in Nat
      /\ truth[s] \in [Key -> Nat] /\ truth[t] \in [Key -> Nat]
      /\ MapSize \in Nat
  BY MapSizeAssumption DEF AInv, IInv, TypeOK
<1>4. Accounted(s)'
  <2> DEFINE both == [k \in Key |-> truth[s][k] + truth[t][k]]
             a    == maxError[s]
             b    == maxError[t]
             retS == Retained(items[s], a)
             retT == Retained(items[t], b)
  <2>1. /\ items'[s] = None /\ maxError'[s] = a + b
        /\ total'[s] = total[s] + total[t]
        /\ truth'[s] = both /\ pending'[s] = Combined(s, t)
    BY <1>1 DEF AInv, IInv, TypeOK
  <2>2. SumFunction(both) = SumFunction(truth[s]) + SumFunction(truth[t])
    <3>1. both \in [Key -> Nat]
      BY <1>3
    <3>2. \A k \in Key : /\ truth[s][k] \in Int /\ truth[t][k] \in Int
                         /\ both[k] = truth[s][k] + truth[t][k]
      BY <1>3
    <3> HIDE DEF both
    <3>3. SumFunctionOnSet(both, Key)
            = SumFunctionOnSet(truth[s], Key) + SumFunctionOnSet(truth[t], Key)
      BY <3>2, FiniteKeys, SumPlus
    <3> QED BY <1>3, <3>1, <3>3, SumOfNaturals
  <2>3. SumFunction(Combined(s, t)) = retS + retT
    BY CombinedSum DEF AInv
  <2>4. Charged(None, a + b) = (MapSize + 1) * a + (MapSize + 1) * b
    <3>1. Charged(None, a + b) = (MapSize + 1) * (a + b)
      <4>1. a + b \in Nat
        BY <1>3
      <4> HIDE DEF a, b
      <4> QED BY <4>1, EmptyAccounts
    <3>2. (MapSize + 1) * (a + b) = (MapSize + 1) * a + (MapSize + 1) * b
      BY <1>3
    <3> QED BY <3>1, <3>2
  <2>5. retS \in Nat /\ retT \in Nat
    BY <1>3, RetainedBounds
  <2>6. (MapSize + 1) * a \in Nat /\ (MapSize + 1) * b \in Nat
    BY <1>3
  <2>7. /\ total[s] = SumFunction(truth[s]) /\ total[t] = SumFunction(truth[t])
        /\ (MapSize + 1) * a + retS <= total[s]
        /\ (MapSize + 1) * b + retT <= total[t]
        /\ a = 0 => (MapSize + 1) * a + retS = total[s]
        /\ b = 0 => (MapSize + 1) * b + retT = total[t]
    BY <1>1, <1>2, <2>5, <2>6, SumOfNone DEF Accounted, Charged
  <2>8. a \in Nat /\ b \in Nat
    BY <1>3
  <2> HIDE DEF both, a, b, retS, retT
  <2>9. /\ (MapSize + 1) * a + (MapSize + 1) * b + (retS + retT) <= total[s] + total[t]
        /\ a + b = 0 => (MapSize + 1) * a + (MapSize + 1) * b + (retS + retT)
                          = total[s] + total[t]
    BY <1>3, <2>5, <2>6, <2>7, <2>8
  <2> QED
    BY <2>1, <2>2, <2>3, <2>4, <2>7, <2>9 DEF Accounted
<1>5. ASSUME NEW u \in Sketch \ {s} PROVE Accounted(u)'
  <2>1. /\ items'[u] = items[u] /\ maxError'[u] = maxError[u]
        /\ total'[u] = total[u] /\ truth'[u] = truth[u] /\ pending'[u] = pending[u]
    BY <1>1 DEF AInv, IInv, TypeOK
  <2>2. Accounted(u)
    BY DEF AInv, Ledger
  <2> QED BY <2>1, <2>2 DEF Accounted
<1> QED
  BY <1>1, <1>2, <1>4, <1>5 DEF Ledger

LEMMA MergeStepAccounts ==
  ASSUME AInv, NEW s \in Sketch, NEW k \in Key, MergeStep(s, k)
  PROVE  Ledger'
<1> DEFINE it == items[s]
           e  == maxError[s]
           r  == pending[s][k]
<1>1. /\ r \in Amounts \ {0} /\ r \in Nat /\ total[s] \in Nat
      /\ total[s] <= MaxInt /\ MaxInt \in Nat
      /\ it \in [Key -> Nat] /\ e \in Nat /\ pending[s] \in [Key -> Nat]
  BY MaxIntAssumption DEF MergeStep, IsNext, AInv, IInv, TypeOK
<1>2. /\ AddResidual(s, k, r) /\ total' = total /\ truth' = truth
      /\ pending' = [pending EXCEPT ![s] =
                       IF s \in failed' THEN None ELSE [@ EXCEPT ![k] = 0]]
  BY DEF MergeStep
<1>3. Touches(s)
  BY <1>1, <1>2, AddResidualEffect DEF AInv, IInv
<1>4. Accounted(s) /\ failed = {}
  BY DEF AInv, Ledger
<1>5. Charged(it, e) \in Nat /\ e + Retained(it, e) <= Charged(it, e)
  BY <1>1, ChargedBounds
<1>6. SumFunction(pending[s]) \in Nat /\ r <= SumFunction(pending[s])
  BY <1>1, SumOfNaturals
<1>7. Retained(it, e) \in Nat
  BY <1>1, RetainedBounds
<1>8. Charged(it, e) + SumFunction(pending[s]) <= total[s]
  BY <1>4 DEF Accounted
<1>9. /\ failed' = failed
      /\ maxError'[s] >= e
      /\ Charged(items'[s], maxError'[s]) = Charged(it, e) + r
  <2>1. e + Retained(it, e) + r <= MaxInt
    BY <1>1, <1>5, <1>6, <1>7, <1>8
  <2> QED BY <1>1, <1>2, <2>1, AddResidualAccounts DEF AInv, IInv
<1>10. Accounted(s)'
  <2>1. pending'[s] = [pending[s] EXCEPT ![k] = 0]
    BY <1>2, <1>4, <1>9 DEF AInv, IInv, TypeOK
  <2>2. SumFunction(pending'[s]) = SumFunction(pending[s]) - r + 0
    BY <1>1, <2>1, SumOfUpdate
  <2>3. maxError'[s] \in Nat
    BY <1>3 DEF Touches
  <2>4. Charged(items'[s], maxError'[s]) + SumFunction(pending'[s])
          = Charged(it, e) + SumFunction(pending[s])
    BY <1>1, <1>5, <1>6, <1>9, <2>2
  <2> QED
    BY <1>1, <1>2, <1>4, <1>9, <2>3, <2>4 DEF Accounted
<1>11. ASSUME NEW u \in Sketch \ {s} PROVE Accounted(u)'
  <2>1. /\ items'[u] = items[u] /\ maxError'[u] = maxError[u]
        /\ total'[u] = total[u] /\ truth'[u] = truth[u] /\ pending'[u] = pending[u]
    BY <1>2, <1>3 DEF Touches, AInv, IInv, TypeOK
  <2>2. Accounted(u)
    BY DEF AInv, Ledger
  <2> QED BY <2>1, <2>2 DEF Accounted
<1> QED
  BY <1>4, <1>9, <1>10, <1>11 DEF Ledger

(* An instance replaced by one that is accounted for.                      *)
LEMMA ReplaceAccounts ==
  ASSUME AInv, NEW t \in Sketch, pending[t] = None,
         NEW it, NEW e, NEW n, NEW true, Replace(t, it, e, n, true),
         Charged(it, e) \in Nat, Charged(it, e) <= n,
         e = 0 => Charged(it, e) = n, n = SumFunction(true)
  PROVE  Ledger'
<1>1. failed' = {}
  BY DEF Replace, AInv, Ledger
<1>2. ASSUME NEW u \in Sketch PROVE Accounted(u)'
  <2>1. CASE u = t
    <3>1. /\ items'[t] = it /\ maxError'[t] = e /\ total'[t] = n
          /\ truth'[t] = true /\ pending'[t] = None
      BY DEF Replace, AInv, IInv, TypeOK
    <3>2. Charged(it, e) + 0 = Charged(it, e)
      OBVIOUS
    <3> QED BY <2>1, <3>1, <3>2, SumOfNone DEF Accounted
  <2>2. CASE u # t
    <3>1. /\ items'[u] = items[u] /\ maxError'[u] = maxError[u]
          /\ total'[u] = total[u] /\ truth'[u] = truth[u] /\ pending'[u] = pending[u]
      BY <2>2 DEF Replace, AInv, IInv, TypeOK
    <3>2. Accounted(u)
      BY DEF AInv, Ledger
    <3> QED BY <3>1, <3>2 DEF Accounted
  <2> QED BY <2>1, <2>2
<1> QED
  BY <1>1, <1>2 DEF Ledger

LEMMA CloneAccounts ==
  ASSUME AInv, NEW s \in Sketch, NEW t \in Sketch, Clone(s, t)
  PROVE  Ledger'
<1>1. /\ pending[s] = None /\ pending[t] = None
      /\ Replace(t, items[s], maxError[s], total[s], truth[s])
  BY DEF Clone, Usable, Idle
<1>2. Accounted(s)
  BY DEF AInv, Ledger
<1>3. items[s] \in [Key -> Nat] /\ maxError[s] \in Nat
  BY DEF AInv, IInv, TypeOK
<1>4. Charged(items[s], maxError[s]) \in Nat
  BY <1>3, ChargedBounds
<1>5. /\ Charged(items[s], maxError[s]) <= total[s]
      /\ maxError[s] = 0 => Charged(items[s], maxError[s]) = total[s]
      /\ total[s] = SumFunction(truth[s])
  BY <1>1, <1>2, <1>4, SumOfNone DEF Accounted
<1> QED
  BY <1>1, <1>4, <1>5, ReplaceAccounts

LEMMA ReceiveAccounts ==
  ASSUME AInv, ReceivedWithinBound,
         NEW t \in Sketch, NEW body \in Received, Receive(t, body)
  PROVE  Ledger'
<1>1. /\ pending[t] = None
      /\ Replace(t, body.items, body.maxError, body.total, body.truth)
      /\ body.maxError = 0 => Retained(body.items, body.maxError) = body.total
  BY DEF Receive, Idle, WireAccepts
<1>2. body.items \in [Key -> Nat] /\ body.maxError \in Nat
  BY ReceivedAssumption, MaxIntAssumption
<1>3. Charged(body.items, body.maxError) \in Nat
  BY <1>2, ChargedBounds
<1>4. /\ Charged(body.items, body.maxError) <= body.total
      /\ body.total = SumFunction(body.truth)
  BY DEF ReceivedWithinBound
<1>5. body.maxError = 0 =>
        Charged(body.items, body.maxError) = Retained(body.items, body.maxError)
  BY <1>2, MapSizeAssumption, RetainedBounds DEF Charged
<1> QED
  BY <1>1, <1>3, <1>4, <1>5, ReplaceAccounts

LEMMA NextAccounts ==
  ASSUME ReceivedWithinBound
  PROVE  AInv /\ [Next]_vars => AInv'
<1> SUFFICES ASSUME AInv, [Next]_vars PROVE Ledger'
  BY NextInv, NextCapacity DEF AInv
<1>1. CASE UNCHANGED vars
  BY <1>1 DEF vars, AInv, Ledger, Accounted
<1>2. CASE \E s \in Sketch, k \in Key, w \in Weight : AddHash(s, k, w)
  BY <1>2, AddHashAccounts
<1>3. CASE \E s \in Sketch, w \in Weight : AddRefused(s, w)
  BY <1>1, <1>3 DEF AddRefused
<1>4. CASE \E s, t \in Sketch : MergeBegin(s, t)
  BY <1>4, MergeBeginAccounts
<1>5. CASE \E s, t \in Sketch : MergeRefused(s, t)
  BY <1>1, <1>5 DEF MergeRefused
<1>6. CASE \E s \in Sketch, k \in Key : MergeStep(s, k)
  BY <1>6, MergeStepAccounts
<1>7. CASE \E s, t \in Sketch : Clone(s, t)
  BY <1>7, CloneAccounts
<1>8. CASE \E t \in Sketch, body \in Received : Receive(t, body)
  BY <1>8, ReceiveAccounts
<1> QED
  BY <1>1, <1>2, <1>3, <1>4, <1>5, <1>6, <1>7, <1>8 DEF Next

(* In every state the ledger of every sketch balances, together with the   *)
(* invariants of the intervals and of the capacity.                        *)
THEOREM Accounting ==
  ASSUME ReceivedWithinBound
  PROVE  Spec => []AInv
<1>1. Init => AInv
  BY InitInv, InitCapacity, InitLedger DEF AInv
<1> QED
  BY <1>1, NextAccounts, PTL DEF Spec

(* Misra-Gries: the error costs MapSize+1 units of the stream for each of  *)
(* its own, in the middle of a merge as well, and total_weight is the      *)
(* weight of the stream.                                                   *)
THEOREM ErrorBoundCorrect ==
  ASSUME ReceivedWithinBound
  PROVE  Spec => []ErrorBound
<1>1. AInv => ErrorBound
  BY DEF AInv, Ledger, Accounted, Charged, ErrorBound, TotalIsExact
<1> QED
  BY <1>1, Accounting, PTL

(* Every key with more than 1/(MapSize+1) of the weight has a counter.     *)
THEOREM HeavyKeysTrackedCorrect ==
  ASSUME ReceivedWithinBound
  PROVE  Spec => []HeavyKeysTracked
<1>1. AInv => HeavyKeysTracked
  <2> SUFFICES ASSUME AInv, NEW s \in Sketch, Usable(s), NEW k \in Key, items[s][k] = 0
               PROVE  (MapSize + 1) * truth[s][k] <= total[s]
    BY MapSizeAssumption DEF HeavyKeysTracked, AInv, IInv, TypeOK
  <2> DEFINE e == maxError[s]
             x == truth[s][k]
  <2>1. items[s] \in [Key -> Nat] /\ e \in Nat /\ x \in Nat /\ total[s] \in Nat
    BY DEF AInv, IInv, TypeOK
  <2>2. x <= e
    BY <2>1 DEF AInv, IInv, Covered, Usable, Idle, None, UpperBound
  <2>3. (MapSize + 1) * x <= (MapSize + 1) * e
    <3>1. \A m, a, b \in Nat : a <= b => m * a <= m * b
      OBVIOUS
    <3>2. MapSize + 1 \in Nat
      BY MapSizeAssumption
    <3> QED BY <2>1, <2>2, <3>1, <3>2
  <2>4. Retained(items[s], e) \in Nat /\ Charged(items[s], e) \in Nat
    BY <2>1, RetainedBounds, ChargedBounds
  <2>5. Charged(items[s], e) <= total[s]
    <3>1. Accounted(s) /\ pending[s] = None
      BY DEF AInv, Ledger, Usable, Idle
    <3> QED BY <2>4, <3>1, SumOfNone DEF Accounted
  <2>6. (MapSize + 1) * x \in Nat /\ (MapSize + 1) * e \in Nat
    BY <2>1, MapSizeAssumption
  <2> QED
    BY <2>1, <2>3, <2>4, <2>5, <2>6 DEF Charged
<1> QED
  BY <1>1, Accounting, PTL

(* The decoder accepts whatever an encoder can be asked to write.          *)
THEOREM WireClosedCorrect ==
  ASSUME ReceivedWithinBound
  PROVE  Spec => []WireClosed
<1>1. AInv => WireClosed
  <2> SUFFICES ASSUME AInv, NEW s \in Sketch, Usable(s)
               PROVE  WireAccepts(total[s], maxError[s], items[s])
    BY DEF WireClosed
  <2> DEFINE it == items[s]
             e  == maxError[s]
  <2>1. it \in [Key -> Nat] /\ e \in Nat /\ total[s] \in Nat
    BY DEF AInv, IInv, TypeOK
  <2>2. Retained(it, e) \in Nat /\ \A k \in Key : LowerBound(it, e, k) <= Retained(it, e)
    BY <2>1, RetainedBounds
  <2>3. Charged(it, e) \in Nat /\ e + Retained(it, e) <= Charged(it, e)
    BY <2>1, ChargedBounds
  <2>4. /\ Charged(it, e) <= total[s]
        /\ e = 0 => Charged(it, e) = total[s]
    <3>1. Accounted(s) /\ pending[s] = None
      BY DEF AInv, Ledger, Usable, Idle
    <3> QED BY <2>3, <3>1, SumOfNone DEF Accounted
  <2>5. e = 0 => Charged(it, e) = Retained(it, e)
    BY <2>1, <2>2, MapSizeAssumption DEF Charged
  <2>6. ASSUME NEW k \in Tracked(it) PROVE e < it[k] /\ it[k] <= total[s]
    <3>1. k \in Key /\ it[k] > e
      BY DEF Tracked, AInv, IInv, Fresh
    <3>2. it[k] = e + LowerBound(it, e, k)
      BY <2>1, <3>1 DEF LowerBound
    <3>3. LowerBound(it, e, k) <= Retained(it, e)
      BY <2>2, <3>1
    <3>4. it[k] \in Nat /\ LowerBound(it, e, k) \in Nat
      BY <2>1, <3>1 DEF LowerBound
    <3> HIDE DEF it, e
    <3> QED BY <2>1, <2>2, <2>3, <2>4, <3>1, <3>2, <3>3, <3>4
  <2>7. Cardinality(Tracked(it)) <= MapSize
    BY DEF AInv, Capacity
  <2>8. e <= total[s] /\ Retained(it, e) <= total[s]
    BY <2>1, <2>2, <2>3, <2>4
  <2> HIDE DEF it, e
  <2>9. WireAccepts(total[s], e, it)
    BY <2>4, <2>5, <2>6, <2>7, <2>8 DEF WireAccepts
  <2> QED BY <2>9 DEF it, e
<1> QED
  BY <1>1, Accounting, PTL

(* No update and no merge that passed its preliminary checks can fail:     *)
(* neither the overflow of an estimate nor the "no free counter" error is  *)
(* reachable.                                                              *)
THEOREM NoLateErrorCorrect ==
  ASSUME ReceivedWithinBound
  PROVE  Spec => []NoLateError
<1>1. AInv => NoLateError
  BY DEF AInv, Ledger, NoLateError
<1> QED
  BY <1>1, Accounting, PTL
=============================================================================

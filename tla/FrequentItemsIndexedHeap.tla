---------------------- MODULE FrequentItemsIndexedHeap ----------------------
(***************************************************************************)
(* The counters of go/sketchkit/frequentitems/frequentitems.go: a pool of  *)
(* MapSize slots, a free list, a map from hash to slot and a binary heap   *)
(* of slots in which each slot records its own position.  The module       *)
(* implements FrequentItems.  Positions count from 1 here, from 0 in Go.   *)
(***************************************************************************)
EXTENDS Integers, FiniteSets, Functions, SequencesExt

CONSTANTS Sketch, Keying, Key, MapSize, MaxInt, Weight, Received

Amounts == 0 .. MaxInt

ASSUME KeyAssumption     == Key \subseteq Nat /\ IsFiniteSet(Key)
ASSUME MapSizeAssumption == MapSize \in Nat \ {0}
ASSUME MaxIntAssumption  == MaxInt \in Nat
ASSUME WeightAssumption  == Weight \subseteq Int
ASSUME ReceivedAssumption == \* as in FrequentItems
  \A body \in Received :
    /\ body.total \in Amounts /\ body.maxError \in Amounts
    /\ body.items \in [Key -> Amounts] /\ body.truth \in [Key -> Nat]
    /\ \A k \in Key :
         /\ body.truth[k] <= body.total
         /\ body.items[k] - body.maxError <= body.truth[k]
         /\ body.truth[k] <= IF body.items[k] > 0 THEN body.items[k]
                                                 ELSE body.maxError

VARIABLES
  sketch,   \* fields: items, heap, pool, free, maxError, totalWeight
  entries,  \* residuals the loop of a merge has still to visit
  failed,   \* instances an error left half updated
  truth     \* history, as in FrequentItems

vars == <<sketch, entries, failed, truth>>

Slot   == 1 .. MapSize
NoDict == [k \in {} |-> 0]
Without(dict, k) == Restrict(dict, DOMAIN dict \ {k})
With(dict, k, v) == [j \in DOMAIN dict \cup {k} |-> IF j = k THEN v ELSE dict[j]]

Unused == [hash |-> 0, estimate |-> 0, heapIndex |-> 0]

-----------------------------------------------------------------------------
(* The heap.  x is the record of one instance's fields.  A loop is a fold  *)
(* over the slots of the heap, for it takes a turn for each at most; turns *)
(* after its end change nothing.                                           *)

At(x, i) == x.pool[x.heap[i]]

LessCounter(a, b) ==
  a.estimate < b.estimate \/ (a.estimate = b.estimate /\ a.hash < b.hash)

(* mutant: only one of the two positions is recorded                       *)
SwapHeapHalf(x, i, j) ==
  [x EXCEPT !.heap = [@ EXCEPT ![i] = x.heap[j], ![j] = x.heap[i]],
            !.pool = [@ EXCEPT ![x.heap[j]].heapIndex = i]]
SwapHeap(x, i, j) ==
  [x EXCEPT !.heap = [@ EXCEPT ![i] = x.heap[j], ![j] = x.heap[i]],
            !.pool = [@ EXCEPT ![x.heap[j]].heapIndex = i,
                               ![x.heap[i]].heapIndex = j]]

Raised(turn, slot) ==
  LET x == turn[1]  i == turn[2]
  IN IF i > 1 /\ LessCounter(At(x, i), At(x, i \div 2))
       THEN <<SwapHeap(x, i, i \div 2), i \div 2>> ELSE turn

HeapUp(x, i) == FoldLeft(Raised, <<x, i>>, x.heap)[1]

SmallerChild(x, i) ==
  LET left == 2 * i  right == left + 1
  IN IF right <= Len(x.heap) /\ LessCounter(At(x, right), At(x, left))
       THEN right ELSE left

Lowered(turn, slot) ==
  LET x == turn[1]  i == turn[2]  child == SmallerChild(x, i)
  IN IF 2 * i <= Len(x.heap) /\ LessCounter(At(x, child), At(x, i))
       THEN <<SwapHeap(x, i, child), child>> ELSE turn

HeapDown(x, i) == FoldLeft(Lowered, <<x, i>>, x.heap)[1]

InsertCounter(x, k, estimate) ==
  LET slot == Last(x.free)
      i    == Len(x.heap) + 1
      y    == [x EXCEPT !.free  = Front(@),
                        !.pool[slot] = [hash |-> k, estimate |-> estimate, heapIndex |-> i],
                        !.items = With(@, k, slot),
                        !.heap  = Append(@, slot)]
  IN HeapUp(y, i)

(* removeAt: the last slot takes the hole and is sifted either way.        *)
FillHole(x, i) ==
  LET slot == Last(x.heap)
      y    == [x EXCEPT !.heap = Front(@)]
  IN IF i <= Len(y.heap)
       THEN HeapUp(HeapDown([y EXCEPT !.heap[i] = slot,
                                      !.pool[slot].heapIndex = i], i), i)
       ELSE y

RemoveCounterAt(x, i) ==
  [FillHole(x, i) EXCEPT !.items = Without(@, At(x, i).hash),
                         !.pool[x.heap[i]] = Unused,
                         !.free  = Append(@, x.heap[i])]

WithoutExpired(x, slot) ==
  IF x.heap # <<>> /\ At(x, 1).estimate <= x.maxError
    THEN RemoveCounterAt(x, 1) ELSE x

RemoveExpired(x) == FoldLeft(WithoutExpired, x, x.heap)

(* newSketch; reset makes the same.                                        *)
EmptySketch ==
  [items |-> NoDict, heap |-> <<>>, pool |-> [slot \in Slot |-> Unused],
   free |-> [i \in Slot |-> i], maxError |-> 0, totalWeight |-> 0]

-----------------------------------------------------------------------------
(* addResidual and pruneForResidual: the fields they leave, and whether    *)
(* they return without an error.                                           *)

Ok(x)    == [fields |-> x, ok |-> TRUE]
Raise(x) == [fields |-> x, ok |-> FALSE]

InsertChecked(x, k, estimate) ==
  IF estimate > MaxInt THEN Raise(x) ELSE Ok(InsertCounter(x, k, estimate))

(* mutant: the grown counter stays where it is                             *)
BumpInPlace(x, k, r) ==
  LET slot == x.items[k] IN
  IF x.pool[slot].estimate > MaxInt - r THEN Raise(x)
    ELSE Ok([x EXCEPT !.pool[slot].estimate = @ + r])
Bump(x, k, r) ==
  LET slot == x.items[k] IN
  IF x.pool[slot].estimate > MaxInt - r THEN Raise(x)
    ELSE Ok(HeapDown([x EXCEPT !.pool[slot].estimate = @ + r],
                     x.pool[slot].heapIndex))

PruneAndInsert(x, k, r) ==
  LET least  == At(x, 1).estimate - x.maxError
      d      == IF r < least THEN r ELSE least
      raised == [x EXCEPT !.maxError = @ + d]
      pruned == IF r < least THEN raised ELSE RemoveExpired(raised)
  IN IF x.maxError > MaxInt - d THEN Raise(x)
       ELSE IF d = r THEN Ok(pruned)
         ELSE IF Cardinality(DOMAIN pruned.items) >= MapSize THEN Raise(pruned)
           ELSE InsertChecked(pruned, k, pruned.maxError + (r - d))

AddResidual(x, k, r) ==
  CASE k \in DOMAIN x.items -> Bump(x, k, r)
    [] k \notin DOMAIN x.items /\ Cardinality(DOMAIN x.items) < MapSize
         -> InsertChecked(x, k, x.maxError + r)
    [] OTHER -> PruneAndInsert(x, k, r)

-----------------------------------------------------------------------------
(* Calls, confined as in FrequentItems. *)

Usable(s) == entries[s] = NoDict /\ s \notin failed

Outcome(s, result) ==
  /\ sketch' = [sketch EXCEPT ![s] = result.fields]
  /\ failed' = IF result.ok THEN failed ELSE failed \cup {s}

Addable(s, w) == w > 0 /\ sketch[s].totalWeight <= MaxInt - w

AddHash(s, k, w) ==
  /\ Usable(s) /\ Addable(s, w)
  /\ Outcome(s, AddResidual([sketch[s] EXCEPT !.totalWeight = @ + w], k, w))
  /\ truth' = [truth EXCEPT ![s][k] = @ + w]
  /\ UNCHANGED entries

Estimate(x, k) == IF k \in DOMAIN x.items THEN x.pool[x.items[k]].estimate ELSE 0
Residual(x, k) == IF k \in DOMAIN x.items THEN Estimate(x, k) - x.maxError ELSE 0

Combined(x, y) ==
  LET sum(k)  == Residual(x, k) + Residual(y, k)
      present == {k \in DOMAIN x.items \cup DOMAIN y.items : sum(k) > 0}
  IN [k \in present |-> IF sum(k) > MaxInt THEN MaxInt ELSE sum(k)]

Mergeable(s, t) ==
  /\ Keying[s] = Keying[t]
  /\ sketch[s].totalWeight <= MaxInt - sketch[t].totalWeight
  /\ sketch[s].maxError <= MaxInt - sketch[t].maxError

MergeBegin(s, t) ==
  /\ Usable(s) /\ Usable(t) /\ Mergeable(s, t)
  /\ entries' = [entries EXCEPT ![s] = Combined(sketch[s], sketch[t])]
  /\ sketch'  = [sketch EXCEPT ![s] =
                   [EmptySketch EXCEPT
                      !.maxError    = sketch[s].maxError + sketch[t].maxError,
                      !.totalWeight = sketch[s].totalWeight + sketch[t].totalWeight]]
  /\ truth'   = [truth EXCEPT ![s] = [k \in Key |-> truth[s][k] + truth[t][k]]]
  /\ UNCHANGED failed

MergeStep(s, k) ==
  /\ k \in DOMAIN entries[s] /\ \A j \in DOMAIN entries[s] : k <= j
  /\ Outcome(s, AddResidual(sketch[s], k, entries[s][k]))
  /\ entries' = [entries EXCEPT ![s] =
                   IF s \in failed' THEN NoDict ELSE Without(@, k)]
  /\ UNCHANGED truth

(* Calls refused by the preliminary checks, or with nothing to add.        *)
AddRefused(s, w)   == Usable(s) /\ ~ Addable(s, w) /\ UNCHANGED vars
MergeRefused(s, t) == Usable(s) /\ Usable(t) /\ ~ Mergeable(s, t) /\ UNCHANGED vars

Replace(t, fields, true) ==
  /\ entries[t] = NoDict
  /\ sketch' = [sketch EXCEPT ![t] = fields]
  /\ failed' = failed \ {t}
  /\ truth'  = [truth EXCEPT ![t] = true]
  /\ UNCHANGED entries

(* Clone and Parse insert the counters of a map in hash order.             *)
InHashOrder(keys) ==
  CHOOSE order \in [1 .. Cardinality(keys) -> keys] :
    \A i, j \in DOMAIN order : i < j => order[i] < order[j]

Filled(estimates, error, weight) ==
  LET order == InHashOrder(DOMAIN estimates)
      n     == Cardinality(DOMAIN estimates)
      filled[i \in 0 .. n] ==
        IF i = 0 THEN [EmptySketch EXCEPT !.maxError = error, !.totalWeight = weight]
                 ELSE InsertCounter(filled[i - 1], order[i], estimates[order[i]])
  IN filled[n]

Clone(s, t) ==
  LET x == sketch[s] IN
  /\ s # t /\ Keying[s] = Keying[t]
  /\ Usable(s)
  /\ Replace(t, Filled([k \in DOMAIN x.items |-> Estimate(x, k)],
                       x.maxError, x.totalWeight), truth[s])

Init ==
  /\ sketch  = [s \in Sketch |-> EmptySketch]
  /\ entries = [s \in Sketch |-> NoDict]
  /\ failed  = {}
  /\ truth   = [s \in Sketch |-> [k \in Key |-> 0]]

-----------------------------------------------------------------------------
(* The mapping to FrequentItems, which gives every key a number: 0 for     *)
(* those without a counter, or with nothing left to visit.                 *)
Counts(x) == [k \in Key |-> Estimate(x, k)]
Listed(d) == [k \in Key |-> IF k \in DOMAIN d THEN d[k] ELSE 0]

Abstract == INSTANCE FrequentItems WITH
  items    <- [s \in Sketch |-> Counts(sketch[s])],
  maxError <- [s \in Sketch |-> sketch[s].maxError],
  total    <- [s \in Sketch |-> sketch[s].totalWeight],
  pending  <- [s \in Sketch |-> Listed(entries[s])]

Receive(t, body) ==
  /\ Abstract!WireAccepts(body.total, body.maxError, body.items)
  /\ Replace(t, Filled(Restrict(body.items, Abstract!Tracked(body.items)),
                       body.maxError, body.total), body.truth)

Next ==
  \/ \E s \in Sketch, k \in Key, w \in Weight : AddHash(s, k, w)
  \/ \E s \in Sketch, w \in Weight : AddRefused(s, w)
  \/ \E s, t \in Sketch : MergeBegin(s, t)
  \/ \E s, t \in Sketch : MergeRefused(s, t)
  \/ \E s \in Sketch, k \in Key : MergeStep(s, k)
  \/ \E s, t \in Sketch : Clone(s, t)
  \/ \E t \in Sketch, body \in Received : Receive(t, body)

Spec == Init /\ [][Next]_vars

-----------------------------------------------------------------------------
(* Properties. *)

(* The indexed heap finds and expires the counters the specification does. *)
Implements == Abstract!Spec

(* Map, heap and slots agree: the map leads to the slot that holds the     *)
(* hash, and the slot knows its place in the heap, which holds no other    *)
(* slots.  A stale place would make an update sift the wrong counter.      *)
SlotsIndexed(x) ==
  /\ Len(x.heap) = Cardinality(DOMAIN x.items)
  /\ \A k \in DOMAIN x.items : LET c == x.pool[x.items[k]] IN
       c.hash = k /\ c.heapIndex \in 1 .. Len(x.heap) /\ x.heap[c.heapIndex] = x.items[k]

(* No counter is less than its parent: the top is the least one.           *)
HeapOrdered(x) == \A i \in 2 .. Len(x.heap) : ~ LessCounter(At(x, i), At(x, i \div 2))

(* Every slot of the pool is in the heap or on the free list, once: an     *)
(* insert always finds a free slot, and no slot carries two counters.      *)
SlotsPartitioned(x) ==
  /\ Len(x.heap) + Len(x.free) = MapSize
  /\ ToSet(x.heap) \cup ToSet(x.free) = Slot

SlotsConsistent ==
  \A s \in Sketch :
    SlotsIndexed(sketch[s]) /\ HeapOrdered(sketch[s]) /\ SlotsPartitioned(sketch[s])
=============================================================================

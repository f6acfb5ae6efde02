--------------------------- MODULE FrequentItems ---------------------------
(***************************************************************************)
(* The weighted frequent-items sketch (Misra-Gries counters behind one     *)
(* shared error) as python/llm_sketchkit/frequentitems.py and              *)
(* go/sketchkit/frequentitems/frequentitems.go both implement it.          *)
(*                                                                         *)
(* Several sketch instances live side by side; each is updated, merged     *)
(* into another, cloned, sent over the wire and received.  How the least   *)
(* counter is found (a lazy heap in Python, an indexed one in Go) is left  *)
(* to the modules that refine this one: here it is the minimum of a set.   *)
(***************************************************************************)
EXTENDS Integers, FiniteSets, Functions

CONSTANTS
  Sketch,    \* the instances a caller holds
  Keying,    \* [Sketch -> ...] profile, hash domain and algorithm of each
  Key,       \* 64-bit hashes: naturals, for merges re-insert in hash order
  MapSize,   \* counters a profile allows
  MaxInt,    \* the largest signed 64-bit integer
  Weight,    \* weights callers pass, non-positive ones included
  Received   \* wire bodies of other producers, each with the true weights
             \* behind it: [total, maxError, items, truth]

Amounts == 0 .. MaxInt
None    == [k \in Key |-> 0]

ASSUME KeyAssumption     == Key \subseteq Nat /\ IsFiniteSet(Key)
ASSUME MapSizeAssumption == MapSize \in Nat \ {0}
ASSUME MaxIntAssumption  == MaxInt \in Nat
ASSUME WeightAssumption  == Weight \subseteq Int

(* What another producer sends is made of 64-bit integers and tells the    *)
(* truth: its intervals contain the weights behind it.  It need not have   *)
(* come about by the algorithm below.                                      *)
ASSUME ReceivedAssumption ==
  \A body \in Received :
    /\ body.total \in Amounts
    /\ body.maxError \in Amounts
    /\ body.items \in [Key -> Amounts]
    /\ body.truth \in [Key -> Nat]
    /\ \A k \in Key :
         /\ body.truth[k] <= body.total
         /\ body.items[k] - body.maxError <= body.truth[k]
         /\ body.truth[k] <= IF body.items[k] > 0 THEN body.items[k]
                                                 ELSE body.maxError

VARIABLES
  items,     \* estimate of every key, 0 when the key has no counter
  maxError,  \* the global error
  total,     \* total weight added
  pending,   \* residuals a merge in progress has still to re-insert
  failed,    \* sketches a late error left half updated
  truth      \* history: the weight each key really received

vars == <<items, maxError, total, pending, failed, truth>>

-----------------------------------------------------------------------------
(* Queries and the wire form of one sketch. *)

Tracked(it) == {k \in Key : it[k] > 0}
(* mutant: one counter too few *)
HasRoomShort(it) == Cardinality(Tracked(it)) < MapSize - 1
HasRoom(it) == Cardinality(Tracked(it)) < MapSize

LowerBound(it, e, k) == IF it[k] > e THEN it[k] - e ELSE 0
UpperBound(it, e, k) == IF it[k] > 0 THEN it[k] ELSE e

(* frequent_items: the keys either mode returns.                           *)
NoFalseNegatives(it, e) == {k \in Tracked(it) : UpperBound(it, e, k) > e}
NoFalsePositives(it, e) == {k \in Tracked(it) : LowerBound(it, e, k) > e}

Retained(it, e) == SumFunction([k \in Key |-> LowerBound(it, e, k)])

(* The checks of parse; entries arrive sorted, being keyed by hash here.   *)
WireAccepts(t, e, it) ==
  /\ e <= t
  /\ Cardinality(Tracked(it)) <= MapSize
  /\ \A k \in Tracked(it) : e < it[k] /\ it[k] <= t
  /\ Retained(it, e) <= t
  /\ e = 0 => Retained(it, e) = t

-----------------------------------------------------------------------------
(* Adding one residual: the body add_hash and merge share. *)

Store(s, it, e, k, estimate) ==
  /\ maxError' = [maxError EXCEPT ![s] = e]
  /\ IF estimate <= MaxInt
       THEN /\ items' = [items EXCEPT ![s] = [it EXCEPT ![k] = estimate]]
            /\ UNCHANGED failed
       ELSE /\ items' = [items EXCEPT ![s] = it]
            /\ failed' = failed \cup {s}

MinEstimate(it) ==
  CHOOSE m \in {it[k] : k \in Tracked(it)} : \A k \in Tracked(it) : m <= it[k]

(* mutant: the error absorbs the whole residual *)
ConsumedWhole(it, e, r) == r

(* How much of the residual is paid by raising the error: all of it, or    *)
(* what the cheapest counter still holds.                                  *)
Consumed(it, e, r) ==
  LET least == MinEstimate(it) - e IN IF r < least THEN r ELSE least

(* mutant: a counter equal to the error stays *)
UnexpiredStrict(it, e) == [k \in Key |-> IF it[k] >= e THEN it[k] ELSE 0]
Unexpired(it, e) == [k \in Key |-> IF it[k] > e THEN it[k] ELSE 0]

(* The error itself cannot overflow: it stays below an estimate.           *)
PruneAndStore(s, k, r) ==
  LET d    == Consumed(items[s], maxError[s], r)
      e    == maxError[s] + d
      kept == Unexpired(items[s], e)
  IN IF d = r
       THEN /\ items'    = [items EXCEPT ![s] = kept]
            /\ maxError' = [maxError EXCEPT ![s] = e]
            /\ UNCHANGED failed
       ELSE IF HasRoom(kept)
              THEN Store(s, kept, e, k, e + (r - d))
              ELSE /\ items'    = [items EXCEPT ![s] = kept]   \* no free counter
                   /\ maxError' = [maxError EXCEPT ![s] = e]
                   /\ failed'   = failed \cup {s}

AddResidual(s, k, r) ==
  \/ /\ items[s][k] > 0
     /\ Store(s, items[s], maxError[s], k, items[s][k] + r)
  \/ /\ items[s][k] = 0
     /\ HasRoom(items[s])
     /\ Store(s, items[s], maxError[s], k, maxError[s] + r)
  \/ /\ items[s][k] = 0
     /\ ~ HasRoom(items[s])
     /\ PruneAndStore(s, k, r)

-----------------------------------------------------------------------------
(* Calls.  A sketch in the middle of a merge, or left half updated by a    *)
(* late error, is not used: callers confine an instance to one thread and  *)
(* drop it after an error.                                                 *)

Idle(s)   == pending[s] = None
Usable(s) == Idle(s) /\ s \notin failed

(* add_hash *)
AddHash(s, k, w) ==
  /\ Usable(s)
  /\ w > 0
  /\ total[s] <= MaxInt - w
  /\ total' = [total EXCEPT ![s] = @ + w]
  /\ truth' = [truth EXCEPT ![s][k] = @ + w]
  /\ AddResidual(s, k, w)
  /\ UNCHANGED pending

(* A negative weight, a zero weight, a total that would overflow.          *)
AddRefused(s, w) ==
  /\ Usable(s)
  /\ w <= 0 \/ total[s] > MaxInt - w
  /\ UNCHANGED vars

(* merge up to the reset: what both sketches retain is combined, and the   *)
(* source, which may be the target itself, is not read again.              *)
Saturate(n) == IF n > MaxInt THEN MaxInt ELSE n

Combined(s, t) ==
  [k \in Key |-> Saturate(LowerBound(items[s], maxError[s], k)
                            + LowerBound(items[t], maxError[t], k))]

MergedTotal(s, t) == total[s] + total[t]

(* mutant: the larger error of the two instead of their sum *)
MergedErrorMax(s, t) == IF maxError[s] > maxError[t] THEN maxError[s] ELSE maxError[t]
MergedError(s, t) == maxError[s] + maxError[t]

(* mutant: no overflow check before the reset *)
MergeableUnchecked(s, t) == Keying[s] = Keying[t]
Mergeable(s, t) ==
  /\ Keying[s] = Keying[t]
  /\ total[s] <= MaxInt - total[t]
  /\ maxError[s] <= MaxInt - maxError[t]

MergeBegin(s, t) ==
  /\ Usable(s) /\ Usable(t)
  /\ Mergeable(s, t)
  /\ pending'  = [pending EXCEPT ![s] = Combined(s, t)]
  /\ items'    = [items EXCEPT ![s] = None]
  /\ total'    = [total EXCEPT ![s] = MergedTotal(s, t)]
  /\ maxError' = [maxError EXCEPT ![s] = MergedError(s, t)]
  /\ truth'    = [truth EXCEPT ![s] = [k \in Key |-> truth[s][k] + truth[t][k]]]
  /\ UNCHANGED failed

MergeRefused(s, t) ==
  /\ Usable(s) /\ Usable(t)
  /\ ~ Mergeable(s, t)
  /\ UNCHANGED vars

(* One turn of the loop that re-inserts the residuals in hash order; a     *)
(* late error abandons the rest.                                           *)
IsNext(s, k) ==
  /\ pending[s][k] > 0
  /\ \A j \in Key : pending[s][j] > 0 => k <= j

MergeStep(s, k) ==
  /\ s \notin failed
  /\ IsNext(s, k)
  /\ AddResidual(s, k, pending[s][k])
  /\ pending' = [pending EXCEPT ![s] =
                   IF s \in failed' THEN None ELSE [@ EXCEPT ![k] = 0]]
  /\ UNCHANGED <<total, truth>>

Replace(t, newItems, newError, newTotal, newTruth) ==
  /\ items'    = [items EXCEPT ![t] = newItems]
  /\ maxError' = [maxError EXCEPT ![t] = newError]
  /\ total'    = [total EXCEPT ![t] = newTotal]
  /\ truth'    = [truth EXCEPT ![t] = newTruth]
  /\ failed'   = failed \ {t}
  /\ UNCHANGED pending

(* clone, or marshal_binary followed by a parse that accepts the bytes:    *)
(* the copy takes the place of an instance the caller gives up, perhaps a  *)
(* failed one.                                                             *)
Clone(s, t) ==
  /\ s # t /\ Keying[s] = Keying[t]
  /\ Usable(s) /\ Idle(t)
  /\ Replace(t, items[s], maxError[s], total[s], truth[s])

(* parse of another producer's bytes; rejected bytes make no instance.     *)
Receive(t, body) ==
  /\ Idle(t)
  /\ WireAccepts(body.total, body.maxError, body.items)
  /\ Replace(t, body.items, body.maxError, body.total, body.truth)

-----------------------------------------------------------------------------
Init ==
  /\ items    = [s \in Sketch |-> None]
  /\ maxError = [s \in Sketch |-> 0]
  /\ total    = [s \in Sketch |-> 0]
  /\ pending  = [s \in Sketch |-> None]
  /\ failed   = {}
  /\ truth    = [s \in Sketch |-> None]

Next ==
  \/ \E s \in Sketch, k \in Key, w \in Weight : AddHash(s, k, w)
  \/ \E s \in Sketch, w \in Weight : AddRefused(s, w)
  \/ \E s, t \in Sketch : MergeBegin(s, t)
  \/ \E s, t \in Sketch : MergeRefused(s, t)
  \/ \E s \in Sketch, k \in Key : MergeStep(s, k)
  \/ \E s, t \in Sketch : Clone(s, t)
  \/ \E t \in Sketch, body \in Received : Receive(t, body)

Spec == Init /\ [][Next]_vars

(* A call that began runs to its end, whatever other instances do: the     *)
(* loop of merge waits for nothing.                                        *)
Fairness == \A s \in Sketch : WF_vars(\E k \in Key : MergeStep(s, k))
FairSpec == Spec /\ Fairness

-----------------------------------------------------------------------------
(* Properties. *)

(* Every stored amount - totals, shared errors, estimates, and what a      *)
(* merge that has begun still has to insert - stays a non-negative integer *)
(* of the counters' width, also half way through a merge.                  *)
TypeOK ==
  /\ items    \in [Sketch -> [Key -> Amounts]]
  /\ maxError \in [Sketch -> Amounts]
  /\ total    \in [Sketch -> Amounts]
  /\ pending  \in [Sketch -> [Key -> Amounts]]
  /\ failed   \in SUBSET Sketch
  /\ truth    \in [Sketch -> [Key -> Nat]]

(* The capacity of the counter map is respected, merges in progress and    *)
(* half-finished ones included, and no counter is at or below the error.   *)
MapBounded ==
  \A s \in Sketch :
    /\ Cardinality(Tracked(items[s])) <= MapSize
    /\ \A k \in Tracked(items[s]) : items[s][k] > maxError[s]

(* The interval a query returns contains the true weight of every key,     *)
(* tracked or not, after any mixture of updates, merges (a sketch with     *)
(* itself included), clones and decoded sketches.                          *)
Bracket ==
  \A s \in Sketch : Usable(s) =>
    \A k \in Key :
      /\ LowerBound(items[s], maxError[s], k) <= truth[s][k]
      /\ truth[s][k] <= UpperBound(items[s], maxError[s], k)

(* The two query modes keep their names: every key heavier than max_error  *)
(* is in the no-false-negatives list, and only such keys are in the        *)
(* no-false-positives list.                                                *)
QueryModes ==
  \A s \in Sketch : Usable(s) =>
    LET heavy == {k \in Key : truth[s][k] > maxError[s]}
    IN /\ heavy \subseteq NoFalseNegatives(items[s], maxError[s])
       /\ NoFalsePositives(items[s], maxError[s]) \subseteq heavy

(* Misra-Gries: error and retained weight together never exceed the weight *)
(* of the whole stream, MapSize+1 units of it being spent per unit of      *)
(* error, in the middle of a merge too; and total_weight is that weight, a *)
(* merge of a sketch with itself counting it twice.                        *)
TotalIsExact(s) == s \in failed \/ total[s] = SumFunction(truth[s])
ErrorBound ==
  \A s \in Sketch : TotalIsExact(s) /\
    (MapSize + 1) * maxError[s] + Retained(items[s], maxError[s])
      + SumFunction(pending[s]) <= total[s]

(* So every key with more than 1/(MapSize+1) of the weight has a counter.  *)
HeavyKeysTracked ==
  \A s \in Sketch : Usable(s) =>
    \A k \in Key : (MapSize + 1) * truth[s][k] > total[s] => items[s][k] > 0

(* The decoder accepts whatever the encoder can be asked to write: no      *)
(* history of updates and merges leads to bytes the peer must reject.      *)
WireClosed ==
  \A s \in Sketch : Usable(s) => WireAccepts(total[s], maxError[s], items[s])

(* The late errors, after which an instance is half updated, cannot be met *)
(* once the preliminary checks passed.                                     *)
NoLateError == failed = {}

(* A merge that began ends with a receiver that can be used again: every   *)
(* residual finds a counter or is pruned, and none of them raises.         *)
MergeEnds == \A s \in Sketch : pending[s] # None ~> Usable(s)
============================================================================

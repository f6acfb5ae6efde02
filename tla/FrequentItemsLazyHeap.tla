------------------------ MODULE FrequentItemsLazyHeap ------------------------
(***************************************************************************)
(* How python/llm_sketchkit/frequentitems.py finds the least counter: a    *)
(* heapq of (estimate, key) pairs that keeps stale pairs until they reach  *)
(* the top or the heap exceeds twice the map size.  The module implements  *)
(* FrequentItems; a dict is a function on the keys it holds.               *)
(***************************************************************************)
EXTENDS Integers, FiniteSets, Functions, Bags

CONSTANTS Sketch, Keying, Key, MapSize, MaxInt, Weight, Received

Amounts == 0 .. MaxInt

ASSUME KeyAssumption     == Key \subseteq Nat /\ IsFiniteSet(Key)
ASSUME MapSizeAssumption == MapSize \in Nat \ {0}
ASSUME MaxIntAssumption  == MaxInt \in Nat
ASSUME WeightAssumption  == Weight \subseteq Int
ASSUME ReceivedAssumption == \* as in FrequentItems
  \A body \in Received :
    /\ body.total \in Amounts /\ body.maxError \in Amounts
    /\ body.items \in [Key -> Amounts] /\ body.truth \in [Key -> Nat]
    /\ \A k \in Key :
         /\ body.truth[k] <= body.total
         /\ body.items[k] - body.maxError <= body.truth[k]
         /\ body.truth[k] <= IF body.items[k] > 0 THEN body.items[k]
                                                 ELSE body.maxError

VARIABLES
  sketch,   \* fields of each instance: items, minimum, maxError, total
  entries,  \* the residuals the loop of a merge has still to visit
  failed,   \* instances an error left half updated
  truth     \* history, as in FrequentItems

vars == <<sketch, entries, failed, truth>>

NoDict == [k \in {} |-> 0]
Lookup(dict, k) == IF k \in DOMAIN dict THEN dict[k] ELSE 0
With(dict, k, n) == [j \in DOMAIN dict \cup {k} |-> IF j = k THEN n ELSE dict[j]]
Without(dict, k) == Restrict(dict, DOMAIN dict \ {k})

-----------------------------------------------------------------------------
(* heapq on pairs: a bag of which only the least element is looked at.     *)

Push(heap, pair) == heap (+) SetToBag({pair})

NotAfter(p, q) == p[1] < q[1] \/ (p[1] = q[1] /\ p[2] <= q[2])

HeapSize(heap) == SumFunction(heap)

Rebuilt(items) == SetToBag({<<items[k], k>> : k \in DOMAIN items})

(* mutant: the size is not looked at                                       *)
SetCounterUnbounded(x, k, estimate) ==
  [x EXCEPT !.items = With(@, k, estimate), !.minimum = Push(@, <<estimate, k>>)]

(* _set_counter                                                            *)
SetCounter(x, k, estimate) ==
  LET items == With(x.items, k, estimate)
      heap  == Push(x.minimum, <<estimate, k>>)
  IN [x EXCEPT !.items   = items,
               !.minimum = IF HeapSize(heap) > 2 * MapSize
                             THEN Rebuilt(items) ELSE heap]

(* mutant: any pair of a live key counts as current                        *)
IsCurrentKey(items, p) == p[2] \in DOMAIN items
IsCurrent(items, p) == p[2] \in DOMAIN items /\ items[p[2]] = p[1]

Current(heap, items) == {p \in DOMAIN heap : IsCurrent(items, p)}

(* _peek_minimum pops until the least pair is a current one; a heap that   *)
(* has none is popped empty, its "missing counter" error.                  *)
Peeked(heap, items) ==
  Restrict(heap, {q \in DOMAIN heap : \E p \in Current(heap, items) : NotAfter(p, q)})

Missing(x) == DOMAIN x.items # {} /\ Current(x.minimum, x.items) = {}

LeastEstimate(x) ==
  LET current == Current(x.minimum, x.items)
  IN (CHOOSE p \in current : \A q \in current : NotAfter(p, q))[1]

(* _remove_expired pops what lies up to the last current pair that is not  *)
(* above the error, and looks at the next one if a counter is left.        *)
RemoveExpired(x) ==
  LET expired == {p \in Current(x.minimum, x.items) : p[1] <= x.maxError}
      items   == Restrict(x.items, DOMAIN x.items \ {p[2] : p \in expired})
      later   == Restrict(x.minimum, {q \in DOMAIN x.minimum :
                                        \A p \in expired : ~ NotAfter(q, p)})
  IN [x EXCEPT !.items   = items,
               !.minimum = IF DOMAIN items = {} THEN later ELSE Peeked(later, items)]

-----------------------------------------------------------------------------
(* _prune_for_residual and _add_residual, as the fields they leave and     *)
(* whether they return (ok) or raise.                                      *)

Ok(x)     == [fields |-> x, ok |-> TRUE]
Raise(x)  == [fields |-> x, ok |-> FALSE]

StoreChecked(x, k, estimate) ==
  IF estimate > MaxInt THEN Raise(x) ELSE Ok(SetCounter(x, k, estimate))

PruneAndStore(x, k, r) ==
  LET peeked == [x EXCEPT !.minimum = Peeked(@, x.items)]
      least  == LeastEstimate(x) - x.maxError
      d      == IF r < least THEN r ELSE least
      raised == [peeked EXCEPT !.maxError = @ + d]
      pruned == IF r < least THEN raised ELSE RemoveExpired(raised)
  IN IF Missing(x) \/ x.maxError + d > MaxInt
       THEN Raise(peeked)
       ELSE IF ~ Missing(pruned) /\ d = r
         THEN Ok(pruned)
         ELSE IF Missing(pruned) \/ Cardinality(DOMAIN pruned.items) >= MapSize
           THEN Raise(pruned)
           ELSE StoreChecked(pruned, k, pruned.maxError + (r - d))

AddResidual(x, k, r) ==
  CASE k \in DOMAIN x.items -> StoreChecked(x, k, x.items[k] + r)
    [] k \notin DOMAIN x.items /\ Cardinality(DOMAIN x.items) < MapSize
         -> StoreChecked(x, k, x.maxError + r)
    [] OTHER -> PruneAndStore(x, k, r)

-----------------------------------------------------------------------------
(* Calls, confined as in FrequentItems. *)

Usable(s) == entries[s] = NoDict /\ s \notin failed

Outcome(s, result) ==
  /\ sketch' = [sketch EXCEPT ![s] = result.fields]
  /\ failed' = IF result.ok THEN failed ELSE failed \cup {s}

Addable(s, w) == w > 0 /\ sketch[s].total <= MaxInt - w

AddHash(s, k, w) ==
  /\ Usable(s) /\ Addable(s, w)
  /\ Outcome(s, AddResidual([sketch[s] EXCEPT !.total = @ + w], k, w))
  /\ truth' = [truth EXCEPT ![s][k] = @ + w]
  /\ UNCHANGED entries

Residual(x, k) == IF k \in DOMAIN x.items THEN x.items[k] - x.maxError ELSE 0

Combined(x, y) ==
  LET sum(k)  == Residual(x, k) + Residual(y, k)
      present == {k \in DOMAIN x.items \cup DOMAIN y.items : sum(k) > 0}
  IN [k \in present |-> IF sum(k) > MaxInt THEN MaxInt ELSE sum(k)]

Reset(x) == [x EXCEPT !.items = NoDict, !.minimum = EmptyBag]

Mergeable(s, t) ==
  /\ Keying[s] = Keying[t]
  /\ sketch[s].total <= MaxInt - sketch[t].total
  /\ sketch[s].maxError <= MaxInt - sketch[t].maxError

MergeBegin(s, t) ==
  /\ Usable(s) /\ Usable(t) /\ Mergeable(s, t)
  /\ entries' = [entries EXCEPT ![s] = Combined(sketch[s], sketch[t])]
  /\ sketch'  = [sketch EXCEPT ![s] =
                   [Reset(sketch[s]) EXCEPT !.total    = @ + sketch[t].total,
                                            !.maxError = @ + sketch[t].maxError]]
  /\ truth'   = [truth EXCEPT ![s] = [k \in Key |-> truth[s][k] + truth[t][k]]]
  /\ UNCHANGED failed

MergeStep(s, k) ==
  /\ k \in DOMAIN entries[s] /\ \A j \in DOMAIN entries[s] : k <= j
  /\ Outcome(s, AddResidual(sketch[s], k, entries[s][k]))
  /\ entries' = [entries EXCEPT ![s] =
                   IF s \in failed' THEN NoDict ELSE Without(@, k)]
  /\ UNCHANGED truth

(* Calls refused by the preliminary checks, or with nothing to add.        *)
AddRefused(s, w)   == Usable(s) /\ ~ Addable(s, w) /\ UNCHANGED vars
MergeRefused(s, t) == Usable(s) /\ Usable(t) /\ ~ Mergeable(s, t) /\ UNCHANGED vars

Replace(t, fields, true) ==
  /\ entries[t] = NoDict
  /\ sketch' = [sketch EXCEPT ![t] = fields]
  /\ failed' = failed \ {t}
  /\ truth'  = [truth EXCEPT ![t] = true]
  /\ UNCHANGED entries

Clone(s, t) ==
  /\ s # t /\ Keying[s] = Keying[t]
  /\ Usable(s)
  /\ Replace(t, [sketch[s] EXCEPT !.minimum = Rebuilt(sketch[s].items)], truth[s])

EmptySketch ==
  [items |-> NoDict, minimum |-> EmptyBag, maxError |-> 0, total |-> 0]

Init ==
  /\ sketch  = [s \in Sketch |-> EmptySketch]
  /\ entries = [s \in Sketch |-> NoDict]
  /\ failed  = {}
  /\ truth   = [s \in Sketch |-> [k \in Key |-> 0]]

-----------------------------------------------------------------------------
(* The mapping to FrequentItems: a missing key has estimate 0.             *)

AllKeys(dict) == [k \in Key |-> Lookup(dict, k)]

Abstract == INSTANCE FrequentItems WITH
  items    <- [s \in Sketch |-> AllKeys(sketch[s].items)],
  maxError <- [s \in Sketch |-> sketch[s].maxError],
  total    <- [s \in Sketch |-> sketch[s].total],
  pending  <- [s \in Sketch |-> AllKeys(entries[s])]

(* parse rebuilds the heap from the entries it accepted.                   *)
Receive(t, body) ==
  LET items == Restrict(body.items, Abstract!Tracked(body.items))
  IN /\ Abstract!WireAccepts(body.total, body.maxError, body.items)
     /\ Replace(t, [items   |-> items, minimum  |-> Rebuilt(items),
                    total   |-> body.total, maxError |-> body.maxError], body.truth)

Next ==
  \/ \E s \in Sketch, k \in Key, w \in Weight : AddHash(s, k, w)
  \/ \E s \in Sketch, w \in Weight : AddRefused(s, w)
  \/ \E s, t \in Sketch : MergeBegin(s, t)
  \/ \E s, t \in Sketch : MergeRefused(s, t)
  \/ \E s \in Sketch, k \in Key : MergeStep(s, k)
  \/ \E s, t \in Sketch : Clone(s, t)
  \/ \E t \in Sketch, body \in Received : Receive(t, body)

Spec == Init /\ [][Next]_vars

-----------------------------------------------------------------------------
(* Properties. *)

(* The heap of stale pairs finds the same least counter, and expires the   *)
(* same counters, as the specification does by looking at all of them.     *)
Implements == Abstract!Spec

(* Every counter has its current pair in the heap, once, so that the error *)
(* "missing counter" cannot be raised; and whatever the number of updates, *)
(* the heap keeps to twice the map size.                                   *)
HeapSound ==
  \A s \in Sketch :
    /\ \A k \in DOMAIN sketch[s].items :
         Lookup(sketch[s].minimum, <<sketch[s].items[k], k>>) = 1
    /\ HeapSize(sketch[s].minimum) <= 2 * MapSize
=============================================================================

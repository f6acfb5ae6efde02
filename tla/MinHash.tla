------------------------------ MODULE MinHash ------------------------------
(***************************************************************************)
(* The MinHash sketch of python/llm_sketchkit/minhash.py and               *)
(* go/sketchkit/minhash/minhash.go: position by position the least value a *)
(* seeded hash family gives to the hashes added, and the number of         *)
(* additions.  What the similarity estimate counts is the number of        *)
(* positions at which two signatures agree.                                *)
(***************************************************************************)
EXTENDS CountedSketch

CONSTANTS
  Index,        \* the positions of a signature
  Family,       \* [Index -> [Hash -> 0 .. MAX_UINT64]], the hash family
  Body          \* bytes of other producers: [signature, count]

ASSUME IndexAssumption == IsFiniteSet(Index)

(* mix64 is a bijection, so two hashes never share a value at a position.  *)
ASSUME FamilyAssumption ==
  /\ Family \in [Index -> [Hash -> 0 .. MAX_UINT64]]
  /\ \A i \in Index : \A g, h \in Hash : Family[i][g] = Family[i][h] => g = h

ASSUME BodyAssumption ==
  \A b \in Body : /\ b.signature \in [Index -> 0 .. MAX_UINT64]
                  /\ b.count \in 0 .. MAX_UINT64

VARIABLE signature   \* [Index -> 0 .. MAX_UINT64]

vars == <<signature, count, seen, got>>

Empty == [i \in Index |-> MAX_UINT64]
Smaller(m, n) == IF n < m THEN n ELSE m
ValuesOf(h) == [i \in Index |-> Family[i][h]]

(* mutant: one side's value kept where the other holds its initial value   *)
LeastUnset(left, right) ==
  [i \in Index |-> IF right[i] = MAX_UINT64 THEN left[i] ELSE right[i]]
Least(left, right) == [i \in Index |-> Smaller(left[i], right[i])]

WireAccepts(sig, n) == n = 0 => sig = Empty

-----------------------------------------------------------------------------

AddHash(s, h) ==
  /\ count[s] # MAX_UINT64
  /\ signature' = [signature EXCEPT ![s] = Least(@, ValuesOf(h))]
  /\ count'     = [count EXCEPT ![s] = @ + 1]
  /\ seen'      = [seen EXCEPT ![s] = @ \cup {h}]
  /\ UNCHANGED got

AddRefused(s, h) == count[s] = MAX_UINT64 /\ UNCHANGED vars

Merge(s, t) ==
  /\ Mergeable(s, t)
  /\ signature' = [signature EXCEPT ![s] = Least(@, signature[t])]
  /\ count'     = [count EXCEPT ![s] = (@ + count[t]) % (MAX_UINT64 + 1)]
  /\ seen'      = [seen EXCEPT ![s] = @ \cup seen[t]]
  /\ got'       = [got EXCEPT ![s] = @ \cup got[t]]

MergeRefused(s, t) == ~ Mergeable(s, t) /\ UNCHANGED vars

(* clone; or marshal_binary, then parse into an instance of the same       *)
(* profile and domain.                                                     *)
Clone(s, t) ==
  /\ Keying[s] = Keying[t]
  /\ WireAccepts(signature[s], count[s])
  /\ signature' = [signature EXCEPT ![t] = signature[s]]
  /\ count'     = [count EXCEPT ![t] = count[s]]
  /\ seen'      = [seen EXCEPT ![t] = seen[s]]
  /\ got'       = [got EXCEPT ![t] = got[s]]

Receive(s, body) ==
  /\ WireAccepts(body.signature, body.count)
  /\ signature' = [signature EXCEPT ![s] = body.signature]
  /\ count'     = [count EXCEPT ![s] = body.count]
  /\ seen'      = [seen EXCEPT ![s] = {}]
  /\ got'       = [got EXCEPT ![s] = {body}]

(* jaccard_estimate, times the length of a signature; it is refused for    *)
(* sketches of different metadata.                                         *)
Comparable(s, t) == Keying[s] = Keying[t]
Agreements(s, t) == {i \in Index : signature[s][i] = signature[t][i]}

(* mutant: no early returns for sketches nothing was added to              *)
JaccardMatchesPlain(s, t) == Cardinality(Agreements(s, t))
JaccardMatches(s, t) ==
  CASE count[s] = 0 /\ count[t] = 0 -> Cardinality(Index)
    [] count[s] = 0 /\ count[t] # 0 -> 0
    [] count[s] # 0 /\ count[t] = 0 -> 0
    [] OTHER -> Cardinality(Agreements(s, t))

Init ==
  /\ signature = [s \in Sketch |-> Empty]
  /\ count     = [s \in Sketch |-> 0]
  /\ seen      = [s \in Sketch |-> {}]
  /\ got       = [s \in Sketch |-> {}]

Next ==
  \/ \E s \in Sketch, h \in Hash : AddHash(s, h) \/ AddRefused(s, h)
  \/ \E s, t \in Sketch : Merge(s, t) \/ MergeRefused(s, t) \/ Clone(s, t)
  \/ \E s \in Sketch, body \in Body : Receive(s, body)

Spec == Init /\ [][Next]_vars

-----------------------------------------------------------------------------
(* Properties. *)

(* n is the least of the values the hashes and bodies behind s have at i.  *)
IsLeast(n, s, i) ==
  LET values == {MAX_UINT64} \cup {Family[i][h] : h \in seen[s]}
                             \cup {b.signature[i] : b \in got[s]}
  IN n \in values /\ \A v \in values : n <= v

(* A signature is a function of what was added, not of the order of the    *)
(* calls that added it.                                                    *)
SignatureExact == \A s \in Sketch : \A i \in Index : IsLeast(signature[s][i], s, i)

(* The decoder's one consistency rule holds of every sketch: no wrap of    *)
(* the count leaves a populated signature with a count of 0.               *)
WireClosed == \A s \in Sketch : WireAccepts(signature[s], count[s])

(* The hash of S with the least value at i is also in T: what makes the    *)
(* share of such positions an estimate of the similarity of S and T.       *)
LeastIsShared(i, S, T) ==
  \E h \in S \cap T : \A g \in S \cup T : Family[i][h] <= Family[i][g]

(* The estimate counts the positions whose least hash of the union lies in *)
(* the intersection, empty sets and hashes with the largest value          *)
(* included.                                                               *)
JaccardExact ==
  \A s, t \in Sketch :
    Comparable(s, t) /\ got[s] = {} /\ got[t] = {} =>
      JaccardMatches(s, t) =
        IF seen[s] = {} /\ seen[t] = {}
          THEN Cardinality(Index)
          ELSE Cardinality({i \in Index : LeastIsShared(i, seen[s], seen[t])})
=============================================================================

------------------------------- MODULE Bloom -------------------------------
(***************************************************************************)
(* The Bloom filter of python/llm_sketchkit/bloom.py and                   *)
(* go/sketchkit/bloom/bloom.go: a bitset, and the number of insertions     *)
(* behind it.  Instances are updated, merged (with themselves too), cloned *)
(* and decoded from other producers' bytes.                                *)
(***************************************************************************)
EXTENDS CountedSketch

CONSTANTS
  Location,    \* [Hash -> set of positions], the seeded hash family
  FilterBody   \* bytes of other producers: [bitset, count]

ASSUME FilterBodyAssumption == \A b \in FilterBody : b.count \in 0 .. MAX_UINT64

VARIABLE bitset   \* the positions that are set

bloomVars == <<bitset, count, seen, got>>

MayContainHash(s, h) == Location[h] \subseteq bitset[s]

-----------------------------------------------------------------------------

BloomAddHash(s, h) ==
  /\ count[s] # MAX_UINT64
  /\ bitset' = [bitset EXCEPT ![s] = @ \cup Location[h]]
  /\ count'  = [count EXCEPT ![s] = @ + 1]
  /\ seen'   = [seen EXCEPT ![s] = @ \cup {h}]
  /\ UNCHANGED got

(* mutant: the count is checked after the bits were set                    *)
BloomAddRefusedLate(s, h) ==
  /\ count[s] = MAX_UINT64
  /\ bitset' = [bitset EXCEPT ![s] = @ \cup Location[h]]
  /\ UNCHANGED <<count, seen, got>>
BloomAddRefused(s, h) == count[s] = MAX_UINT64 /\ UNCHANGED bloomVars

MergedBits(s, t) == bitset[s] \cup bitset[t]

BloomMerge(s, t) ==
  /\ Mergeable(s, t)
  /\ bitset' = [bitset EXCEPT ![s] = MergedBits(s, t)]
  /\ count'  = [count EXCEPT ![s] = (@ + count[t]) % (MAX_UINT64 + 1)]
  /\ seen'   = [seen EXCEPT ![s] = @ \cup seen[t]]
  /\ got'    = [got EXCEPT ![s] = @ \cup got[t]]

BloomMergeRefused(s, t) == ~ Mergeable(s, t) /\ UNCHANGED bloomVars

(* clone; or marshal_binary, then parse into an instance of the same       *)
(* profile and domain.                                                     *)
BloomClone(s, t) ==
  /\ Keying[s] = Keying[t]
  /\ bitset' = [bitset EXCEPT ![t] = bitset[s]]
  /\ count'  = [count EXCEPT ![t] = count[s]]
  /\ seen'   = [seen EXCEPT ![t] = seen[s]]
  /\ got'    = [got EXCEPT ![t] = got[s]]

(* parse relates the count to the bits in no way.                          *)
BloomReceive(s, body) ==
  /\ bitset' = [bitset EXCEPT ![s] = body.bitset]
  /\ count'  = [count EXCEPT ![s] = body.count]
  /\ seen'   = [seen EXCEPT ![s] = {}]
  /\ got'    = [got EXCEPT ![s] = {body}]

BloomInit ==
  /\ bitset = [s \in Sketch |-> {}]
  /\ count  = [s \in Sketch |-> 0]
  /\ seen   = [s \in Sketch |-> {}]
  /\ got    = [s \in Sketch |-> {}]

BloomNext ==
  \/ \E s \in Sketch, h \in Hash : BloomAddHash(s, h) \/ BloomAddRefused(s, h)
  \/ \E s, t \in Sketch : BloomMerge(s, t) \/ BloomMergeRefused(s, t) \/ BloomClone(s, t)
  \/ \E s \in Sketch, body \in FilterBody : BloomReceive(s, body)

BloomSpec == BloomInit /\ [][BloomNext]_bloomVars

-----------------------------------------------------------------------------
(* Properties. *)

(* A hash inserted anywhere upstream of a sketch is always found in it,    *)
(* whatever was merged, cloned or refused in between.                      *)
NoFalseNegatives == \A s \in Sketch : \A h \in seen[s] : MayContainHash(s, h)

(* The bitset is that of the hashes and bodies behind the sketch and of    *)
(* nothing else: a refused insertion leaves no bit behind it, and order    *)
(* does not matter.                                                        *)
BitsetExact ==
  \A s \in Sketch :
    bitset[s] = (UNION {Location[h] : h \in seen[s]}) \cup (UNION {b.bitset : b \in got[s]})

(* The count is in range and at least the number of different hashes       *)
(* inserted, so a count of 0 means an empty filter of its own making.      *)
CountCoversSeen ==
  \A s \in Sketch :
    /\ count[s] \in 0 .. MAX_UINT64
    /\ Cardinality(seen[s]) <= count[s]
=============================================================================

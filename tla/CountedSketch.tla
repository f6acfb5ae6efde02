--------------------------- MODULE CountedSketch ---------------------------
(***************************************************************************)
(* What Bloom filters and MinHash sketches share: instances with a count   *)
(* of the insertions behind them, which is refused once it would leave the *)
(* unsigned 64-bit range, and the histories by which both are judged.      *)
(***************************************************************************)
EXTENDS Integers, FiniteSets

CONSTANTS
  Sketch,      \* the instances a caller holds
  Keying,      \* [Sketch -> ...] profile, shape, domain and algorithm
  Hash,        \* the hashes that are added
  MAX_UINT64

ASSUME CountAssumption == MAX_UINT64 \in Nat
ASSUME HashAssumption  == IsFiniteSet(Hash)

VARIABLES
  count,     \* inserted_count, populated_count
  seen,      \* history: the hashes behind the sketch
  got        \* history: the received bodies behind it

(* mutant: no overflow check, the sum wraps to 0                           *)
MergeableWrapping(s, t) == Keying[s] = Keying[t]
Mergeable(s, t) ==
  /\ Keying[s] = Keying[t]
  /\ count[s] <= MAX_UINT64 - count[t]
=============================================================================

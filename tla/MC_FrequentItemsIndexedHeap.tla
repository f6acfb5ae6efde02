-------------------- MODULE MC_FrequentItemsIndexedHeap --------------------
(* Small instances of FrequentItemsIndexedHeap for TLC. *)
EXTENDS FrequentItemsIndexedHeap, TLC

MCSameKeying == [s \in Sketch |-> "default"]

(* The instances are interchangeable: they have the same keying.           *)
MCSymmetry == Permutations(Sketch)

(* A body with a full map, as a sketch of this library may write it.       *)
MCReceived ==
  { [total |-> 5, maxError |-> 0, items |-> <<2, 0, 1, 2>>, truth |-> <<2, 0, 1, 2>>] }
=============================================================================

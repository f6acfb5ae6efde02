--------------------- MODULE MC_FrequentItemsLazyHeap ---------------------
(* Small instances of FrequentItemsLazyHeap for TLC. *)
EXTENDS FrequentItemsLazyHeap, TLC

MCSameKeying == [s \in Sketch |-> "default"]

(* The instances are interchangeable: they have the same keying.           *)
MCSymmetry == Permutations(Sketch)

(* A body with a full map, as a sketch of this library may write it.       *)
MCReceived ==
  { [total |-> 5, maxError |-> 1, items |-> <<2, 0, 2>>, truth |-> <<2, 1, 2>>] }
=============================================================================

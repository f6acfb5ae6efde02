------------------------- MODULE MC_FrequentItems -------------------------
(* Small instances of FrequentItems for TLC. *)
EXTENDS FrequentItems, TLC

MCWeight == {-1, 0, 1, 2}

MCSameKeying == [s \in Sketch |-> "default"]

(* The instances are interchangeable: they have the same keying.           *)
MCSymmetry == Permutations(Sketch)

(* A body with a full map, as a sketch of this library may write it.       *)
Body(t, e, entries, true) ==
  [total |-> t, maxError |-> e, items |-> entries, truth |-> true]
MCHonest == { Body(5, 1, <<2, 0, 2, 0>>, <<2, 1, 2, 0>>) }
=============================================================================

------------------------------ MODULE MC_Bloom ------------------------------
(* A small instance of Bloom for TLC. *)
EXTENDS Bloom, HashFamily, TLC

(* Three hashes of four bits, with two of four positions each: {1, 2}, {1} *)
(* and {0, 2}.  The bit of the second is one of the first, and those of    *)
(* the first are covered by the other two.                                 *)
MCShifts == <<3, 2, 2>>
MCMultipliers == <<9, 11>>
MCHash == {0, 1, 3}
MCLocation == [h \in MCHash |-> Locations(h, 2, 4)]

(* A saturated body, and one with bits and no count, which parse accepts.  *)
MCBody == {[bitset |-> {0, 3}, count |-> MAX_UINT64], [bitset |-> {3}, count |-> 0]}

MCLone == CHOOSE s \in Sketch : TRUE
MCTwoKeyings == [s \in Sketch |-> IF s = MCLone THEN "tool:v1" ELSE "prompt:v1"]
=============================================================================

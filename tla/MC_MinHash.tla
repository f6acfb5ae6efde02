----------------------------- MODULE MC_MinHash -----------------------------
(* A small instance of MinHash for TLC. *)
EXTENDS MinHash, HashFamily, TLC

(* Three hashes of two bits at two positions, their values <<3, 1>>,       *)
(* <<2, 0>> and <<1, 3>>: two are each least at one position and the first *)
(* at none, and both positions see the value of an unset position.         *)
MCShifts == <<1, 1, 1>>
MCMultipliers == <<3, 1>>
MCIndex == {0, 1}
MCHash == {0, 2, 3}
MCFamily == [i \in MCIndex |-> [h \in MCHash |-> minhash(h, i)]]

(* A full counter, a count without values, and a body parse refuses.       *)
MCBody == {[signature |-> (0 :> 1 @@ 1 :> 3), count |-> MAX_UINT64],
           [signature |-> Empty, count |-> 1],
           [signature |-> (0 :> 0 @@ 1 :> 0), count |-> 0]}

MCLone == CHOOSE s \in Sketch : TRUE
MCTwoKeyings == [s \in Sketch |-> IF s = MCLone THEN "tool:v1" ELSE "prompt:v1"]
=============================================================================

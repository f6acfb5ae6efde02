--------------------------- MODULE MC_ModelUsage ---------------------------
(* A small instance of ModelUsage for TLC. *)
EXTENDS ModelUsage, TLC

CONSTANTS m1, m2, overflow

MCModel    == {m1, m2, overflow}
MCReserved == {overflow}
MCEdge     == <<0, 2, 3, 4>>

Usage(i, o, r, w) ==
  [input |-> i, output |-> o, cache_read |-> r, cache_write |-> w]
Seen(value) ==
  [value  |-> value, flags |-> [f \in FIELDS |-> {}],
   origin |-> [input |-> "unknown", output |-> "provider_reported"]]

(* One attempt for every way to be counted or excluded, in different bins, *)
(* one whose input is beyond the range, and one whose flag its row refuses.*)
MCObserved ==
  [zero    |-> Seen(Usage(0, 0, 0, 0)),
   small   |-> Seen(Usage(1, 1, 1, 0)),
   large   |-> Seen(Usage(2, 0, 1, 1)),
   part    |-> [Seen(Usage(1, None, 0, 0)) EXCEPT !.origin["output"] = "unavailable"],
   broken  |-> [Seen(Usage(1, None, 1, 1)) EXCEPT !.origin["output"] = "unknown"],
   flagged |-> [Seen(Usage(0, None, 0, 0)) EXCEPT !.flags["cache_read"] = {"subset_violation"},
                                                 !.origin["output"] = "unavailable"],
   wrong   |-> [Seen(Usage(1, 1, 0, 0)) EXCEPT !.flags["input"] = {"subset_violation"}],
   huge    |-> Seen(Usage(5, 0, 0, 0))]
MCAttempt == DOMAIN MCObserved
MCSymmetry == Permutations(Owner) \cup Permutations({m1, m2})
=============================================================================

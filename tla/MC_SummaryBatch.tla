-------------------------- MODULE MC_SummaryBatch --------------------------
(* A small universe of documents for SummaryBatch. *)
EXTENDS SummaryBatch

MCExpected == {1, 2}

Doc(p, e, n, s, t, c, id, w) ==
  [producer |-> p, epoch |-> e, sequence |-> n, window |-> 4, start |-> s, end |-> t,
   contract |-> "A", count |-> c, sketch |-> [id |-> id, weight |-> w]]

One == Doc(1, 1, 1, 4, 5, 1, "x", 1)

(* Two snapshots and their rivals of one epoch, a second epoch that leaves *)
(* a gap, closes it, or overlaps; a second producer, with an empty and     *)
(* with a heavy payload; and documents no batch can hold with the others.  *)
MCCandidate ==
  {One,
   Doc(1, 1, 2, 4, 6, 2, "y", 5),              \* its successor
   Doc(1, 1, 2, 4, 6, 1, "y", 5),              \* conflicts with the successor
   Doc(1, 1, 3, 4, 6, 0, "y", 5),              \* regressed
   Doc(1, 2, 1, 6, 8, 1, "x", 1),              \* a restart
   Doc(1, 3, 1, 5, 5, 0, "z", 0),              \* observed nothing yet
   Doc(2, 1, 1, 4, 8, 0, "z", 0),              \* a whole quiet window
   Doc(2, 1, 2, 4, 8, 5, "y", 5),              \* its busy successor
   Doc(2, 0, 1, 7, 8, 3, "x", 1),              \* overlaps with both
   Doc(3, 1, 1, 4, 8, 1, "x", 1),              \* not expected
   [One EXCEPT !.end = 4],                     \* counts without observing
   [One EXCEPT !.contract = "B", !.producer = 2],
   [One EXCEPT !.window = 0, !.start = 0, !.end = 4, !.producer = 2]}
=============================================================================

------------------------- MODULE MC_SummaryExchange -------------------------
(* Small instances of SummaryExchange for TLC. *)
EXTENDS SummaryExchange

MCTwo == {1, 2}
MCTwoEpochs == <<2, 1>>

\* Of the producer that starts once, one file: what the consumer makes of
\* several snapshots of an epoch shows with those of the other.
MCBound == Cardinality({i \in DOMAIN inputs : inputs[i].producer = 2}) <= 1
=============================================================================

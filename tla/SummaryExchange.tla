-------------------------- MODULE SummaryExchange --------------------------
(***************************************************************************)
(* Producers, a network and a consumer around SummaryCombine, for one      *)
(* window.  Producers count requests, write cumulative snapshots to        *)
(* anywhere, crash, and start again under a fresh epoch; files arrive late,*)
(* twice, out of order or never; the consumer combines whatever it has.    *)
(*                                                                         *)
(* The producers are the library's users (examples/summary-exchange): they *)
(* keep the rules of spec/summary.md by construction.  A producer's epochs *)
(* are numbered by its starts; real ones are unique strings, whose order   *)
(* is not that of the starts.  Batches with epochs in any order of time    *)
(* are those of SummaryBatch.                                              *)
(***************************************************************************)
EXTENDS SummaryCombine

CONSTANTS
  MaxEpoch,     \* bound: process starts of each producer
  MaxReceived   \* bound: files the consumer has

(* No more requests than the counters can hold.                            *)
ASSUME RequestsAssumption == Cardinality(Expected) * Duration <= MAX_INT

VARIABLES
  now,        \* 0 .. Duration; instant t of the window lasts from t to t+1
  process,    \* [Expected -> [up, epoch, sequence, start, count]]
  handled,    \* history: [Expected -> requests handled in the window]
  sent,       \* snapshots written so far, each there for ever
  inputs,     \* snapshots the consumer read, in order, with repetitions
  result      \* what combining them gives: [py, go]

exchangeVars == <<now, process, handled, sent, inputs, result>>

Combined(read) == [py |-> PyCombine(read), go |-> GoCombine(read)]

Snapshot(p, who) ==
  [producer |-> p, epoch |-> who.epoch, sequence |-> who.sequence,
   window |-> 0, start |-> who.start, end |-> now, contract |-> "A",
   count |-> who.count, sketch |-> [id |-> <<p, who.epoch, who.count>>, weight |-> who.count]]

Started(epoch) == [up |-> TRUE, epoch |-> epoch, sequence |-> 0, start |-> now, count |-> 0]
Down(epoch)    == [up |-> FALSE, epoch |-> epoch, sequence |-> 0, start |-> 0, count |-> 0]

-----------------------------------------------------------------------------

(* An instant passes; each running producer may handle a request in it.    *)
Work(busy) ==
  /\ now < Duration
  /\ \A p \in busy : process[p].up
  /\ now' = now + 1
  /\ process' = [p \in Expected |->
                   IF p \in busy THEN [process[p] EXCEPT !.count = @ + 1] ELSE process[p]]
  /\ handled' = [p \in Expected |-> handled[p] + (IF p \in busy THEN 1 ELSE 0)]
  /\ UNCHANGED <<sent, inputs, result>>

StartProcess(p) ==
  /\ ~ process[p].up
  /\ process[p].epoch < MaxEpoch[p]
  /\ process' = [process EXCEPT ![p] = Started(@.epoch + 1)]
  /\ UNCHANGED <<now, handled, sent, inputs, result>>

(* What the process counted since its last snapshot is lost.               *)
Crash(p) ==
  /\ process[p].up
  /\ process' = [process EXCEPT ![p] = Down(@.epoch)]
  /\ UNCHANGED <<now, handled, sent, inputs, result>>

(* A snapshot; one at an instant that has its snapshot would repeat it.    *)
Emit(p) ==
  LET next == [process[p] EXCEPT !.sequence = @ + 1]
  IN /\ process[p].up
     /\ \A d \in sent : ~ (d.producer = p /\ d.epoch = next.epoch /\ d.end = now)
     /\ process' = [process EXCEPT ![p] = next]
     /\ sent' = sent \cup {Snapshot(p, next)}
     /\ UNCHANGED <<now, handled, inputs, result>>

Deliver(d) ==
  /\ Len(inputs) < MaxReceived
  /\ LET read == Append(inputs, d)
     IN inputs' = read /\ result' = Combined(read)
  /\ UNCHANGED <<now, process, handled, sent>>

ExchangeInit ==
  /\ now = 0
  /\ process = [p \in Expected |-> Down(0)]
  /\ handled = [p \in Expected |-> 0]
  /\ sent = {}
  /\ inputs = <<>>
  /\ result = Combined(<<>>)

ExchangeNext ==
  \/ \E busy \in SUBSET Expected : Work(busy)
  \/ \E p \in Expected : StartProcess(p) \/ Crash(p) \/ Emit(p)
  \/ \E d \in sent : Deliver(d)

ExchangeSpec == ExchangeInit /\ [][ExchangeNext]_exchangeVars

-----------------------------------------------------------------------------
(* Properties. *)

(* The consumer's result, with the code of either language.                *)
Results == {result.py, result.go}

(* Loss, repetition, reordering and restarts never make combine fail for   *)
(* producers that keep the rules.                                          *)
HonestAccepted == \A r \in Results : Ok(r.error)

HandledBy(P) == SumFunctionOnSet(handled, P)

(* No request is counted twice, whatever arrives how often.                *)
NeverOvercounts == \A r \in Results : r.count <= HandledBy(Expected)

(* A result with no producer missing or partial counted every request of   *)
(* the window: a crash that lost requests shows as a gap.                  *)
CompleteMeansExact ==
  \A r \in Results :
    Ok(r.error) /\ r.missing = {} /\ r.partial = {} => r.count = HandledBy(Expected)

(* One more file never takes back what a result had: of each epoch it uses *)
(* the same document or a later one.                                       *)
SourcesAdvance ==
  [][ \A old \in ToSet(result.py.sources) :
        \E new \in ToSet(result'.py.sources) :
          SameEpoch(old, new) /\ old.sequence <= new.sequence ]_exchangeVars
=============================================================================

--------------------------- MODULE SummaryCombine ---------------------------
(***************************************************************************)
(* Combining the summaries of one window, as python/llm_sketchkit/summary  *)
(* .py and go/sketchkit/summary/summary.go do it: the first in phases over *)
(* the whole batch, the second in one pass that adds up a producer epoch   *)
(* as soon as the next one begins and holds back the errors this meets.    *)
(*                                                                         *)
(* A document is a record with the fields                                  *)
(*   producer, epoch, sequence   its identity, as numbers in their order,  *)
(*   window, start, end          window start and observed interval,       *)
(*   contract                    everything compatibility compares,        *)
(*   count                       its counters, taken as one,               *)
(*   sketch                      [id, weight] of its sketch payload.       *)
(* Equal documents have equal bytes.  A combined sketch is the sequence of *)
(* the payloads merged into it, since merging need not commute on bytes.   *)
(***************************************************************************)
EXTENDS Integers, FiniteSets, Sequences, SequencesExt

CONSTANTS
  Expected,   \* the producers the caller declares
  Duration,   \* length of a window
  MAX_INT     \* limit of combined counters and sketch weights

ASSUME DurationAssumption == Duration \in Nat \ {0}
ASSUME LimitAssumption    == MAX_INT \in Nat
ASSUME ExpectedAssumption == Expected \subseteq Int /\ IsFiniteSet(Expected)

(* What decoding finds in every document: numbers.                         *)
Numbered(d) ==
  /\ {d.producer, d.epoch, d.sequence, d.window, d.start, d.end, d.count} \subseteq Int
  /\ d.sketch.weight \in Nat

Failure(e) == [error |-> e, count |-> 0, sketch |-> <<>>, sources |-> <<>>,
               missing |-> {}, partial |-> {}]

Ok(e) == e = "none"
First(e, f) == IF Ok(e) THEN f ELSE e

-----------------------------------------------------------------------------
(* One document. *)

Valid(d) ==
  /\ d.sequence > 0
  /\ d.window >= 0 /\ d.window % Duration = 0
  /\ d.window <= d.start /\ d.start <= d.end /\ d.end <= d.window + Duration
  /\ d.count \in 0 .. MAX_INT
  /\ d.start = d.end => d.count = 0 /\ d.sketch.weight = 0

ScanError(d) ==
  IF ~ Valid(d) THEN "invalid"
  ELSE IF d.producer \notin Expected THEN "unexpected" ELSE "none"

(* mutant: the sequence is compared before the epoch                       *)
BeforeBySequence(c, d) ==
  \/ c.producer < d.producer
  \/ c.producer = d.producer /\ c.sequence < d.sequence
  \/ c.producer = d.producer /\ c.sequence = d.sequence /\ c.epoch < d.epoch
Before(c, d) ==
  \/ c.producer < d.producer
  \/ c.producer = d.producer /\ c.epoch < d.epoch
  \/ c.producer = d.producer /\ c.epoch = d.epoch /\ c.sequence < d.sequence

(* By observed interval, then epoch.                                       *)
Earlier(c, d) ==
  \/ c.start < d.start
  \/ c.start = d.start /\ c.end < d.end
  \/ c.start = d.start /\ c.end = d.end /\ c.epoch < d.epoch

(* The documents at the positions I of s in an order that Less allows;     *)
(* which of two equals comes first is left open: sort.Slice is not stable. *)
Sorted(s, I, Less(_, _)) ==
  LET order == CHOOSE p \in [1 .. Cardinality(I) -> I] :
                 \A i, j \in DOMAIN p : i < j => p[i] # p[j] /\ ~ Less(s[p[j]], s[p[i]])
  IN [i \in 1 .. Cardinality(I) |-> s[order[i]]]

InOrder(inputs) == Sorted(inputs, DOMAIN inputs, Before)

SameEpoch(c, d) == c.producer = d.producer /\ c.epoch = d.epoch

(* mutant: the counter may go backwards                                    *)
RegressedInTime(old, new) == new.start # old.start \/ new.end < old.end
Regressed(old, new) ==
  new.start # old.start \/ new.end < old.end \/ new.count < old.count

-----------------------------------------------------------------------------
(* Selecting the latest document of every producer epoch from documents in *)
(* the order of Before.                                                    *)

SelectionError(selected, d) ==
  LET first == Head(selected)  last == Last(selected)
  IN IF selected = <<>> THEN "none"
     ELSE IF d.window # first.window THEN "window"
     ELSE IF d.contract # first.contract THEN "contract"
     ELSE IF ~ SameEpoch(last, d) \/ last = d THEN "none"
     ELSE IF last.sequence = d.sequence THEN "conflict"
     ELSE IF Regressed(last, d) THEN "regressed" ELSE "none"

(* mutant: the first snapshot of an epoch stays                            *)
SelectedOldest(selected, d) ==
  IF selected # <<>> /\ SameEpoch(Last(selected), d)
    THEN selected ELSE Append(selected, d)
Selected(selected, d) ==
  IF selected # <<>> /\ SameEpoch(Last(selected), d)
    THEN Append(Front(selected), d) ELSE Append(selected, d)

-----------------------------------------------------------------------------
(* Adding up.  Python hands the states decoded last, those of the last     *)
(* input, to the first selected payload equal to them and forgets them;    *)
(* mine says that the combined sketch is that very object.                 *)

NothingAdded(cache) ==
  [error |-> "none", count |-> 0, sketch |-> <<>>, weight |-> 0,
   cache |-> cache, mine |-> FALSE]

Merged(acc, payload) ==
  IF acc.sketch # <<>> /\ \A i \in DOMAIN payload : payload[i].weight = 0
    THEN acc.sketch ELSE acc.sketch \o payload

Added(acc, d, payload) ==
  IF ~ Ok(acc.error) THEN acc
  ELSE IF acc.count + d.count > MAX_INT THEN [acc EXCEPT !.error = "overflow"]
  ELSE IF acc.weight + d.sketch.weight > MAX_INT THEN [acc EXCEPT !.error = "merge"]
  ELSE [acc EXCEPT !.count = @ + d.count, !.weight = @ + d.sketch.weight,
                   !.sketch = Merged(acc, payload)]

Cached(acc, d) == acc.cache = <<d.sketch>>

Forgotten(acc, d) == [acc EXCEPT !.cache = <<>>]

PyAdd(acc, d) ==
  IF Cached(acc, d)
    THEN LET payload == IF acc.mine THEN acc.sketch ELSE <<d.sketch>>
             after   == Forgotten(Added(acc, d, payload), d)
         IN [after EXCEPT !.mine = @ \/ acc.sketch = <<>>]
    ELSE Added(acc, d, <<d.sketch>>)

-----------------------------------------------------------------------------
(* Coverage of the window by the selected documents of each producer.      *)

Parts(selected, p) ==
  Sorted(selected, {i \in DOMAIN selected : selected[i].producer = p}, Earlier)

(* mutant: only overlaps are looked for between two epochs                 *)
WalkedGapless(w, d) ==
  [end |-> d.end, overlap |-> w.overlap \/ d.start < w.end, gap |-> w.gap]
Walked(w, d) ==
  [end |-> d.end, overlap |-> w.overlap \/ d.start < w.end,
   gap |-> w.gap \/ d.start # w.end]

Walk(parts) ==
  FoldLeft(Walked, [end |-> Head(parts).window, overlap |-> FALSE, gap |-> FALSE], parts)

Covered(acc, selected) ==
  LET missing == {p \in Expected : \A i \in DOMAIN selected : selected[i].producer # p}
      walk    == [p \in Expected \ missing |-> Walk(Parts(selected, p))]
      Open(p) == walk[p].gap \/ walk[p].end # Head(selected).window + Duration
  IN IF ~ Ok(acc.error) THEN Failure(acc.error)
     ELSE IF \E p \in DOMAIN walk : walk[p].overlap THEN Failure("overlap")
     ELSE [error |-> "none", count |-> acc.count, sketch |-> acc.sketch,
           sources |-> selected, missing |-> missing,
           partial |-> {p \in DOMAIN walk : Open(p)}]

-----------------------------------------------------------------------------
(* Python: validate in input order; sort; select; add up; cover.           *)

PySelect(st, d) ==
  LET e == First(st.error, SelectionError(st.selected, d))
  IN [error |-> e, selected |-> IF Ok(e) THEN Selected(st.selected, d) ELSE st.selected]

PyCombine(inputs) ==
  LET scanned == FoldLeft(LAMBDA e, d : First(e, ScanError(d)), "none", inputs)
      chosen  == FoldLeft(PySelect, [error |-> scanned, selected |-> <<>>],
                          IF Ok(scanned) THEN InOrder(inputs) ELSE <<>>)
      cache   == IF inputs = <<>> THEN <<>> ELSE <<Last(inputs).sketch>>
      summed  == FoldLeft(PyAdd, NothingAdded(cache), chosen.selected)
  IN IF Ok(chosen.error) THEN Covered(summed, chosen.selected) ELSE Failure(chosen.error)

-----------------------------------------------------------------------------
(* Go: sort; then validate, select and add up in one pass.                 *)

AddLast(st) == Added(st.summed, Last(st.selected), <<Last(st.selected).sketch>>)

(* mutant: an epoch is added up when its first document has been replaced  *)
EpochEndsEarly(st, d) == st.selected # <<>> /\ Last(st.selected) # d
EpochEnds(st, d) == st.selected # <<>> /\ ~ SameEpoch(Last(st.selected), d)

(* mutant: an error of adding up stops the pass                            *)
PassErrorEager(st, d) ==
  First(st.summed.error, First(ScanError(d), SelectionError(st.selected, d)))
PassError(st, d) == First(ScanError(d), SelectionError(st.selected, d))

PassStep(st, d) ==
  LET e == First(st.error, PassError(st, d))
  IN IF Ok(e)
       THEN [error    |-> e,
             summed   |-> IF EpochEnds(st, d) THEN AddLast(st) ELSE st.summed,
             selected |-> Selected(st.selected, d)]
       ELSE [st EXCEPT !.error = e]

GoCombine(inputs) ==
  LET pass == FoldLeft(PassStep, [error |-> "none", summed |-> NothingAdded(<<>>),
                                  selected |-> <<>>], InOrder(inputs))
      last == IF pass.selected = <<>> THEN pass.summed ELSE AddLast(pass)
  IN IF Ok(pass.error) THEN Covered(last, pass.selected) ELSE Failure(pass.error)
=============================================================================

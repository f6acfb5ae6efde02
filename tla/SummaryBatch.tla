---------------------------- MODULE SummaryBatch ----------------------------
(***************************************************************************)
(* Every batch a caller can hand to SummaryCombine, built up document by   *)
(* document in every order and with repetitions, valid or not; and what    *)
(* combining it means, stated without regard to order.                     *)
(***************************************************************************)
EXTENDS SummaryCombine

CONSTANTS
  Candidate,  \* the documents a batch is made of
  MaxBatch    \* the largest number of documents in a batch

ASSUME CandidateAssumption == \A d \in Candidate : Numbered(d)

VARIABLE batch

BatchInit == batch = <<>>
BatchNext == \E d \in Candidate : Len(batch) < MaxBatch /\ batch' = Append(batch, d)
BatchSpec == BatchInit /\ [][BatchNext]_batch

-----------------------------------------------------------------------------
(* The meaning of a batch, as the set D of its documents.                  *)

Usable(D) ==
  /\ \A d \in D : Valid(d) /\ d.producer \in Expected
  /\ \A c, d \in D : c.window = d.window /\ c.contract = d.contract
  /\ \A c, d \in D : SameEpoch(c, d) =>
       /\ c.sequence = d.sequence => c = d
       /\ c.sequence < d.sequence =>
            c.start = d.start /\ c.end <= d.end /\ c.count <= d.count

Latest(D) == {d \in D : \A c \in D : SameEpoch(c, d) => c.sequence <= d.sequence}

Count(L)  == SumFunction([d \in L |-> d.count])
Weight(L) == SumFunction([d \in L |-> d.sketch.weight])

Fits(L) == Count(L) <= MAX_INT /\ Weight(L) <= MAX_INT

Disjoint(L) ==
  \A c, d \in L : c # d /\ c.producer = d.producer => c.end <= d.start \/ d.end <= c.start

Combinable(D) == Usable(D) /\ Fits(Latest(D)) /\ Disjoint(Latest(D))

(* The instants of the window that p observed.                             *)
Observed(L, p) == UNION {d.start .. d.end - 1 : d \in {e \in L : e.producer = p}}

IsResult(r, D) ==
  LET L == Latest(D)
  IN /\ r.count = Count(L)
     /\ ToSet(r.sources) = L /\ Len(r.sources) = Cardinality(L)
     /\ r.missing = {p \in Expected : \A d \in L : d.producer # p}
     /\ r.partial = {p \in Expected \ r.missing :
                       \E d \in L : Observed(L, p) # d.window .. d.window + Duration - 1}
     /\ Len(r.sketch) =
          LET full == {d \in L : d.sketch.weight # 0}
          IN Cardinality(full \cup {d \in L : d = Head(r.sources)})

Batch == ToSet(batch)

-----------------------------------------------------------------------------
(* Properties. *)

(* combine succeeds exactly on the batches that have a meaning, and gives  *)
(* that meaning: the latest document of every epoch counted once, whatever *)
(* the order and the repetitions of the inputs.  Go accepts the same       *)
(* batches and combines them alike, to the order of the payloads it merges.*)
OutcomeExact ==
  LET p == PyCombine(batch)  g == GoCombine(batch)
  IN /\ Ok(p.error) <=> Combinable(Batch)
     /\ Ok(p.error) => IsResult(p, Batch)
     /\ Ok(p.error) \/ Ok(g.error) => p = g

(* "input validation and selection errors must still precede every counter *)
(* or sketch merge error" (summary.go), in both.                           *)
SelectionErrorsFirst ==
  \A r \in {PyCombine(batch), GoCombine(batch)} :
    r.error \in {"overflow", "merge", "overlap"} => Usable(Batch)
=============================================================================

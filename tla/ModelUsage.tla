----------------------------- MODULE ModelUsage -----------------------------
(***************************************************************************)
(* The model-usage block of a summary: python/llm_sketchkit/model_usage.py *)
(* and go/sketchkit/modelusage.  Every accepted attempt becomes a row of   *)
(* its model; rows are added up; blocks of different owners are merged; a  *)
(* validator checks what must be conserved, whoever wrote the block.       *)
(***************************************************************************)
EXTENDS Integers, FiniteSets, FiniteSetsExt

CONSTANTS
  Owner,      \* those who hold a block
  Model,      \* model names, the reserved ones included
  Reserved,   \* names that need no room
  MaxModels,  \* the largest number of other names
  Attempt,    \* attempts that may be collected
  Observed,   \* [Attempt -> [value, flags, origin]], functions on fields
  Edge,       \* [Bin -> upper edge], the last one MaxInt
  MaxInt,     \* the largest signed 64-bit integer
  MaxCollected  \* bound: attempts in all blocks while any still collects

None    == -1     \* a value that was not observed, an extremum of nothing
FIELDS  == {"input", "output", "cache_read", "cache_write"}
ORIGINS == {"provider_reported", "inferred", "unavailable", "unknown"}
FLAGS   == {"invalid", "conflict", "subset_violation"}
Sourced == {"input", "output"}
REASONS == {"invalid_usage", "missing_split", "zero_origin_unknown"}
Bin     == 1 .. 4
Amounts == 0 .. MaxInt

Observation ==
  [value: [FIELDS -> Int], flags: [FIELDS -> SUBSET FLAGS], origin: [Sourced -> ORIGINS]]

ASSUME MaxIntAssumption   == MaxInt \in Nat
ASSUME MaxModelsAssumption == MaxModels \in Nat
ASSUME AttemptAssumption  == IsFiniteSet(Attempt)
ASSUME EdgeAssumption     == Edge \in [Bin -> Nat] /\ Edge[4] = MaxInt
                             /\ Edge[1] < Edge[2] /\ Edge[2] < Edge[3] /\ Edge[3] < Edge[4]
ASSUME ObservedAssumption ==
  /\ Observed \in [Attempt -> Observation]
  /\ \A a \in Attempt, f \in FIELDS : Observed[a].value[f] >= None

VARIABLES
  block,    \* [Owner -> rows by model name]
  behind    \* history: [Owner -> [Model \X Attempt -> how often]]

vars == <<block, behind>>

Low(i) == IF i = 1 THEN 0 ELSE Edge[i - 1] + 1
Sum4(F(_)) == F(1) + F(2) + F(3) + F(4)
One(P) == IF P THEN 1 ELSE 0

(* The structs of the wire form, member by member.                         *)
PerField(F(_)) ==
  [input |-> F("input"), output |-> F("output"),
   cache_read |-> F("cache_read"), cache_write |-> F("cache_write")]
PerSourced(F(_)) == [input |-> F("input"), output |-> F("output")]
PerFlag(F(_)) ==
  [invalid |-> F("invalid"), conflict |-> F("conflict"),
   subset_violation |-> F("subset_violation")]
PerReason(F(_)) ==
  [invalid_usage |-> F("invalid_usage"), missing_split |-> F("missing_split"),
   zero_origin_unknown |-> F("zero_origin_unknown")]
PerOrigin(F(_)) ==
  [provider_reported |-> F("provider_reported"), inferred |-> F("inferred"),
   unavailable |-> F("unavailable"), unknown |-> F("unknown")]
PerBin(F(_)) == <<F(1), F(2), F(3), F(4)>>

-----------------------------------------------------------------------------
(* Cohorts: attempts whose four components are all known.                  *)

NoTokens    == PerField(LAMBDA f : 0)
EmptyCohort == [requests |-> 0, tokens |-> NoTokens, min |-> None, max |-> None]

Least(m, n) ==
  IF m = None THEN n ELSE IF n = None THEN m ELSE IF n < m THEN n ELSE m
(* mutant: the later value wins                                            *)
GreatestLater(m, n) == IF n = None THEN m ELSE n
Greatest(m, n) == IF n > m THEN n ELSE m    \* null is below every value

AddCohort(c, d) ==
  [requests |-> c.requests + d.requests,
   tokens   |-> PerField(LAMBDA f : c.tokens[f] + d.tokens[f]),
   min      |-> Least(c.min, d.min),
   max      |-> Greatest(c.max, d.max)]

(* No scalar has left the range.                                           *)
CohortFits(c) == c.requests \in Amounts /\ \A f \in FIELDS : c.tokens[f] \in Amounts
CohortInRange(c) ==
  /\ CohortFits(c)
  /\ c.min \in Amounts \cup {None} /\ c.max \in Amounts \cup {None}

NoCohort(c) == c.min = None /\ c.max = None /\ c.tokens = NoTokens

(* _cohort                                                                 *)
PyCohort(c) ==
  LET n == c.requests  total == c.tokens["input"]
  IN /\ CohortInRange(c)
     /\ n = 0 => NoCohort(c)
     /\ n # 0 => /\ c.min # None /\ c.max # None /\ c.min <= c.max
                 /\ n * c.min <= total /\ total <= n * c.max
                 /\ (n - 1) * c.min + c.max <= total
                 /\ total <= c.min + (n - 1) * c.max
     /\ c.tokens["cache_read"] + c.tokens["cache_write"] <= total

(* mutant: the bounds on the sum are taken to order the extrema            *)
GoCohortUnordered(c) ==
  LET n == c.requests  total == c.tokens["input"]
  IN /\ CohortInRange(c)
     /\ n = 0 => NoCohort(c)
     /\ n # 0 => /\ c.min # None /\ c.max # None
                 /\ (n - 1) * c.min + c.max <= total
                 /\ total <= (n - 1) * c.max + c.min
     /\ c.tokens["cache_read"] <= total
     /\ c.tokens["cache_write"] <= total - c.tokens["cache_read"]
(* Cohort.validate; its products are of unbounded integers.                *)
GoCohort(c) ==
  LET n == c.requests  total == c.tokens["input"]
  IN /\ CohortInRange(c)
     /\ n = 0 => NoCohort(c)
     /\ n # 0 => /\ c.min # None /\ c.max # None /\ c.min <= c.max
                 /\ (n - 1) * c.min + c.max <= total
                 /\ total <= (n - 1) * c.max + c.min
     /\ c.tokens["cache_read"] <= total
     /\ c.tokens["cache_write"] <= total - c.tokens["cache_read"]

-----------------------------------------------------------------------------
(* Rows. *)

(* _sum, addValidated: every scalar added, the extrema joined.             *)
AddField(f, g) ==
  [tokens |-> f.tokens + g.tokens, reported |-> f.reported + g.reported,
   missing |-> f.missing + g.missing,
   flags |-> PerFlag(LAMBDA x : f.flags[x] + g.flags[x])]

AddBin(b, c) ==
  [reported |-> [requests |-> b.reported.requests + c.reported.requests,
                 tokens   |-> b.reported.tokens + c.reported.tokens],
   complete |-> AddCohort(b.complete, c.complete)]

AddRow(r, s) ==
  [requests   |-> r.requests + s.requests,
   violations |-> r.violations + s.violations,
   fields     |-> PerField(LAMBDA f : AddField(r.fields[f], s.fields[f])),
   excluded   |-> PerReason(LAMBDA x : r.excluded[x] + s.excluded[x]),
   provenance |-> PerSourced(LAMBDA f :
                    PerOrigin(LAMBDA x : r.provenance[f][x] + s.provenance[f][x])),
   complete   |-> AddCohort(r.complete, s.complete),
   histogram  |-> PerBin(LAMBDA i : AddBin(r.histogram[i], s.histogram[i]))]

InRange(r) ==
  /\ r.requests \in Amounts /\ r.violations \in Amounts
  /\ \A x \in REASONS : r.excluded[x] \in Amounts
  /\ \A f \in FIELDS : LET u == r.fields[f] IN
       /\ u.tokens \in Amounts /\ u.reported \in Amounts /\ u.missing \in Amounts
       /\ \A x \in FLAGS : u.flags[x] \in Amounts
  /\ \A f \in Sourced, x \in ORIGINS : r.provenance[f][x] \in Amounts
  /\ CohortFits(r.complete)
  /\ \A i \in Bin : LET b == r.histogram[i] IN
       /\ CohortFits(b.complete)
       /\ b.reported.requests \in Amounts /\ b.reported.tokens \in Amounts

(* What both validators check in the same words.                           *)
FieldsConserved(r) ==
  /\ r.requests > 0 /\ r.violations <= r.requests
  /\ \A f \in FIELDS :
       /\ r.fields[f].reported + r.fields[f].missing = r.requests
       /\ \A x \in FLAGS : r.fields[f].flags[x] <= r.requests
       /\ r.fields[f].reported = 0 => r.fields[f].tokens = 0
       /\ f \in Sourced => r.fields[f].flags["subset_violation"] = 0

CompleteConserved(r) ==
  /\ r.violations <= r.excluded["invalid_usage"]
  /\ \A f \in FIELDS :
       /\ r.complete.requests <= r.fields[f].reported
       /\ r.complete.tokens[f] <= r.fields[f].tokens
       /\ r.complete.requests = r.fields[f].reported =>
            r.complete.tokens[f] = r.fields[f].tokens

OriginsConserved(r) ==
  \A f \in Sourced : LET p == r.provenance[f] IN
    /\ p["provider_reported"] + p["inferred"] + p["unavailable"] + p["unknown"] = r.requests
    /\ p["unavailable"] <= r.fields[f].missing
    /\ p["provider_reported"] + p["inferred"] <= r.fields[f].reported

(* mutant: the upper edge of a bin belongs to the next one                 *)
BinConservedOpen(b, i) ==
  /\ b.reported.requests * Low(i) <= b.reported.tokens
  /\ b.reported.tokens < b.reported.requests * Edge[i]
BinConserved(b, i) ==
  /\ b.reported.requests * Low(i) <= b.reported.tokens
  /\ b.reported.tokens <= b.reported.requests * Edge[i]
  /\ b.complete.requests <= b.reported.requests
  /\ b.complete.tokens["input"] <= b.reported.tokens
  /\ b.complete.requests = b.reported.requests =>
       b.complete.tokens["input"] = b.reported.tokens
  /\ b.complete.requests # 0 => Low(i) <= b.complete.min /\ b.complete.max <= Edge[i]

Excluded(r) ==
  r.excluded["invalid_usage"] + r.excluded["missing_split"] + r.excluded["zero_origin_unknown"]

(* validate_row: sums are unbounded, extrema those of the occupied bins.   *)
PyRow(r) ==
  LET bin == r.histogram  c == r.complete
      occupied == {i \in Bin : bin[i].complete.requests # 0}
  IN /\ InRange(r)
     /\ FieldsConserved(r) /\ PyCohort(c)
     /\ c.requests + Excluded(r) = r.requests
     /\ CompleteConserved(r) /\ OriginsConserved(r)
     /\ \A i \in Bin : PyCohort(bin[i].complete) /\ BinConserved(bin[i], i)
     /\ Sum4(LAMBDA i : bin[i].reported.requests) = r.fields["input"].reported
     /\ Sum4(LAMBDA i : bin[i].reported.tokens) = r.fields["input"].tokens
     /\ Sum4(LAMBDA i : bin[i].complete.requests) = c.requests
     /\ \A f \in FIELDS : Sum4(LAMBDA i : bin[i].complete.tokens[f]) = c.tokens[f]
     /\ occupied = {} => c.min = None /\ c.max = None
     /\ occupied # {} => /\ c.min = Min({bin[i].complete.min : i \in occupied})
                         /\ c.max = Max({bin[i].complete.max : i \in occupied})

(* Model.Validate: the bins are added up like rows, and every sum of       *)
(* scalars must fit 64 bits by itself.                                     *)
GoRow(r) ==
  LET bin == r.histogram
      reported == Sum4(LAMBDA i : bin[i].reported.requests)
      tokens   == Sum4(LAMBDA i : bin[i].reported.tokens)
      complete == AddCohort(AddCohort(AddCohort(AddCohort(EmptyCohort,
                    bin[1].complete), bin[2].complete), bin[3].complete), bin[4].complete)
  IN /\ InRange(r)
     /\ FieldsConserved(r) /\ GoCohort(r.complete)
     /\ r.complete.requests + Excluded(r) \in Amounts
     /\ r.complete.requests + Excluded(r) = r.requests
     /\ CompleteConserved(r) /\ OriginsConserved(r)
     /\ \A i \in Bin : GoCohort(bin[i].complete) /\ BinConserved(bin[i], i)
     /\ reported \in Amounts /\ tokens \in Amounts
     /\ CohortFits(complete)
     /\ reported = r.fields["input"].reported /\ tokens = r.fields["input"].tokens
     /\ complete = r.complete

-----------------------------------------------------------------------------
(* One attempt as a row. *)

Value(a, f)    == Observed[a].value[f]
Missing(a)     == \E f \in FIELDS : Value(a, f) = None
Partitioned(a) ==
  {Value(a, "input"), Value(a, "cache_read"), Value(a, "cache_write")} \subseteq Nat
    => Value(a, "cache_read") + Value(a, "cache_write") <= Value(a, "input")
Invalid(a) == ~ Partitioned(a) \/ \E f \in FIELDS : Observed[a].flags[f] # {}
ZeroOfUnknownOrigin(a) ==
  /\ Value(a, "input") = 0 /\ Value(a, "output") = 0
  /\ \E f \in Sourced : Observed[a].origin[f] = "unknown"

(* mutant: what is missing hides what is invalid                           *)
ReasonMissingFirst(a) ==
  IF Missing(a) THEN "missing_split"
  ELSE IF Invalid(a) THEN "invalid_usage"
  ELSE IF ZeroOfUnknownOrigin(a) THEN "zero_origin_unknown" ELSE "complete"
Reason(a) ==
  IF Invalid(a) THEN "invalid_usage"
  ELSE IF Missing(a) THEN "missing_split"
  ELSE IF ZeroOfUnknownOrigin(a) THEN "zero_origin_unknown" ELSE "complete"

Tokens(a, f) == IF Value(a, f) = None THEN 0 ELSE Value(a, f)
Cohort(a) ==
  [requests |-> 1, tokens |-> PerField(LAMBDA f : Tokens(a, f)),
   min |-> Value(a, "input"), max |-> Value(a, "input")]
BinOf(n) == CHOOSE i \in Bin : Low(i) <= n /\ n <= Edge[i]

RowOf(a) ==
  LET complete == IF Reason(a) = "complete" THEN Cohort(a) ELSE EmptyCohort
      input    == Value(a, "input")
      Here(i)  == input # None /\ i = BinOf(input)
  IN [requests   |-> 1,
      violations |-> One(~ Partitioned(a)),
      fields     |-> PerField(LAMBDA f :
                        [tokens   |-> Tokens(a, f),
                         reported |-> One(Value(a, f) # None),
                         missing  |-> One(Value(a, f) = None),
                         flags    |-> PerFlag(LAMBDA x : One(x \in Observed[a].flags[f]))]),
      excluded   |-> PerReason(LAMBDA x : One(Reason(a) = x)),
      provenance |-> PerSourced(LAMBDA f : PerOrigin(LAMBDA x : One(Observed[a].origin[f] = x))),
      complete   |-> complete,
      histogram  |-> PerBin(LAMBDA i :
                        [reported |-> [requests |-> One(Here(i)),
                                       tokens   |-> IF Here(i) THEN input ELSE 0],
                         complete |-> IF Here(i) THEN complete ELSE EmptyCohort])]

(* What is staged for an attempt is validated before it is added.          *)
Row    == [a \in {b \in Attempt : \A f \in FIELDS : Value(b, f) <= MaxInt} |-> RowOf(a)]
Staged == {a \in DOMAIN Row : PyRow(Row[a]) /\ GoRow(Row[a])}

-----------------------------------------------------------------------------
(* Blocks: rows by model name. *)

Total(rows, Scalar(_)) == SumFunction([m \in DOMAIN rows |-> Scalar(rows[m])])
TotalRequests(rows)  == Total(rows, LAMBDA r : r.requests)
TotalTokens(rows, f) == Total(rows, LAMBDA r : r.fields[f].tokens)

TotalsFit(rows) ==
  TotalRequests(rows) <= MaxInt /\ \A f \in FIELDS : TotalTokens(rows, f) <= MaxInt

NamesFit(names) == Cardinality(names \ Reserved) <= MaxModels

PyBlock(rows) ==
  NamesFit(DOMAIN rows) /\ TotalsFit(rows) /\ \A m \in DOMAIN rows : PyRow(rows[m])
GoBlock(rows) ==
  NamesFit(DOMAIN rows) /\ TotalsFit(rows) /\ \A m \in DOMAIN rows : GoRow(rows[m])

Merged(rows, more) ==
  [m \in DOMAIN rows \cup DOMAIN more |->
     IF m \notin DOMAIN more THEN rows[m]
     ELSE IF m \notin DOMAIN rows THEN more[m]
     ELSE AddRow(rows[m], more[m])]

(* What merge checks of the names before, and of the sums as it adds.      *)
Fits(rows) ==
  /\ NamesFit(DOMAIN rows)
  /\ TotalsFit(rows)
  /\ \A m \in DOMAIN rows : InRange(rows[m])

(* check_regression, CheckRegression: an older block against a newer one.  *)
(* Scalars are compared by position.                                       *)
(* mutant: the least input is compared like a count                        *)
CohortRegressedAlike(c, d) ==
  \/ d.requests < c.requests \/ \E f \in FIELDS : d.tokens[f] < c.tokens[f]
  \/ d.min < c.min \/ d.max < c.max
CohortRegressed(c, d) ==
  \/ d.requests < c.requests \/ \E f \in FIELDS : d.tokens[f] < c.tokens[f]
  \/ c.min # None /\ (d.min = None \/ d.min > c.min)
  \/ c.max # None /\ (d.max = None \/ d.max < c.max)

RowRegressed(r, s) ==
  \/ s.requests < r.requests \/ s.violations < r.violations
  \/ \E x \in REASONS : s.excluded[x] < r.excluded[x]
  \/ \E f \in Sourced, x \in ORIGINS : s.provenance[f][x] < r.provenance[f][x]
  \/ \E f \in FIELDS : LET u == r.fields[f]  v == s.fields[f] IN
       \/ v.tokens < u.tokens \/ v.reported < u.reported \/ v.missing < u.missing
       \/ \E x \in FLAGS : v.flags[x] < u.flags[x]
  \/ CohortRegressed(r.complete, s.complete)
  \/ \E i \in Bin : LET b == r.histogram[i]  c == s.histogram[i] IN
       \/ CohortRegressed(b.complete, c.complete)
       \/ c.reported.requests < b.reported.requests
       \/ c.reported.tokens < b.reported.tokens

Regressed(old, new) ==
  \E m \in DOMAIN old : m \notin DOMAIN new \/ RowRegressed(old[m], new[m])

-----------------------------------------------------------------------------
(* Calls. *)

NoRows == [m \in {} |-> 0]
With(rows, m, a) == Merged(rows, [n \in {m} |-> Row[a]])

(* collect; Go leaves the block to its caller, who keeps the same limits.  *)
Collect(o, m, a) ==
  LET new == With(block[o], m, a)
  IN /\ MapThenSumSet(LAMBDA p : TotalRequests(block[p]), Owner) < MaxCollected
     /\ a \in Staged /\ Fits(new)
     /\ block'  = [block EXCEPT ![o] = new]
     /\ behind' = [behind EXCEPT ![o][<<m, a>>] = @ + 1]

CollectRefused(o, m, a) ==
  /\ a \in Staged => ~ Fits(With(block[o], m, a))
  /\ UNCHANGED vars

Merge(o, p) ==
  LET new == Merged(block[o], block[p])
  IN /\ Fits(new)
     /\ block'  = [block EXCEPT ![o] = new]
     /\ behind' = [behind EXCEPT ![o] = [x \in Model \X Attempt |-> @[x] + behind[p][x]]]

MergeRefused(o, p) == ~ Fits(Merged(block[o], block[p])) /\ UNCHANGED vars

Init ==
  /\ block  = [o \in Owner |-> NoRows]
  /\ behind = [o \in Owner |-> [x \in Model \X Attempt |-> 0]]

Next ==
  \/ \E o \in Owner, m \in Model, a \in Attempt : Collect(o, m, a) \/ CollectRefused(o, m, a)
  \/ \E o, p \in Owner : Merge(o, p) \/ MergeRefused(o, p)

Spec == Init /\ [][Next]_vars

-----------------------------------------------------------------------------
(* Properties. *)

(* How many of the attempts A are behind the row of m, and their tokens.   *)
Times(o, m, A) == SumFunction([a \in A |-> behind[o][<<m, a>>]])
Tally(o, m, A, f) ==
  SumFunction([a \in A |-> IF Value(a, f) = None THEN 0 ELSE behind[o][<<m, a>>] * Value(a, f)])

Flagged ==
  {a \in Attempt :
     \/ \E f \in FIELDS : Observed[a].flags[f] # {}
     \/ /\ \A f \in FIELDS \ {"output"} : Value(a, f) # None
        /\ Value(a, "cache_read") + Value(a, "cache_write") > Value(a, "input")}
Clean ==
  {a \in Attempt \ Flagged :
     /\ \A f \in FIELDS : Value(a, f) # None
     /\ Value(a, "input") + Value(a, "output") > 0
          \/ \A f \in Sourced : Observed[a].origin[f] # "unknown"}
Tier == [i \in Bin |-> {a \in Attempt : Value(a, "input") \in Low(i) .. Edge[i]}]

IsCohortOf(c, o, m, A) ==
  LET inputs == {Value(a, "input") : a \in {b \in A : behind[o][<<m, b>>] > 0}}
  IN /\ c.requests = Times(o, m, A)
     /\ \A f \in FIELDS : c.tokens[f] = Tally(o, m, A, f)
     /\ inputs = {} => c.min = None /\ c.max = None
     /\ inputs # {} => c.min = Min(inputs) /\ c.max = Max(inputs)

(* A row says what the attempts behind it say, whatever their order and    *)
(* however they were spread over owners before a merge: every request and  *)
(* every token is in it (the block must agree with the base counters that  *)
(* are committed together with it), and it tells how many were clean, what *)
(* these used, in which input tier; nothing flagged or incomplete is among *)
(* them.                                                                   *)
RowsExact ==
  \A o \in Owner :
    /\ DOMAIN block[o] = {m \in Model : Times(o, m, Attempt) > 0}
    /\ \A m \in DOMAIN block[o] : LET r == block[o][m] IN
       /\ r.requests = Times(o, m, Attempt)
       /\ \A f \in FIELDS : r.fields[f].tokens = Tally(o, m, Attempt, f)
       /\ r.excluded["invalid_usage"] = Times(o, m, Flagged)
       /\ IsCohortOf(r.complete, o, m, Clean)
       /\ \A i \in Bin : LET bin == r.histogram[i] IN
            /\ IsCohortOf(bin.complete, o, m, Clean \cap Tier[i])
            /\ bin.reported.requests = Times(o, m, Tier[i])
            /\ bin.reported.tokens = Tally(o, m, Tier[i], "input")

(* Either validator accepts whatever collecting and merging produced.      *)
BlocksValid == \A o \in Owner : PyBlock(block[o]) /\ GoBlock(block[o])

(* A block that grew is accepted as the successor of the one before.       *)
NeverRegresses == [][\A o \in Owner : ~ Regressed(block[o], block'[o])]_vars

(* What the caller's contract allows: components fit, and what a source is *)
(* said to have reported is there, what it could not report is not.        *)
WellFormed(a) ==
  /\ \A f \in FIELDS : Value(a, f) <= MaxInt
  /\ \A f \in Sourced :
       /\ "subset_violation" \notin Observed[a].flags[f]
       /\ Observed[a].origin[f] \in {"provider_reported", "inferred"} => Value(a, f) # None
       /\ Observed[a].origin[f] = "unavailable" => Value(a, f) = None

(* A well-formed attempt is refused only when its model has no room or a   *)
(* total of the block would leave 64 bits: no sum inside a row is at its   *)
(* limit before.                                                           *)
RefusedOnlyWhenFull ==
  \A o \in Owner, m \in Model, a \in Attempt :
    ( /\ WellFormed(a)
      /\ NamesFit(DOMAIN block[o] \cup {m})
      /\ TotalRequests(block[o]) < MaxInt
      /\ \A f \in FIELDS : TotalTokens(block[o], f) + Tokens(a, f) <= MaxInt )
    => a \in Staged /\ Fits(With(block[o], m, a))

(* Rows a peer may send that differ a little from those produced here: one *)
(* scalar of an occupied bin is off by one, and so is that of the row.     *)
Off(c, part, d) ==
  CASE part = "requests" -> [c EXCEPT !.requests = @ + d]
    [] part = "min"      -> [c EXCEPT !.min = @ + d]
    [] part = "max"      -> [c EXCEPT !.max = @ + d]
    [] part \in FIELDS   -> [c EXCEPT !.tokens[part] = @ + d]
Part == {"requests", "min", "max"} \cup FIELDS
Altered(r, part, d, i) ==
  [r EXCEPT !.complete = Off(@, part, d), !.histogram[i].complete = Off(@, part, d)]
Tampered(r) ==
  {Altered(r, part, d, i) : part \in Part, d \in {-1, 1},
     i \in {j \in Bin : r.histogram[j].complete.requests > 0}}

(* The two validators agree about such rows.                               *)
SameVerdict ==
  \A o \in Owner : \A m \in DOMAIN block[o] :
    \A r \in Tampered(block[o][m]) : PyRow(r) <=> GoRow(r)
=============================================================================

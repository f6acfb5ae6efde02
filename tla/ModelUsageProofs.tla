-------------------------- MODULE ModelUsageProofs --------------------------
(***************************************************************************)
(* Proofs about ModelUsage, for every set of owners, models and attempts   *)
(* and any width of the counters, and about the names under which its rows *)
(* are kept (Identity).                                                    *)
(*   - The two validators of a cohort, of a row and of a block give the    *)
(*     same verdict about anything a peer may send.                        *)
(*   - Rows that obey the conservation laws add up to rows that do, so     *)
(*     every block is valid, and no block regresses.                       *)
(*   - A row is the sum of the attempts behind it, in whatever order and   *)
(*     over whatever merges they came.                                     *)
(*   - Bounding the totals of a block bounds every scalar in it.           *)
(*   - Keyed hashes of different domains or texts have different messages, *)
(*     for every registry and every text; and a contract id stands for the *)
(*     settings of both producers, whatever they are.                      *)
(***************************************************************************)
EXTENDS ModelUsage, Identity, SumTheorems, FiniteSetTheorems, TLAPS

(* Adding one more of the extremes: the products behind the two ways to    *)
(* bound a sum.                                                            *)
LEMMA OneMore ==
  ASSUME NEW n \in Int, NEW v \in Int
  PROVE  n * v = (n - 1) * v + v
BY SMT

(* The bounds of _cohort that Cohort.validate leaves out follow from those *)
(* it keeps: a sum of n values, one of them the least and one the greatest,*)
(* lies between n times the least and n times the greatest.                *)
LEMMA BoundsSubsumed ==
  ASSUME NEW n \in Int, NEW lo \in Int, NEW hi \in Int, NEW total \in Int,
         lo <= hi,
         (n - 1) * lo + hi <= total, total <= (n - 1) * hi + lo
  PROVE  n * lo <= total /\ total <= n * hi
<1> DEFINE below == (n - 1) * lo
           above == (n - 1) * hi
<1>1. below \in Int /\ above \in Int
  BY SMT
<1>2. n * lo = below + lo /\ n * hi = above + hi
  BY OneMore
<1>3. below + hi <= total /\ total <= above + lo
  OBVIOUS
<1> HIDE DEF below, above
<1>4. below + lo <= total /\ total <= above + hi
  BY <1>1, <1>3
<1> QED
  BY <1>2, <1>4

(* _cohort of model_usage.py and Cohort.validate of modelusage.go accept   *)
(* the same cohorts, although the one bounds the sum twice and adds the    *)
(* cache tokens up, the other bounds it once and subtracts.                *)
THEOREM CohortVerdicts ==
  ASSUME NEW c
  PROVE  PyCohort(c) <=> GoCohort(c)
<1> DEFINE n == c.requests
           total == c.tokens["input"]
<1> SUFFICES ASSUME CohortInRange(c)
             PROVE  PyCohort(c) <=> GoCohort(c)
  BY DEF PyCohort, GoCohort
<1>1. /\ n \in Int /\ c.min \in Int /\ c.max \in Int /\ total \in Int
      /\ c.tokens["cache_read"] \in Int /\ c.tokens["cache_write"] \in Int
      /\ c.tokens["cache_write"] >= 0
  BY MaxIntAssumption DEF CohortInRange, CohortFits, Amounts, None, FIELDS
<1>2. (c.tokens["cache_read"] + c.tokens["cache_write"] <= total) <=>
        /\ c.tokens["cache_read"] <= total
        /\ c.tokens["cache_write"] <= total - c.tokens["cache_read"]
  BY <1>1
<1>3. ASSUME c.min <= c.max
      PROVE  ( /\ n * c.min <= total /\ total <= n * c.max
               /\ (n - 1) * c.min + c.max <= total
               /\ total <= c.min + (n - 1) * c.max ) <=>
             ( /\ (n - 1) * c.min + c.max <= total
               /\ total <= (n - 1) * c.max + c.min )
  <2> DEFINE above == (n - 1) * c.max
  <2>1. above \in Int
    BY <1>1
  <2>2. c.min + above = above + c.min
    <3> HIDE DEF above
    <3> QED BY <1>1, <2>1
  <2>3. (n - 1) * c.min + c.max <= total /\ total <= above + c.min
          => n * c.min <= total /\ total <= n * c.max
    BY <1>1, <1>3, BoundsSubsumed
  <2> QED
    BY <2>2, <2>3
<1> HIDE DEF n, total
<1> QED
  BY <1>2, <1>3 DEF PyCohort, GoCohort, n, total
-----------------------------------------------------------------------------
(* Rows. *)

Cohorts ==
  [requests: Int, tokens: [input: Int, output: Int, cache_read: Int, cache_write: Int],
   min: Int, max: Int]

\* What the decoders make of a row, as far as the two validators differ.
Shaped(r) ==
  /\ {"complete", "histogram"} \subseteq DOMAIN r /\ DOMAIN r.histogram = Bin
  /\ r.complete \in Cohorts
  /\ \A i \in Bin : "complete" \in DOMAIN r.histogram[i] /\ r.histogram[i].complete \in Cohorts

LEMMA CohortsAdd ==
  ASSUME NEW c \in Cohorts, NEW d \in Cohorts
  PROVE  AddCohort(c, d) \in Cohorts
<1>1. Least(c.min, d.min) \in Int /\ Greatest(c.max, d.max) \in Int
  BY DEF Cohorts, Least, Greatest
<1>2. PerField(LAMBDA f : c.tokens[f] + d.tokens[f]) \in [input: Int, output: Int, cache_read: Int, cache_write: Int]
  BY DEF Cohorts, PerField
<1>3. c.requests + d.requests \in Int
  BY DEF Cohorts
<1> QED BY <1>1, <1>2, <1>3 DEF AddCohort, Cohorts

LEMMA CohortSums ==
  ASSUME NEW c \in Cohorts, NEW d \in Cohorts
  PROVE  LET e == AddCohort(c, d)
         IN  /\ e.requests = c.requests + d.requests /\ c.requests \in Int /\ d.requests \in Int
             /\ \A f \in FIELDS : /\ e.tokens[f] = c.tokens[f] + d.tokens[f]
                                 /\ c.tokens[f] \in Int /\ d.tokens[f] \in Int
<1>1. AddCohort(c, d).requests = c.requests + d.requests
  BY DEF AddCohort
<1>2. ASSUME NEW f \in FIELDS PROVE AddCohort(c, d).tokens[f] = c.tokens[f] + d.tokens[f]
  BY DEF AddCohort, PerField, FIELDS
<1>3. \A e \in Cohorts : e.requests \in Int /\ \A f \in FIELDS : e.tokens[f] \in Int
  BY DEF Cohorts, FIELDS
<1> QED BY <1>1, <1>2, <1>3

LEMMA EmptyIsCohort == EmptyCohort \in Cohorts
BY DEF EmptyCohort, NoTokens, PerField, None, Cohorts

LEMMA LeastSpec ==
  ASSUME NEW m \in Nat \cup {None}, NEW n \in Nat \cup {None}
  PROVE  /\ Least(m, n) \in Nat \cup {None}
         /\ Least(m, n) = m \/ Least(m, n) = n
         /\ m # None => Least(m, n) # None /\ Least(m, n) <= m
         /\ n # None => Least(m, n) # None /\ Least(m, n) <= n
BY DEF Least, None

(* The least of the occupied bins, as Python takes it from a set and as Go *)
(* finds it while it adds bin after bin.                                   *)
LEMMA LeastOfBins ==
  ASSUME NEW min \in [Bin -> Nat \cup {None}]
  PROVE  LET occupied == {i \in Bin : min[i] # None}
             least == Least(Least(Least(Least(None, min[1]), min[2]), min[3]), min[4])
         IN  IF occupied = {} THEN least = None ELSE least = Min({min[i] : i \in occupied})
<1> DEFINE occupied == {i \in Bin : min[i] # None}
           least == Least(Least(Least(Least(None, min[1]), min[2]), min[3]), min[4])
           values == {min[i] : i \in occupied}
<1>1. min[1] \in Nat \cup {None} /\ min[2] \in Nat \cup {None} /\ min[3] \in Nat \cup {None} /\ min[4] \in Nat \cup {None}
  BY DEF Bin
<1>2. \A i \in Bin : i = 1 \/ i = 2 \/ i = 3 \/ i = 4
  BY DEF Bin
<1>3. CASE occupied = {}
  <2>1. min[1] = None /\ min[2] = None /\ min[3] = None /\ min[4] = None
    BY <1>3 DEF Bin
  <2> QED BY <1>3, <2>1 DEF Least
<1>4. CASE occupied # {}
  <2>1. min[1] # None \/ min[2] # None \/ min[3] # None \/ min[4] # None
    BY <1>2, <1>4
  <2>2. /\ least # None
        /\ least = min[1] \/ least = min[2] \/ least = min[3] \/ least = min[4]
        /\ \A i \in {1, 2, 3, 4} : min[i] # None => least <= min[i]
    <3> DEFINE l1 == Least(None, min[1])
               l2 == Least(l1, min[2])
               l3 == Least(l2, min[3])
    <3>1. l1 = min[1]
      BY DEF Least
    <3>2. /\ l2 \in Nat \cup {None}
          /\ l2 = l1 \/ l2 = min[2]
          /\ l1 # None => l2 # None /\ l2 <= l1
          /\ min[2] # None => l2 # None /\ l2 <= min[2]
      BY <1>1, <3>1, LeastSpec
    <3> HIDE DEF l2
    <3>3. /\ l3 \in Nat \cup {None}
          /\ l3 = l2 \/ l3 = min[3]
          /\ l2 # None => l3 # None /\ l3 <= l2
          /\ min[3] # None => l3 # None /\ l3 <= min[3]
      BY <1>1, <3>2, LeastSpec
    <3> HIDE DEF l3
    <3>4. /\ least = Least(l3, min[4]) /\ least \in Nat \cup {None}
          /\ least = l3 \/ least = min[4]
          /\ l3 # None => least # None /\ least <= l3
          /\ min[4] # None => least # None /\ least <= min[4]
      BY <1>1, <3>3, LeastSpec DEF l3, l2
    <3> HIDE DEF l1, least
    <3> QED BY <1>1, <2>1, <3>1, <3>2, <3>3, <3>4 DEF None
  <2>3. least \in values /\ \A x \in values : least <= x
    <3> HIDE DEF least
    <3> QED BY <1>2, <2>2 DEF Bin
  <2>4. \A x \in values : x \in Nat
    BY DEF None
  <2> HIDE DEF least, values
  <2>5. Min(values) \in values /\ \A x \in values : Min(values) <= x
    BY <2>3 DEF Min
  <2>6. least \in Nat /\ Min(values) \in Nat /\ least <= Min(values) /\ Min(values) <= least
    BY <2>3, <2>4, <2>5
  <2>7. least = Min(values)
    BY <2>6
  <2> QED BY <1>4, <2>7 DEF least, values
<1> QED BY <1>3, <1>4

LEMMA GreatestOfBins ==
  ASSUME NEW max \in [Bin -> Nat \cup {None}]
  PROVE  LET occupied == {i \in Bin : max[i] # None}
             greatest == Greatest(Greatest(Greatest(Greatest(None, max[1]), max[2]), max[3]), max[4])
         IN  IF occupied = {} THEN greatest = None ELSE greatest = Max({max[i] : i \in occupied})
<1> DEFINE occupied == {i \in Bin : max[i] # None}
           greatest == Greatest(Greatest(Greatest(Greatest(None, max[1]), max[2]), max[3]), max[4])
           values == {max[i] : i \in occupied}
<1>1. max[1] \in Nat \cup {None} /\ max[2] \in Nat \cup {None} /\ max[3] \in Nat \cup {None} /\ max[4] \in Nat \cup {None}
  BY DEF Bin
<1>2. \A i \in Bin : i = 1 \/ i = 2 \/ i = 3 \/ i = 4
  BY DEF Bin
<1>3. CASE occupied = {}
  <2>1. max[1] = None /\ max[2] = None /\ max[3] = None /\ max[4] = None
    BY <1>3 DEF Bin
  <2> QED BY <1>3, <2>1 DEF Greatest, None
<1>4. CASE occupied # {}
  <2>1. max[1] # None \/ max[2] # None \/ max[3] # None \/ max[4] # None
    BY <1>2, <1>4
  <2>2. /\ greatest # None
        /\ greatest = max[1] \/ greatest = max[2] \/ greatest = max[3] \/ greatest = max[4]
        /\ \A i \in {1, 2, 3, 4} : max[i] # None => max[i] <= greatest
    BY <1>1, <2>1 DEF Greatest, None
  <2>3. greatest \in values /\ \A x \in values : x <= greatest
    <3> HIDE DEF greatest
    <3> QED BY <1>2, <2>2 DEF Bin
  <2>4. \A x \in values : x \in Nat
    BY DEF None
  <2> HIDE DEF greatest, values
  <2>5. Max(values) \in values /\ \A x \in values : Max(values) >= x
    <3>1. \E g \in values : \A x \in values : g >= x
      BY <2>3, <2>4
    <3> QED BY <3>1 DEF Max
  <2>6. greatest \in Nat /\ Max(values) \in Nat /\ greatest <= Max(values) /\ Max(values) <= greatest
    BY <2>3, <2>4, <2>5
  <2>7. greatest = Max(values)
    BY <2>6
  <2> QED BY <1>4, <2>7 DEF greatest, values
<1> QED BY <1>3, <1>4
(* validate_row of model_usage.py and Model.Validate of modelusage.go      *)
(* accept the same rows: adding the bins up like rows, in 64 bits, gives   *)
(* the sums and extrema that Python compares.                              *)
THEOREM RowVerdicts ==
  ASSUME NEW r, Shaped(r)
  PROVE  PyRow(r) <=> GoRow(r)
<1> DEFINE bin == r.histogram
           c == r.complete
           cell(i) == bin[i].complete
           occupied == {i \in Bin : cell(i).requests # 0}
           joined == AddCohort(AddCohort(AddCohort(AddCohort(EmptyCohort, cell(1)), cell(2)), cell(3)), cell(4))
           requests == Sum4(LAMBDA i : bin[i].reported.requests)
           tokens == Sum4(LAMBDA i : bin[i].reported.tokens)
           common == /\ InRange(r) /\ FieldsConserved(r) /\ GoCohort(c)
                     /\ c.requests + Excluded(r) = r.requests
                     /\ CompleteConserved(r) /\ OriginsConserved(r)
                     /\ \A i \in Bin : GoCohort(cell(i)) /\ BinConserved(bin[i], i)
                     /\ requests = r.fields["input"].reported /\ tokens = r.fields["input"].tokens
           sums == /\ Sum4(LAMBDA i : cell(i).requests) = c.requests
                   /\ \A f \in FIELDS : Sum4(LAMBDA i : cell(i).tokens[f]) = c.tokens[f]
                   /\ occupied = {} => c.min = None /\ c.max = None
                   /\ occupied # {} => /\ c.min = Min({cell(i).min : i \in occupied})
                                       /\ c.max = Max({cell(i).max : i \in occupied})
<1>1. PyRow(r) <=> (common /\ sums)
  <2>1. PyCohort(c) <=> GoCohort(c)
    BY CohortVerdicts
  <2>2. \A i \in Bin : PyCohort(cell(i)) <=> GoCohort(cell(i))
    BY CohortVerdicts
  <2> QED BY <2>1, <2>2 DEF PyRow
<1>2. GoRow(r) <=> /\ common
                   /\ c.requests + Excluded(r) \in Amounts /\ requests \in Amounts /\ tokens \in Amounts
                   /\ CohortFits(joined) /\ joined = c
  BY DEF GoRow
<1>3. ASSUME common
      PROVE  /\ c.requests + Excluded(r) \in Amounts /\ requests \in Amounts /\ tokens \in Amounts
             /\ CohortFits(c)
  BY <1>3 DEF InRange, FIELDS
<1>4. ASSUME common PROVE sums <=> joined = c
  <2>1. /\ c \in Cohorts /\ cell(1) \in Cohorts /\ cell(2) \in Cohorts
        /\ cell(3) \in Cohorts /\ cell(4) \in Cohorts
    BY DEF Shaped, Bin
  <2>2. \A i \in Bin :
                      /\ cell(i).min \in Nat \cup {None} /\ cell(i).max \in Nat \cup {None}
                      /\ (cell(i).requests # 0 <=> cell(i).min # None)
                      /\ (cell(i).requests # 0 <=> cell(i).max # None)
    <3>1. \A i \in Bin : GoCohort(cell(i))
      BY <1>4
    <3>2. \A d : GoCohort(d) =>
                                /\ d.min \in Nat \cup {None} /\ d.max \in Nat \cup {None}
                                /\ (d.requests # 0 <=> d.min # None)
                                /\ (d.requests # 0 <=> d.max # None)
      BY MaxIntAssumption DEF GoCohort, CohortInRange, NoCohort, Amounts
    <3> HIDE DEF cell
    <3> QED BY <3>1, <3>2
  <2> DEFINE min == [i \in Bin |-> cell(i).min]
             max == [i \in Bin |-> cell(i).max]
             least == Least(Least(Least(Least(None, min[1]), min[2]), min[3]), min[4])
             greatest == Greatest(Greatest(Greatest(Greatest(None, max[1]), max[2]), max[3]), max[4])
  <2>3. /\ {i \in Bin : min[i] # None} = occupied /\ {i \in Bin : max[i] # None} = occupied
        /\ {min[i] : i \in occupied} = {cell(i).min : i \in occupied}
        /\ {max[i] : i \in occupied} = {cell(i).max : i \in occupied}
        /\ min \in [Bin -> Nat \cup {None}] /\ max \in [Bin -> Nat \cup {None}]
    <3> HIDE DEF cell
    <3> QED BY <2>2
  <2>4. /\ occupied = {} => least = None /\ greatest = None
        /\ occupied # {} => /\ least = Min({cell(i).min : i \in occupied})
                            /\ greatest = Max({cell(i).max : i \in occupied})
    <3> HIDE DEF occupied, min, max, cell
    <3>1. IF occupied = {} THEN least = None ELSE least = Min({min[i] : i \in occupied})
      BY <2>3, LeastOfBins
    <3>2. IF occupied = {} THEN greatest = None ELSE greatest = Max({max[i] : i \in occupied})
      BY <2>3, GreatestOfBins
    <3> QED BY <2>3, <3>1, <3>2
  <2>5. /\ joined \in Cohorts
        /\ joined.requests = Sum4(LAMBDA i : cell(i).requests)
        /\ \A f \in FIELDS : joined.tokens[f] = Sum4(LAMBDA i : cell(i).tokens[f])
        /\ joined.min = least /\ joined.max = greatest
    <3>1. joined \in Cohorts
      <4> HIDE DEF cell
      <4> QED BY <2>1, CohortsAdd, EmptyIsCohort
    <3> DEFINE j1 == AddCohort(EmptyCohort, cell(1))
               j2 == AddCohort(j1, cell(2))
               j3 == AddCohort(j2, cell(3))
    <3>2. joined = AddCohort(j3, cell(4)) /\ j1 \in Cohorts /\ j2 \in Cohorts /\ j3 \in Cohorts
      <4> HIDE DEF cell
      <4> QED BY <2>1, CohortsAdd, EmptyIsCohort
    <3>3. /\ joined.requests = Sum4(LAMBDA i : cell(i).requests)
          /\ \A f \in FIELDS : joined.tokens[f] = Sum4(LAMBDA i : cell(i).tokens[f])
      <4>1. EmptyCohort.requests = 0 /\ \A f \in FIELDS : EmptyCohort.tokens[f] = 0
        BY DEF EmptyCohort, NoTokens, PerField, FIELDS
      <4> HIDE DEF cell
      <4>2. /\ j1.requests = cell(1).requests /\ cell(1).requests \in Int
            /\ \A f \in FIELDS : j1.tokens[f] = cell(1).tokens[f] /\ cell(1).tokens[f] \in Int
        BY <2>1, <4>1, CohortSums, EmptyIsCohort
      <4>3. /\ j2.requests = j1.requests + cell(2).requests /\ cell(2).requests \in Int
            /\ \A f \in FIELDS : j2.tokens[f] = j1.tokens[f] + cell(2).tokens[f] /\ cell(2).tokens[f] \in Int
        BY <2>1, <3>2, CohortSums
      <4>4. /\ j3.requests = j2.requests + cell(3).requests /\ cell(3).requests \in Int
            /\ \A f \in FIELDS : j3.tokens[f] = j2.tokens[f] + cell(3).tokens[f] /\ cell(3).tokens[f] \in Int
        BY <2>1, <3>2, CohortSums
      <4>5. /\ joined.requests = j3.requests + cell(4).requests
            /\ \A f \in FIELDS : joined.tokens[f] = j3.tokens[f] + cell(4).tokens[f]
        BY <2>1, <3>2, CohortSums
      <4> HIDE DEF j1, j2, j3, joined
      <4> QED BY <4>2, <4>3, <4>4, <4>5 DEF Sum4
    <3>4. joined.min = least /\ joined.max = greatest
      <4>1. /\ min[1] = cell(1).min /\ min[2] = cell(2).min /\ min[3] = cell(3).min /\ min[4] = cell(4).min
            /\ max[1] = cell(1).max /\ max[2] = cell(2).max /\ max[3] = cell(3).max /\ max[4] = cell(4).max
        <5> HIDE DEF cell
        <5> QED BY DEF Bin
      <4> HIDE DEF cell, min, max
      <4> QED BY <4>1 DEF AddCohort, EmptyCohort
    <3> QED BY <3>1, <3>3, <3>4
  <2>6. \A d, e \in Cohorts :
          d = e <=> /\ d.requests = e.requests /\ d.min = e.min /\ d.max = e.max
                    /\ \A f \in FIELDS : d.tokens[f] = e.tokens[f]
    BY DEF Cohorts, FIELDS
  <2>7. joined = c <=> /\ joined.requests = c.requests /\ joined.min = c.min /\ joined.max = c.max
                       /\ \A f \in FIELDS : joined.tokens[f] = c.tokens[f]
    BY <2>1, <2>5, <2>6
  <2> HIDE DEF occupied, cell, joined, least, greatest
  <2> QED BY <2>4, <2>5, <2>7
<1> QED BY <1>1, <1>2, <1>3, <1>4

-----------------------------------------------------------------------------
(* What a run meets has the shape that the theorem asks for. *)

LEMMA OffShaped ==
  ASSUME NEW c \in Cohorts, NEW part \in Part, NEW d \in Int
  PROVE  Off(c, part, d) \in Cohorts
<1>1. /\ c.requests \in Int /\ c.min \in Int /\ c.max \in Int
      /\ \A f \in FIELDS : c.tokens[f] \in Int
  BY DEF Cohorts, FIELDS
<1>2. CASE part = "requests"
  BY <1>1, <1>2 DEF Off, Cohorts
<1>3. CASE part = "min"
  BY <1>1, <1>3 DEF Off, Cohorts
<1>4. CASE part = "max"
  BY <1>1, <1>4 DEF Off, Cohorts
<1>5. CASE part \in FIELDS
  <2>1. Off(c, part, d) = [c EXCEPT !.tokens[part] = c.tokens[part] + d]
    BY <1>5 DEF Off, FIELDS
  <2>2. c.tokens[part] + d \in Int
    BY <1>1, <1>5
  <2>3. [c.tokens EXCEPT ![part] = c.tokens[part] + d] \in [input: Int, output: Int, cache_read: Int, cache_write: Int]
    BY <1>5, <2>2 DEF Cohorts, FIELDS
  <2> QED BY <2>1, <2>3 DEF Cohorts
<1> QED BY <1>2, <1>3, <1>4, <1>5 DEF Part

LEMMA TamperedShaped ==
  ASSUME NEW r, Shaped(r), NEW t \in Tampered(r)
  PROVE  Shaped(t)
<1>1. PICK part \in Part, d \in {-1, 1}, i \in {j \in Bin : r.histogram[j].complete.requests > 0} :
        t = Altered(r, part, d, i)
  BY DEF Tampered
<1> DEFINE total == Off(r.complete, part, d)
           cell == Off(r.histogram[i].complete, part, d)
           bins == [r.histogram EXCEPT ![i] = [r.histogram[i] EXCEPT !.complete = cell]]
<1>2. total \in Cohorts /\ cell \in Cohorts
  BY OffShaped DEF Shaped
<1>3. DOMAIN t = DOMAIN r /\ t.complete = total /\ t.histogram = bins
  BY <1>1 DEF Altered, Shaped
<1>4. DOMAIN bins = Bin /\ bins[i].complete = cell /\ "complete" \in DOMAIN bins[i]
      /\ \A j \in Bin \ {i} : bins[j] = r.histogram[j]
  BY DEF Shaped
<1> HIDE DEF total, cell, bins
<1> QED BY <1>2, <1>3, <1>4 DEF Shaped

LEMMA RowShaped ==
  ASSUME NEW a \in DOMAIN Row
  PROVE  Shaped(Row[a])
<1>1. /\ Row[a] = RowOf(a) /\ a \in Attempt
      /\ \A f \in FIELDS : Value(a, f) \in Int
  BY ObservedAssumption DEF Row, Value, Observation
<1>2. \A f \in FIELDS : Tokens(a, f) \in Int
  BY <1>1 DEF Tokens, None
<1>3. Cohort(a) \in Cohorts
  BY <1>1, <1>2 DEF Cohort, PerField, Cohorts, FIELDS
<1> DEFINE complete == IF Reason(a) = "complete" THEN Cohort(a) ELSE EmptyCohort
           r == RowOf(a)
<1>4. complete \in Cohorts
  BY <1>3, EmptyIsCohort
<1>5. /\ {"complete", "histogram"} \subseteq DOMAIN r /\ r.complete = complete /\ DOMAIN r.histogram = Bin
      /\ \A i \in Bin : "complete" \in DOMAIN r.histogram[i]
      /\ \A i \in Bin : r.histogram[i].complete \in {complete, EmptyCohort}
  <2> DEFINE Here(i) == Value(a, "input") # None /\ i = BinOf(Value(a, "input"))
             BinAt(i) == [reported |-> [requests |-> One(Here(i)),
                                        tokens   |-> IF Here(i) THEN Value(a, "input") ELSE 0],
                          complete |-> IF Here(i) THEN complete ELSE EmptyCohort]
  <2>1. /\ {"complete", "histogram"} \subseteq DOMAIN r /\ r.complete = complete
        /\ r.histogram = <<BinAt(1), BinAt(2), BinAt(3), BinAt(4)>>
    BY DEF RowOf, PerBin
  <2>2. \A i : "complete" \in DOMAIN BinAt(i) /\ BinAt(i).complete \in {complete, EmptyCohort}
    OBVIOUS
  <2> HIDE DEF r, BinAt, complete
  <2>3. DOMAIN r.histogram = Bin /\ \A i \in Bin : r.histogram[i] = BinAt(i)
    BY <2>1 DEF Bin
  <2> QED BY <2>1, <2>2, <2>3
<1> HIDE DEF complete, r
<1>6. Shaped(r)
  BY <1>4, <1>5, EmptyIsCohort DEF Shaped
<1> QED BY <1>1, <1>6 DEF r

LEMMA AddRowShaped ==
  ASSUME NEW r, Shaped(r), NEW s, Shaped(s)
  PROVE  Shaped(AddRow(r, s))
<1> DEFINE t == AddRow(r, s)
<1>1. /\ {"complete", "histogram"} \subseteq DOMAIN t /\ DOMAIN t.histogram = Bin
      /\ t.complete = AddCohort(r.complete, s.complete)
      /\ \A i \in Bin : "complete" \in DOMAIN t.histogram[i]
      /\ \A i \in Bin : t.histogram[i].complete = AddCohort(r.histogram[i].complete, s.histogram[i].complete)
  <2> DEFINE BinAt(i) == AddBin(r.histogram[i], s.histogram[i])
  <2>1. /\ {"complete", "histogram"} \subseteq DOMAIN t /\ t.complete = AddCohort(r.complete, s.complete)
        /\ t.histogram = <<BinAt(1), BinAt(2), BinAt(3), BinAt(4)>>
    BY DEF AddRow, PerBin
  <2>2. \A i : /\ "complete" \in DOMAIN BinAt(i)
              /\ BinAt(i).complete = AddCohort(r.histogram[i].complete, s.histogram[i].complete)
    BY DEF AddBin
  <2> HIDE DEF t, BinAt
  <2>3. DOMAIN t.histogram = Bin /\ \A i \in Bin : t.histogram[i] = BinAt(i)
    BY <2>1 DEF Bin
  <2> QED BY <2>1, <2>2, <2>3
<1> HIDE DEF t
<1>2. Shaped(t)
  BY <1>1, CohortsAdd DEF Shaped
<1> QED BY <1>2 DEF t

AllShaped(rows) == \A m \in DOMAIN rows : Shaped(rows[m])

LEMMA MergedShaped ==
  ASSUME NEW rows, AllShaped(rows), NEW more, AllShaped(more)
  PROVE  AllShaped(Merged(rows, more))
<1> DEFINE all == Merged(rows, more)
<1>1. DOMAIN all = DOMAIN rows \cup DOMAIN more
  BY DEF Merged
<1>2. ASSUME NEW m \in DOMAIN all PROVE Shaped(all[m])
  <2>1. CASE m \notin DOMAIN more
    BY <1>1, <2>1 DEF Merged, AllShaped
  <2>2. CASE m \notin DOMAIN rows
    BY <1>1, <2>2 DEF Merged, AllShaped
  <2>3. CASE m \in DOMAIN rows /\ m \in DOMAIN more
    BY <1>1, <2>3, AddRowShaped DEF Merged, AllShaped
  <2> QED BY <2>1, <2>2, <2>3, <1>1
<1> QED BY <1>1, <1>2 DEF AllShaped

ShapeInv == DOMAIN block = Owner /\ \A o \in Owner : AllShaped(block[o])

LEMMA ShapeInvariant == Spec => []ShapeInv
<1>1. Init => ShapeInv
  BY DEF Init, ShapeInv, AllShaped, NoRows
<1>2. ASSUME ShapeInv, [Next]_vars PROVE ShapeInv'
  <2>1. ASSUME NEW o \in Owner, NEW m \in Model, NEW a \in Attempt, Collect(o, m, a) PROVE ShapeInv'
    <3>1. AllShaped([n \in {m} |-> Row[a]])
      BY <2>1, RowShaped DEF Collect, Staged, AllShaped
    <3>2. AllShaped(With(block[o], m, a))
      BY <1>2, <3>1, MergedShaped DEF With, ShapeInv
    <3>3. block' = [block EXCEPT ![o] = With(block[o], m, a)]
      BY <2>1 DEF Collect
    <3> QED BY <1>2, <3>2, <3>3 DEF ShapeInv
  <2>2. ASSUME NEW o \in Owner, NEW p \in Owner, Merge(o, p) PROVE ShapeInv'
    <3>1. AllShaped(Merged(block[o], block[p])) /\ block' = [block EXCEPT ![o] = Merged(block[o], block[p])]
      BY <1>2, <2>2, MergedShaped DEF Merge, ShapeInv
    <3> QED BY <1>2, <3>1 DEF ShapeInv
  <2>3. CASE UNCHANGED vars
    BY <1>2, <2>3 DEF ShapeInv, vars
  <2>4. ASSUME NEW o \in Owner, NEW m \in Model, NEW a \in Attempt, CollectRefused(o, m, a) PROVE ShapeInv'
    BY <2>3, <2>4 DEF CollectRefused
  <2>5. ASSUME NEW o \in Owner, NEW p \in Owner, MergeRefused(o, p) PROVE ShapeInv'
    BY <2>3, <2>5 DEF MergeRefused
  <2> QED BY <1>2, <2>1, <2>2, <2>3, <2>4, <2>5 DEF Next
<1> QED BY <1>1, <1>2, PTL DEF Spec

(* The property of the run: the validators agree about rows that differ a  *)
(* little from those that collecting and merging produce.                  *)
THEOREM VerdictsAgree == Spec => []SameVerdict
<1>1. ShapeInv => SameVerdict
  <2> SUFFICES ASSUME ShapeInv, NEW o \in Owner, NEW m \in DOMAIN block[o], NEW r \in Tampered(block[o][m])
               PROVE  PyRow(r) <=> GoRow(r)
    BY DEF SameVerdict
  <2>1. Shaped(block[o][m])
    BY DEF ShapeInv, AllShaped
  <2> QED BY <2>1, TamperedShaped, RowVerdicts
<1> QED BY <1>1, ShapeInvariant, PTL

-----------------------------------------------------------------------------
(* Adding two rows, part by part. *)

LEMMA AddFieldParts ==
  ASSUME NEW u, NEW v
  PROVE  LET w == AddField(u, v) IN
         /\ w.tokens = u.tokens + v.tokens /\ w.reported = u.reported + v.reported
         /\ w.missing = u.missing + v.missing
         /\ \A x \in FLAGS : w.flags[x] = u.flags[x] + v.flags[x]
BY DEF AddField, PerFlag, FLAGS

LEMMA AddRowParts ==
  ASSUME NEW r, NEW s
  PROVE  LET t == AddRow(r, s) IN
         /\ t.requests = r.requests + s.requests
         /\ t.violations = r.violations + s.violations
         /\ \A x \in REASONS : t.excluded[x] = r.excluded[x] + s.excluded[x]
         /\ \A f \in Sourced, x \in ORIGINS :
              t.provenance[f][x] = r.provenance[f][x] + s.provenance[f][x]
         /\ \A f \in FIELDS :
              /\ t.fields[f].tokens = r.fields[f].tokens + s.fields[f].tokens
              /\ t.fields[f].reported = r.fields[f].reported + s.fields[f].reported
              /\ t.fields[f].missing = r.fields[f].missing + s.fields[f].missing
              /\ \A x \in FLAGS :
                   t.fields[f].flags[x] = r.fields[f].flags[x] + s.fields[f].flags[x]
         /\ t.complete = AddCohort(r.complete, s.complete)
         /\ \A i \in Bin :
              /\ t.histogram[i].reported.requests
                   = r.histogram[i].reported.requests + s.histogram[i].reported.requests
              /\ t.histogram[i].reported.tokens
                   = r.histogram[i].reported.tokens + s.histogram[i].reported.tokens
              /\ t.histogram[i].complete
                   = AddCohort(r.histogram[i].complete, s.histogram[i].complete)
<1> DEFINE t == AddRow(r, s)
<1>1. /\ t.requests = r.requests + s.requests
      /\ t.violations = r.violations + s.violations
      /\ t.complete = AddCohort(r.complete, s.complete)
  BY DEF AddRow
<1>2. ASSUME NEW x \in REASONS PROVE t.excluded[x] = r.excluded[x] + s.excluded[x]
  <2>1. t.excluded = PerReason(LAMBDA y : r.excluded[y] + s.excluded[y])
    BY DEF AddRow
  <2> HIDE DEF t
  <2> QED BY <2>1 DEF PerReason, REASONS
<1>3. ASSUME NEW f \in Sourced, NEW x \in ORIGINS
      PROVE  t.provenance[f][x] = r.provenance[f][x] + s.provenance[f][x]
  <2>1. t.provenance = PerSourced(LAMBDA g : PerOrigin(LAMBDA o : r.provenance[g][o] + s.provenance[g][o]))
    BY DEF AddRow
  <2> HIDE DEF t
  <2> QED BY <2>1 DEF PerSourced, Sourced, PerOrigin, ORIGINS
<1>4. ASSUME NEW f \in FIELDS
      PROVE  t.fields[f] = AddField(r.fields[f], s.fields[f])
  <2>1. t.fields = PerField(LAMBDA g : AddField(r.fields[g], s.fields[g]))
    BY DEF AddRow
  <2> HIDE DEF t
  <2> QED BY <2>1 DEF PerField, FIELDS
<1>5. ASSUME NEW i \in Bin
      PROVE  /\ t.histogram[i].reported.requests
                  = r.histogram[i].reported.requests + s.histogram[i].reported.requests
             /\ t.histogram[i].reported.tokens
                  = r.histogram[i].reported.tokens + s.histogram[i].reported.tokens
             /\ t.histogram[i].complete
                  = AddCohort(r.histogram[i].complete, s.histogram[i].complete)
  <2>1. t.histogram = PerBin(LAMBDA j : AddBin(r.histogram[j], s.histogram[j]))
    BY DEF AddRow
  <2> HIDE DEF t
  <2>2. t.histogram[i] = AddBin(r.histogram[i], s.histogram[i])
    BY <2>1 DEF PerBin, Bin
  <2> QED BY <2>2 DEF AddBin
<1> QED BY <1>1, <1>2, <1>3, <1>4, <1>5, AddFieldParts

LEMMA AddCohortParts ==
  ASSUME NEW c, NEW d
  PROVE  LET e == AddCohort(c, d) IN
         /\ e.requests = c.requests + d.requests
         /\ \A f \in FIELDS : e.tokens[f] = c.tokens[f] + d.tokens[f]
         /\ e.min = Least(c.min, d.min) /\ e.max = Greatest(c.max, d.max)
<1> DEFINE e == AddCohort(c, d)
<1>1. /\ e.requests = c.requests + d.requests
      /\ e.min = Least(c.min, d.min) /\ e.max = Greatest(c.max, d.max)
  BY DEF AddCohort
<1>2. e.tokens = PerField(LAMBDA f : c.tokens[f] + d.tokens[f])
  BY DEF AddCohort
<1>3. ASSUME NEW f \in FIELDS PROVE e.tokens[f] = c.tokens[f] + d.tokens[f]
  <2> HIDE DEF e
  <2> QED BY <1>2 DEF PerField, FIELDS
<1> QED BY <1>1, <1>3

(* A product grows with its factors.                                       *)
LEMMA Grows ==
  ASSUME NEW n \in Nat, NEW a \in Int, NEW b \in Int, a <= b
  PROVE  n * a \in Int /\ n * b \in Int /\ n * a <= n * b
OBVIOUS

LEMMA Distributes ==
  ASSUME NEW m \in Int, NEW n \in Int, NEW a \in Int
  PROVE  (m + n) * a = m * a + n * a
OBVIOUS

(* What a cohort that passes has to show for itself.                       *)
LEMMA CohortMeans ==
  ASSUME NEW c, PyCohort(c)
  PROVE  /\ c.requests \in Nat /\ \A f \in FIELDS : c.tokens[f] \in Nat
         /\ c.min \in Amounts \cup {None} /\ c.max \in Amounts \cup {None}
         /\ c.requests = 0 => c.min = None /\ c.max = None /\ \A f \in FIELDS : c.tokens[f] = 0
         /\ c.requests # 0 => c.min \in Nat /\ c.max \in Nat
<1>1. /\ c.requests \in Nat /\ \A f \in FIELDS : c.tokens[f] \in Nat
      /\ c.min \in Amounts \cup {None} /\ c.max \in Amounts \cup {None}
  BY MaxIntAssumption DEF PyCohort, CohortInRange, CohortFits, Amounts
<1>2. \A f \in FIELDS : NoTokens[f] = 0
  BY DEF NoTokens, PerField, FIELDS
<1> QED BY <1>1, <1>2 DEF PyCohort, NoCohort, Amounts

(* Cohorts that pass can be added: the bounds on the sum survive.          *)
LEMMA CohortsStayValid ==
  ASSUME NEW c \in Cohorts, NEW d \in Cohorts, PyCohort(c), PyCohort(d), CohortFits(AddCohort(c, d))
  PROVE  PyCohort(AddCohort(c, d))
<1> DEFINE e == AddCohort(c, d)
           m == c.requests
           n == d.requests
           ct == c.tokens["input"]
           dt == d.tokens["input"]
<1>1. /\ m \in Nat /\ n \in Nat /\ ct \in Nat /\ dt \in Nat
      /\ c.tokens["cache_read"] \in Nat /\ c.tokens["cache_write"] \in Nat
      /\ d.tokens["cache_read"] \in Nat /\ d.tokens["cache_write"] \in Nat
  BY CohortMeans DEF FIELDS
<1>2. /\ e.requests = m + n
      /\ e.tokens["input"] = ct + dt
      /\ e.tokens["cache_read"] = c.tokens["cache_read"] + d.tokens["cache_read"]
      /\ e.tokens["cache_write"] = c.tokens["cache_write"] + d.tokens["cache_write"]
      /\ e.min = Least(c.min, d.min) /\ e.max = Greatest(c.max, d.max)
  BY AddCohortParts DEF FIELDS
<1>3. e.tokens["cache_read"] + e.tokens["cache_write"] <= e.tokens["input"]
  BY <1>1, <1>2 DEF PyCohort
<1>4. CohortInRange(e)
  <2>1. /\ c.min \in Amounts \cup {None} /\ c.max \in Amounts \cup {None}
        /\ d.min \in Amounts \cup {None} /\ d.max \in Amounts \cup {None}
    BY CohortMeans
  <2>2. Least(c.min, d.min) \in {c.min, d.min} /\ Greatest(c.max, d.max) \in {c.max, d.max}
    BY DEF Least, Greatest
  <2> QED BY <1>2, <2>1, <2>2 DEF CohortInRange
<1>5. CASE m = 0 /\ n = 0
  <2>1. /\ c.min = None /\ c.max = None /\ d.min = None /\ d.max = None
        /\ \A f \in FIELDS : c.tokens[f] = 0 /\ d.tokens[f] = 0
    BY <1>5, CohortMeans
  <2>2. e.min = None /\ e.max = None
    BY <1>2, <2>1 DEF Least, Greatest, None
  <2>3. e.tokens = NoTokens
    <3>1. e.tokens = PerField(LAMBDA f : c.tokens[f] + d.tokens[f])
      BY DEF AddCohort
    <3> QED BY <2>1, <3>1 DEF PerField, NoTokens, FIELDS
  <2> HIDE DEF m, n
  <2> QED BY <1>2, <1>3, <1>4, <1>5, <2>2, <2>3 DEF PyCohort, NoCohort, m, n
<1>6. CASE m # 0 /\ n = 0
  <2>1. d.min = None /\ d.max = None /\ dt = 0 /\ c.min \in Nat /\ c.max \in Nat
    BY <1>6, CohortMeans DEF FIELDS
  <2>2. e.min = c.min /\ e.max = c.max /\ e.requests = m /\ e.tokens["input"] = ct
    BY <1>1, <1>2, <1>6, <2>1 DEF Least, Greatest, None
  <2> QED BY <1>3, <1>4, <1>6, <2>2 DEF PyCohort
<1>7. CASE m = 0 /\ n # 0
  <2>1. c.min = None /\ c.max = None /\ ct = 0 /\ d.min \in Nat /\ d.max \in Nat
    BY <1>7, CohortMeans DEF FIELDS
  <2>2. e.min = d.min /\ e.max = d.max /\ e.requests = n /\ e.tokens["input"] = dt
    BY <1>1, <1>2, <1>7, <2>1 DEF Least, Greatest, None
  <2> QED BY <1>3, <1>4, <1>7, <2>2 DEF PyCohort
<1>8. CASE m # 0 /\ n # 0
  <2> DEFINE lo == e.min
             hi == e.max
  <2>1. c.min \in Nat /\ c.max \in Nat /\ d.min \in Nat /\ d.max \in Nat
    BY <1>8, CohortMeans
  <2>2. /\ lo \in Nat /\ hi \in Nat
        /\ lo <= c.min /\ lo <= d.min /\ (lo = c.min \/ lo = d.min)
        /\ c.max <= hi /\ d.max <= hi /\ (hi = c.max \/ hi = d.max)
    BY <1>2, <2>1 DEF Least, Greatest, None
  <2>3. /\ c.min <= c.max /\ d.min <= d.max
        /\ m * c.min <= ct /\ ct <= m * c.max
        /\ (m - 1) * c.min + c.max <= ct /\ ct <= c.min + (m - 1) * c.max
        /\ n * d.min <= dt /\ dt <= n * d.max
        /\ (n - 1) * d.min + d.max <= dt /\ dt <= d.min + (n - 1) * d.max
    BY <1>8 DEF PyCohort
  <2>4. m - 1 \in Nat /\ n - 1 \in Nat
    BY <1>1, <1>8
  <2>5. /\ m * lo \in Int /\ m * lo <= m * c.min /\ m * c.min \in Int
        /\ (m - 1) * lo \in Int /\ (m - 1) * lo <= (m - 1) * c.min /\ (m - 1) * c.min \in Int
        /\ m * c.max <= m * hi /\ m * hi \in Int /\ m * c.max \in Int
        /\ (m - 1) * c.max <= (m - 1) * hi /\ (m - 1) * hi \in Int /\ (m - 1) * c.max \in Int
    <3> HIDE DEF lo, hi, m, n
    <3> QED BY <1>1, <2>1, <2>2, <2>4, Grows
  <2>6. /\ n * lo \in Int /\ n * lo <= n * d.min /\ n * d.min \in Int
        /\ (n - 1) * lo \in Int /\ (n - 1) * lo <= (n - 1) * d.min /\ (n - 1) * d.min \in Int
        /\ n * d.max <= n * hi /\ n * hi \in Int /\ n * d.max \in Int
        /\ (n - 1) * d.max <= (n - 1) * hi /\ (n - 1) * hi \in Int /\ (n - 1) * d.max \in Int
    <3> HIDE DEF lo, hi, m, n
    <3> QED BY <1>1, <2>1, <2>2, <2>4, Grows
  <2>7. /\ (m + n) * lo = m * lo + n * lo /\ (m + n) * hi = m * hi + n * hi
        /\ ((m + n) - 1) * lo = (m - 1) * lo + n * lo
        /\ ((m + n) - 1) * lo = m * lo + (n - 1) * lo
        /\ ((m + n) - 1) * hi = (m - 1) * hi + n * hi
        /\ ((m + n) - 1) * hi = m * hi + (n - 1) * hi
    <3>1. /\ (m + n) - 1 = (m - 1) + n /\ (m + n) - 1 = m + (n - 1)
          /\ m \in Int /\ n \in Int /\ m - 1 \in Int /\ n - 1 \in Int
          /\ lo \in Int /\ hi \in Int
      BY <1>1, <2>2
    <3> HIDE DEF lo, hi, m, n
    <3> QED BY <3>1, Distributes
  <2> HIDE DEF lo, hi, m, n, ct, dt
  <2>8. /\ (m + n) * lo <= ct + dt /\ ct + dt <= (m + n) * hi
    BY <1>1, <2>3, <2>5, <2>6, <2>7
  <2>9. ((m + n) - 1) * lo + hi <= ct + dt
    <3>1. CASE hi = c.max
      BY <1>1, <2>1, <2>3, <2>5, <2>6, <2>7, <3>1
    <3>2. CASE hi = d.max
      BY <1>1, <2>1, <2>3, <2>5, <2>6, <2>7, <3>2
    <3> QED BY <2>2, <3>1, <3>2
  <2>10. ct + dt <= lo + ((m + n) - 1) * hi
    <3>1. CASE lo = c.min
      BY <1>1, <2>1, <2>3, <2>5, <2>6, <2>7, <3>1
    <3>2. CASE lo = d.min
      BY <1>1, <2>1, <2>3, <2>5, <2>6, <2>7, <3>2
    <3> QED BY <2>2, <3>1, <3>2
  <2>11. lo <= hi /\ lo # None /\ hi # None
    BY <2>1, <2>2, <2>3 DEF None
  <2>12. m + n # 0
    BY <1>1, <1>8
  <2>13. /\ e.requests * e.min <= e.tokens["input"]
         /\ e.tokens["input"] <= e.requests * e.max
         /\ (e.requests - 1) * e.min + e.max <= e.tokens["input"]
         /\ e.tokens["input"] <= e.min + (e.requests - 1) * e.max
         /\ e.min <= e.max /\ e.min # None /\ e.max # None /\ e.requests # 0
    <3>1. e.requests = m + n /\ e.tokens["input"] = ct + dt /\ e.min = lo /\ e.max = hi
      BY <1>2 DEF m, n, ct, dt, lo, hi
    <3> HIDE DEF e
    <3>2. (m + n) * lo <= ct + dt /\ ct + dt <= (m + n) * hi
      BY <2>8
    <3>3. e.requests * e.min <= e.tokens["input"] /\ e.tokens["input"] <= e.requests * e.max
      BY <3>1, <3>2, Zenon
    <3>4. (e.requests - 1) * e.min + e.max <= e.tokens["input"]
      BY <2>9, <3>1, Zenon
    <3>5. e.tokens["input"] <= e.min + (e.requests - 1) * e.max
      BY <2>10, <3>1, Zenon
    <3>6. e.min <= e.max /\ e.min # None /\ e.max # None /\ e.requests # 0
      BY <2>11, <2>12, <3>1
    <3> QED BY <3>3, <3>4, <3>5, <3>6
  <2> QED BY <1>3, <1>4, <2>13 DEF PyCohort
<1> QED BY <1>5, <1>6, <1>7, <1>8

-----------------------------------------------------------------------------
(* Adding rows bin by bin or as wholes comes to the same. *)

Extrema == Nat \cup {None}
Proper  == {c \in Cohorts : c.min \in Extrema /\ c.max \in Extrema}

LEMMA SameParts ==
  ASSUME NEW c \in Cohorts, NEW d \in Cohorts,
         c.requests = d.requests, c.min = d.min, c.max = d.max,
         \A f \in FIELDS : c.tokens[f] = d.tokens[f]
  PROVE  c = d
BY DEF Cohorts, FIELDS

LEMMA ProperAdd ==
  ASSUME NEW c \in Proper, NEW d \in Proper
  PROVE  AddCohort(c, d) \in Proper
<1>1. AddCohort(c, d) \in Cohorts
  BY CohortsAdd DEF Proper
<1>2. Least(c.min, d.min) \in Extrema /\ Greatest(c.max, d.max) \in Extrema
  BY DEF Proper, Least, Greatest
<1> QED BY <1>1, <1>2, AddCohortParts DEF Proper

LEMMA EmptyProper == EmptyCohort \in Proper /\ AddCohort(EmptyCohort, EmptyCohort) = EmptyCohort
<1>1. EmptyCohort \in Proper
  BY EmptyIsCohort DEF Proper, EmptyCohort, Extrema
<1>2. /\ EmptyCohort.requests = 0 /\ EmptyCohort.min = None /\ EmptyCohort.max = None
      /\ \A f \in FIELDS : EmptyCohort.tokens[f] = 0
  BY DEF EmptyCohort, NoTokens, PerField, FIELDS
<1>3. Least(None, None) = None /\ Greatest(None, None) = None
  BY DEF Least, Greatest, None
<1> DEFINE e == EmptyCohort
           d == AddCohort(e, e)
<1>4. d \in Cohorts /\ e \in Cohorts
  BY <1>1, ProperAdd DEF Proper
<1>5. /\ d.requests = e.requests + e.requests
      /\ \A f \in FIELDS : d.tokens[f] = e.tokens[f] + e.tokens[f]
      /\ d.min = Least(e.min, e.min) /\ d.max = Greatest(e.max, e.max)
  BY AddCohortParts
<1>6. /\ d.requests = e.requests /\ d.min = e.min /\ d.max = e.max
      /\ \A f \in FIELDS : d.tokens[f] = e.tokens[f]
  <2> HIDE DEF d
  <2> QED BY <1>2, <1>3, <1>5
<1>7. d = e
  <2> HIDE DEF d, e
  <2> QED BY <1>4, <1>6, SameParts
<1> QED BY <1>1, <1>7

LEMMA ExtremaInterchange ==
  ASSUME NEW a \in Extrema, NEW b \in Extrema, NEW c \in Extrema, NEW d \in Extrema
  PROVE  /\ Least(Least(a, b), Least(c, d)) = Least(Least(a, c), Least(b, d))
         /\ Greatest(Greatest(a, b), Greatest(c, d)) = Greatest(Greatest(a, c), Greatest(b, d))
<1>1. Least(Least(a, b), Least(c, d)) = Least(Least(a, c), Least(b, d))
  BY DEF Extrema, Least, None
<1>2. Greatest(Greatest(a, b), Greatest(c, d)) = Greatest(Greatest(a, c), Greatest(b, d))
  BY DEF Extrema, Greatest, None
<1> QED BY <1>1, <1>2

LEMMA Interchange ==
  ASSUME NEW a \in Proper, NEW b \in Proper, NEW c \in Proper, NEW d \in Proper
  PROVE  AddCohort(AddCohort(a, b), AddCohort(c, d)) = AddCohort(AddCohort(a, c), AddCohort(b, d))
<1> DEFINE ab == AddCohort(a, b)
           cd == AddCohort(c, d)
           ac == AddCohort(a, c)
           bd == AddCohort(b, d)
           x == AddCohort(ab, cd)
           y == AddCohort(ac, bd)
<1>1. x \in Cohorts /\ y \in Cohorts
  BY ProperAdd DEF Proper
<1>2. /\ a.requests \in Int /\ b.requests \in Int /\ c.requests \in Int /\ d.requests \in Int
      /\ \A f \in FIELDS : /\ a.tokens[f] \in Int /\ b.tokens[f] \in Int
                           /\ c.tokens[f] \in Int /\ d.tokens[f] \in Int
      /\ a.min \in Extrema /\ b.min \in Extrema /\ c.min \in Extrema /\ d.min \in Extrema
      /\ a.max \in Extrema /\ b.max \in Extrema /\ c.max \in Extrema /\ d.max \in Extrema
  BY DEF Proper, Cohorts, FIELDS
<1>3. /\ x.requests = (a.requests + b.requests) + (c.requests + d.requests)
      /\ \A f \in FIELDS : x.tokens[f] = (a.tokens[f] + b.tokens[f]) + (c.tokens[f] + d.tokens[f])
      /\ x.min = Least(Least(a.min, b.min), Least(c.min, d.min))
      /\ x.max = Greatest(Greatest(a.max, b.max), Greatest(c.max, d.max))
  BY AddCohortParts
<1>4. /\ y.requests = (a.requests + c.requests) + (b.requests + d.requests)
      /\ \A f \in FIELDS : y.tokens[f] = (a.tokens[f] + c.tokens[f]) + (b.tokens[f] + d.tokens[f])
      /\ y.min = Least(Least(a.min, c.min), Least(b.min, d.min))
      /\ y.max = Greatest(Greatest(a.max, c.max), Greatest(b.max, d.max))
  BY AddCohortParts
<1> HIDE DEF x, y
<1>5. /\ x.requests = y.requests /\ \A f \in FIELDS : x.tokens[f] = y.tokens[f]
      /\ x.min = y.min /\ x.max = y.max
  <2>1. x.requests = y.requests /\ \A f \in FIELDS : x.tokens[f] = y.tokens[f]
    BY <1>2, <1>3, <1>4
  <2>2. x.min = y.min
    <3> DEFINE p == a.min
               q == b.min
               u == c.min
               v == d.min
    <3>1. p \in Extrema /\ q \in Extrema /\ u \in Extrema /\ v \in Extrema
      BY <1>2
    <3>2. /\ x.min = Least(Least(p, q), Least(u, v))
          /\ y.min = Least(Least(p, u), Least(q, v))
      BY <1>3, <1>4
    <3> HIDE DEF p, q, u, v
    <3>3. Least(Least(p, q), Least(u, v)) = Least(Least(p, u), Least(q, v))
      BY <3>1, ExtremaInterchange
    <3> QED BY <3>2, <3>3, Zenon
  <2>3. x.max = y.max
    <3> DEFINE p == a.max
               q == b.max
               u == c.max
               v == d.max
    <3>1. p \in Extrema /\ q \in Extrema /\ u \in Extrema /\ v \in Extrema
      BY <1>2
    <3>2. /\ x.max = Greatest(Greatest(p, q), Greatest(u, v))
          /\ y.max = Greatest(Greatest(p, u), Greatest(q, v))
      BY <1>3, <1>4
    <3> HIDE DEF p, q, u, v
    <3>3. Greatest(Greatest(p, q), Greatest(u, v)) = Greatest(Greatest(p, u), Greatest(q, v))
      BY <3>1, ExtremaInterchange
    <3> QED BY <3>2, <3>3, Zenon
  <2> QED BY <2>1, <2>2, <2>3
<1>6. x = y
  BY <1>1, <1>5, SameParts
<1> QED BY <1>6 DEF x, y

Joined(c) ==
  AddCohort(AddCohort(AddCohort(AddCohort(EmptyCohort, c[1]), c[2]), c[3]), c[4])

Cellwise(c, d, e) ==
  \A i \in Bin : c[i] \in Proper /\ d[i] \in Proper /\ e[i] = AddCohort(c[i], d[i])

LEMMA JoinedAdd ==
  ASSUME NEW c, NEW d, NEW e, Cellwise(c, d, e)
  PROVE  Joined(e) = AddCohort(Joined(c), Joined(d))
<1> DEFINE c1 == AddCohort(EmptyCohort, c[1])
           c2 == AddCohort(c1, c[2])
           c3 == AddCohort(c2, c[3])
           d1 == AddCohort(EmptyCohort, d[1])
           d2 == AddCohort(d1, d[2])
           d3 == AddCohort(d2, d[3])
<1>1. c[1] \in Proper /\ d[1] \in Proper /\ e[1] = AddCohort(c[1], d[1])
  BY DEF Cellwise, Bin
<1>2. c[2] \in Proper /\ d[2] \in Proper /\ e[2] = AddCohort(c[2], d[2])
  BY DEF Cellwise, Bin
<1>3. c[3] \in Proper /\ d[3] \in Proper /\ e[3] = AddCohort(c[3], d[3])
  BY DEF Cellwise, Bin
<1>4. c[4] \in Proper /\ d[4] \in Proper /\ e[4] = AddCohort(c[4], d[4])
  BY DEF Cellwise, Bin
<1>5. /\ c1 \in Proper /\ d1 \in Proper
      /\ AddCohort(EmptyCohort, e[1]) = AddCohort(c1, d1)
  <2>1. AddCohort(EmptyCohort, c[1]) \in Proper /\ AddCohort(EmptyCohort, d[1]) \in Proper
    BY <1>1, EmptyProper, ProperAdd
  <2>2. AddCohort(AddCohort(EmptyCohort, EmptyCohort), AddCohort(c[1], d[1]))
          = AddCohort(AddCohort(EmptyCohort, c[1]), AddCohort(EmptyCohort, d[1]))
    BY <1>1, EmptyProper, Interchange
  <2> QED BY <1>1, <2>1, <2>2, EmptyProper, Zenon
<1> HIDE DEF c1, d1
<1>6. /\ c2 \in Proper /\ d2 \in Proper
      /\ AddCohort(AddCohort(c1, d1), e[2]) = AddCohort(c2, d2)
  <2>1. AddCohort(c1, c[2]) \in Proper /\ AddCohort(d1, d[2]) \in Proper
    BY <1>2, <1>5, ProperAdd
  <2>2. AddCohort(AddCohort(c1, d1), AddCohort(c[2], d[2]))
          = AddCohort(AddCohort(c1, c[2]), AddCohort(d1, d[2]))
    BY <1>2, <1>5, Interchange
  <2> QED BY <1>2, <2>1, <2>2, Zenon
<1> HIDE DEF c2, d2
<1>7. /\ c3 \in Proper /\ d3 \in Proper
      /\ AddCohort(AddCohort(c2, d2), e[3]) = AddCohort(c3, d3)
  <2>1. AddCohort(c2, c[3]) \in Proper /\ AddCohort(d2, d[3]) \in Proper
    BY <1>3, <1>6, ProperAdd
  <2>2. AddCohort(AddCohort(c2, d2), AddCohort(c[3], d[3]))
          = AddCohort(AddCohort(c2, c[3]), AddCohort(d2, d[3]))
    BY <1>3, <1>6, Interchange
  <2> QED BY <1>3, <2>1, <2>2, Zenon
<1> HIDE DEF c3, d3
<1>8. AddCohort(AddCohort(c3, d3), e[4]) = AddCohort(AddCohort(c3, c[4]), AddCohort(d3, d[4]))
  BY <1>4, <1>7, Interchange
<1> QED BY <1>5, <1>6, <1>7, <1>8 DEF Joined, c1, c2, c3, d1, d2, d3

-----------------------------------------------------------------------------
(* A row that adds two valid ones, and fits, is valid. *)

LEMMA BinsStayConserved ==
  ASSUME NEW i \in Bin, NEW b, NEW c, NEW e,
         BinConserved(b, i), BinConserved(c, i),
         PyCohort(b.complete), PyCohort(c.complete),
         b.reported.requests \in Nat, b.reported.tokens \in Nat,
         c.reported.requests \in Nat, c.reported.tokens \in Nat,
         e.reported.requests = b.reported.requests + c.reported.requests,
         e.reported.tokens = b.reported.tokens + c.reported.tokens,
         e.complete = AddCohort(b.complete, c.complete)
  PROVE  BinConserved(e, i)
<1> DEFINE m == b.reported.requests
           n == c.reported.requests
           u == b.complete
           v == c.complete
           w == e.complete
<1>1. Low(i) \in Int /\ Edge[i] \in Int
  BY EdgeAssumption DEF Low, Bin
<1>2. (m + n) * Low(i) = m * Low(i) + n * Low(i) /\ (m + n) * Edge[i] = m * Edge[i] + n * Edge[i]
  <2>1. m \in Int /\ n \in Int
    OBVIOUS
  <2> HIDE DEF m, n
  <2> QED BY <1>1, <2>1, Distributes
<1>3. /\ m * Low(i) \in Int /\ n * Low(i) \in Int /\ m * Edge[i] \in Int /\ n * Edge[i] \in Int
      /\ m \in Nat /\ n \in Nat
  BY <1>1
<1>4. /\ m * Low(i) <= b.reported.tokens /\ n * Low(i) <= c.reported.tokens
      /\ b.reported.tokens <= m * Edge[i] /\ c.reported.tokens <= n * Edge[i]
      /\ u.requests <= m /\ v.requests <= n
      /\ u.tokens["input"] <= b.reported.tokens /\ v.tokens["input"] <= c.reported.tokens
      /\ u.requests = m => u.tokens["input"] = b.reported.tokens
      /\ v.requests = n => v.tokens["input"] = c.reported.tokens
      /\ u.requests # 0 => Low(i) <= u.min /\ u.max <= Edge[i]
      /\ v.requests # 0 => Low(i) <= v.min /\ v.max <= Edge[i]
  BY DEF BinConserved
<1>5. /\ u.requests \in Nat /\ v.requests \in Nat
      /\ u.tokens["input"] \in Nat /\ v.tokens["input"] \in Nat
      /\ u.requests = 0 => u.min = None /\ u.max = None
      /\ v.requests = 0 => v.min = None /\ v.max = None
      /\ u.requests # 0 => u.min \in Nat /\ u.max \in Nat
      /\ v.requests # 0 => v.min \in Nat /\ v.max \in Nat
  BY CohortMeans DEF FIELDS
<1>6. /\ w.requests = u.requests + v.requests
      /\ w.tokens["input"] = u.tokens["input"] + v.tokens["input"]
      /\ w.min = Least(u.min, v.min) /\ w.max = Greatest(u.max, v.max)
  BY AddCohortParts DEF FIELDS
<1>7. e.reported.requests = m + n /\ e.reported.tokens = b.reported.tokens + c.reported.tokens
  OBVIOUS
<1> HIDE DEF m, n, u, v, w
<1>8. /\ e.reported.requests * Low(i) <= e.reported.tokens
      /\ e.reported.tokens <= e.reported.requests * Edge[i]
  BY <1>2, <1>3, <1>4, <1>7
<1>9. /\ w.requests <= e.reported.requests
      /\ w.tokens["input"] <= e.reported.tokens
      /\ w.requests = e.reported.requests => w.tokens["input"] = e.reported.tokens
  BY <1>3, <1>4, <1>5, <1>6, <1>7
<1>10. w.requests # 0 => Low(i) <= w.min /\ w.max <= Edge[i]
  BY <1>1, <1>4, <1>5, <1>6 DEF Least, Greatest, None
<1> QED BY <1>8, <1>9, <1>10 DEF BinConserved, w

LEMMA InRangeMeans ==
  ASSUME NEW r, InRange(r)
  PROVE  /\ r.requests \in Nat /\ r.violations \in Nat
         /\ \A x \in REASONS : r.excluded[x] \in Nat
         /\ \A f \in FIELDS :
              /\ r.fields[f].tokens \in Nat /\ r.fields[f].reported \in Nat /\ r.fields[f].missing \in Nat
              /\ \A x \in FLAGS : r.fields[f].flags[x] \in Nat
         /\ \A f \in Sourced, x \in ORIGINS : r.provenance[f][x] \in Nat
         /\ r.complete.requests \in Nat /\ \A f \in FIELDS : r.complete.tokens[f] \in Nat
         /\ \A i \in Bin :
              /\ r.histogram[i].reported.requests \in Nat /\ r.histogram[i].reported.tokens \in Nat
              /\ r.histogram[i].complete.requests \in Nat
              /\ \A f \in FIELDS : r.histogram[i].complete.tokens[f] \in Nat
<1>1. \A n \in Amounts : n \in Nat
  BY MaxIntAssumption DEF Amounts
<1> QED BY <1>1 DEF InRange, CohortFits

LEMMA RowsStayValid ==
  ASSUME NEW r, Shaped(r), PyRow(r), NEW s, Shaped(s), PyRow(s), InRange(AddRow(r, s))
  PROVE  PyRow(AddRow(r, s))
<1> DEFINE t == AddRow(r, s)
<1>1. InRange(r) /\ InRange(s) /\ GoRow(r) /\ GoRow(s)
  BY RowVerdicts DEF PyRow
<1>2. FieldsConserved(t)
  <2>1. /\ t.requests = r.requests + s.requests /\ t.violations = r.violations + s.violations
        /\ r.requests \in Nat /\ s.requests \in Nat /\ r.violations \in Nat /\ s.violations \in Nat
    BY <1>1, AddRowParts, InRangeMeans
  <2>2. FieldsConserved(r) /\ FieldsConserved(s)
    BY DEF PyRow
  <2>3. t.requests > 0 /\ t.violations <= t.requests
    <3> HIDE DEF t
    <3> QED BY <2>1, <2>2 DEF FieldsConserved
  <2>4. ASSUME NEW f \in FIELDS
        PROVE  /\ t.fields[f].reported + t.fields[f].missing = t.requests
               /\ \A x \in FLAGS : t.fields[f].flags[x] <= t.requests
               /\ t.fields[f].reported = 0 => t.fields[f].tokens = 0
               /\ f \in Sourced => t.fields[f].flags["subset_violation"] = 0
    <3> DEFINE u == r.fields[f]
               v == s.fields[f]
               w == t.fields[f]
    <3>1. /\ w.tokens = u.tokens + v.tokens /\ w.reported = u.reported + v.reported
          /\ w.missing = u.missing + v.missing
          /\ \A x \in FLAGS : w.flags[x] = u.flags[x] + v.flags[x]
      BY AddRowParts
    <3>2. /\ u.tokens \in Nat /\ u.reported \in Nat /\ u.missing \in Nat
          /\ v.tokens \in Nat /\ v.reported \in Nat /\ v.missing \in Nat
          /\ \A x \in FLAGS : u.flags[x] \in Nat /\ v.flags[x] \in Nat
      BY <1>1, InRangeMeans
    <3>3. /\ u.reported + u.missing = r.requests /\ v.reported + v.missing = s.requests
          /\ \A x \in FLAGS : u.flags[x] <= r.requests /\ v.flags[x] <= s.requests
          /\ u.reported = 0 => u.tokens = 0
          /\ v.reported = 0 => v.tokens = 0
          /\ f \in Sourced => u.flags["subset_violation"] = 0 /\ v.flags["subset_violation"] = 0
      BY <2>2 DEF FieldsConserved
    <3>4. "subset_violation" \in FLAGS
      BY DEF FLAGS
    <3> HIDE DEF t, u, v, w
    <3>5. w.reported + w.missing = t.requests
      BY <2>1, <3>1, <3>2, <3>3
    <3>6. ASSUME NEW x \in FLAGS PROVE w.flags[x] <= t.requests
      BY <2>1, <3>1, <3>2, <3>3
    <3>7. w.reported = 0 => w.tokens = 0
      BY <3>1, <3>2, <3>3
    <3>8. f \in Sourced => w.flags["subset_violation"] = 0
      BY <3>1, <3>3, <3>4
    <3> QED BY <3>5, <3>6, <3>7, <3>8 DEF w
  <2> HIDE DEF t
  <2> QED BY <2>3, <2>4 DEF FieldsConserved
<1>3. CompleteConserved(t)
  <2>1. /\ t.violations = r.violations + s.violations
        /\ t.excluded["invalid_usage"] = r.excluded["invalid_usage"] + s.excluded["invalid_usage"]
    BY AddRowParts DEF REASONS
  <2>2. /\ r.violations \in Nat /\ s.violations \in Nat
        /\ r.excluded["invalid_usage"] \in Nat /\ s.excluded["invalid_usage"] \in Nat
    BY <1>1, InRangeMeans DEF REASONS
  <2>3. CompleteConserved(r) /\ CompleteConserved(s)
    BY DEF PyRow
  <2>4. t.violations <= t.excluded["invalid_usage"]
    <3> HIDE DEF t
    <3> QED BY <2>1, <2>2, <2>3 DEF CompleteConserved
  <2>5. ASSUME NEW f \in FIELDS
        PROVE  /\ t.complete.requests <= t.fields[f].reported
               /\ t.complete.tokens[f] <= t.fields[f].tokens
               /\ t.complete.requests = t.fields[f].reported => t.complete.tokens[f] = t.fields[f].tokens
    <3>1. /\ t.fields[f].tokens = r.fields[f].tokens + s.fields[f].tokens
          /\ t.fields[f].reported = r.fields[f].reported + s.fields[f].reported
          /\ t.complete.requests = r.complete.requests + s.complete.requests
          /\ t.complete.tokens[f] = r.complete.tokens[f] + s.complete.tokens[f]
      BY AddRowParts, AddCohortParts
    <3>2. /\ r.fields[f].tokens \in Nat /\ s.fields[f].tokens \in Nat
          /\ r.fields[f].reported \in Nat /\ s.fields[f].reported \in Nat
          /\ r.complete.requests \in Nat /\ s.complete.requests \in Nat
          /\ r.complete.tokens[f] \in Nat /\ s.complete.tokens[f] \in Nat
      BY <1>1, InRangeMeans
    <3>3. /\ r.complete.requests <= r.fields[f].reported /\ s.complete.requests <= s.fields[f].reported
          /\ r.complete.tokens[f] <= r.fields[f].tokens /\ s.complete.tokens[f] <= s.fields[f].tokens
          /\ r.complete.requests = r.fields[f].reported => r.complete.tokens[f] = r.fields[f].tokens
          /\ s.complete.requests = s.fields[f].reported => s.complete.tokens[f] = s.fields[f].tokens
      BY <2>3 DEF CompleteConserved
    <3> HIDE DEF t
    <3>4. t.complete.requests <= t.fields[f].reported
      BY <3>1, <3>2, <3>3
    <3>5. t.complete.tokens[f] <= t.fields[f].tokens
      BY <3>1, <3>2, <3>3
    <3>6. t.complete.requests = t.fields[f].reported => t.complete.tokens[f] = t.fields[f].tokens
      BY <3>1, <3>2, <3>3
    <3> QED BY <3>4, <3>5, <3>6
  <2> HIDE DEF t
  <2> QED BY <2>4, <2>5 DEF CompleteConserved
<1>4. OriginsConserved(t)
  <2>1. OriginsConserved(r) /\ OriginsConserved(s)
    BY DEF PyRow
  <2>2. ASSUME NEW f \in Sourced
        PROVE  LET p == t.provenance[f] IN
               /\ p["provider_reported"] + p["inferred"] + p["unavailable"] + p["unknown"] = t.requests
               /\ p["unavailable"] <= t.fields[f].missing
               /\ p["provider_reported"] + p["inferred"] <= t.fields[f].reported
    <3> DEFINE p == r.provenance[f]
               q == s.provenance[f]
               o == t.provenance[f]
    <3>1. f \in FIELDS
      BY DEF Sourced, FIELDS
    <3>2. /\ o["provider_reported"] = p["provider_reported"] + q["provider_reported"]
          /\ o["inferred"] = p["inferred"] + q["inferred"]
          /\ o["unavailable"] = p["unavailable"] + q["unavailable"]
          /\ o["unknown"] = p["unknown"] + q["unknown"]
          /\ t.requests = r.requests + s.requests
          /\ t.fields[f].missing = r.fields[f].missing + s.fields[f].missing
          /\ t.fields[f].reported = r.fields[f].reported + s.fields[f].reported
      BY <3>1, AddRowParts DEF ORIGINS
    <3>3. /\ p["provider_reported"] \in Nat /\ p["inferred"] \in Nat
          /\ p["unavailable"] \in Nat /\ p["unknown"] \in Nat
          /\ q["provider_reported"] \in Nat /\ q["inferred"] \in Nat
          /\ q["unavailable"] \in Nat /\ q["unknown"] \in Nat
          /\ r.fields[f].missing \in Nat /\ s.fields[f].missing \in Nat
          /\ r.fields[f].reported \in Nat /\ s.fields[f].reported \in Nat
          /\ r.requests \in Nat /\ s.requests \in Nat
      BY <1>1, <3>1, InRangeMeans DEF ORIGINS
    <3>4. /\ p["provider_reported"] + p["inferred"] + p["unavailable"] + p["unknown"] = r.requests
          /\ p["unavailable"] <= r.fields[f].missing
          /\ p["provider_reported"] + p["inferred"] <= r.fields[f].reported
          /\ q["provider_reported"] + q["inferred"] + q["unavailable"] + q["unknown"] = s.requests
          /\ q["unavailable"] <= s.fields[f].missing
          /\ q["provider_reported"] + q["inferred"] <= s.fields[f].reported
      BY <2>1 DEF OriginsConserved
    <3> HIDE DEF t, p, q, o
    <3>5. /\ o["provider_reported"] + o["inferred"] + o["unavailable"] + o["unknown"] = t.requests
          /\ o["unavailable"] <= t.fields[f].missing
          /\ o["provider_reported"] + o["inferred"] <= t.fields[f].reported
      BY <3>2, <3>3, <3>4
    <3> QED BY <3>5 DEF o
  <2> HIDE DEF t
  <2> QED BY <2>2 DEF OriginsConserved
<1>5. t.complete.requests + Excluded(t) = t.requests
  <2>1. /\ t.requests = r.requests + s.requests
        /\ t.complete.requests = r.complete.requests + s.complete.requests
        /\ \A x \in REASONS : t.excluded[x] = r.excluded[x] + s.excluded[x]
    BY AddRowParts, AddCohortParts
  <2>2. /\ r.complete.requests \in Nat /\ s.complete.requests \in Nat
        /\ \A x \in REASONS : r.excluded[x] \in Nat /\ s.excluded[x] \in Nat
    BY <1>1, InRangeMeans
  <2>3. r.complete.requests + Excluded(r) = r.requests /\ s.complete.requests + Excluded(s) = s.requests
    BY DEF PyRow
  <2> HIDE DEF t
  <2> QED BY <2>1, <2>2, <2>3 DEF Excluded, REASONS
<1>6. /\ GoCohort(t.complete)
      /\ \A i \in Bin : GoCohort(t.histogram[i].complete) /\ BinConserved(t.histogram[i], i)
  <2>0. InRange(t)
    OBVIOUS
  <2>1. t.complete = AddCohort(r.complete, s.complete)
    BY AddRowParts
  <2> HIDE DEF t
  <2>2. PyCohort(t.complete)
    <3>1. r.complete \in Cohorts /\ s.complete \in Cohorts
      BY DEF Shaped
    <3>2. PyCohort(r.complete) /\ PyCohort(s.complete)
      BY DEF PyRow
    <3>3. CohortFits(t.complete)
      BY <2>0 DEF InRange
    <3> QED BY <2>1, <3>1, <3>2, <3>3, CohortsStayValid
  <2>3. ASSUME NEW i \in Bin
        PROVE  PyCohort(t.histogram[i].complete) /\ BinConserved(t.histogram[i], i)
    <3>0. PyCohort(r.histogram[i].complete) /\ PyCohort(s.histogram[i].complete)
      BY DEF PyRow
    <3>1. t.histogram[i].complete = AddCohort(r.histogram[i].complete, s.histogram[i].complete)
      BY AddRowParts DEF t
    <3>2. PyCohort(t.histogram[i].complete)
      <4>1. r.histogram[i].complete \in Cohorts /\ s.histogram[i].complete \in Cohorts
        BY DEF Shaped
      <4>2. CohortFits(t.histogram[i].complete)
        BY <2>0 DEF InRange
      <4> QED BY <3>0, <3>1, <4>1, <4>2, CohortsStayValid
    <3>3. /\ t.histogram[i].reported.requests
               = r.histogram[i].reported.requests + s.histogram[i].reported.requests
          /\ t.histogram[i].reported.tokens
               = r.histogram[i].reported.tokens + s.histogram[i].reported.tokens
      BY AddRowParts DEF t
    <3>4. /\ r.histogram[i].reported.requests \in Nat /\ r.histogram[i].reported.tokens \in Nat
          /\ s.histogram[i].reported.requests \in Nat /\ s.histogram[i].reported.tokens \in Nat
      BY <1>1, InRangeMeans
    <3>5. BinConserved(r.histogram[i], i) /\ BinConserved(s.histogram[i], i)
      BY DEF PyRow
    <3>6. BinConserved(t.histogram[i], i)
      BY <3>0, <3>1, <3>3, <3>4, <3>5, BinsStayConserved
    <3> QED BY <3>2, <3>6
  <2> QED BY <2>2, <2>3, CohortVerdicts
<1>7. /\ Sum4(LAMBDA i : t.histogram[i].reported.requests) = t.fields["input"].reported
      /\ Sum4(LAMBDA i : t.histogram[i].reported.tokens) = t.fields["input"].tokens
  <2>1. \A i \in Bin :
          /\ t.histogram[i].reported.requests
               = r.histogram[i].reported.requests + s.histogram[i].reported.requests
          /\ t.histogram[i].reported.tokens
               = r.histogram[i].reported.tokens + s.histogram[i].reported.tokens
    BY AddRowParts
  <2>2. \A i \in Bin :
          /\ r.histogram[i].reported.requests \in Nat /\ r.histogram[i].reported.tokens \in Nat
          /\ s.histogram[i].reported.requests \in Nat /\ s.histogram[i].reported.tokens \in Nat
    BY <1>1, InRangeMeans
  <2>3. /\ t.fields["input"].reported = r.fields["input"].reported + s.fields["input"].reported
        /\ t.fields["input"].tokens = r.fields["input"].tokens + s.fields["input"].tokens
    BY AddRowParts DEF FIELDS
  <2>4. /\ Sum4(LAMBDA i : r.histogram[i].reported.requests) = r.fields["input"].reported
        /\ Sum4(LAMBDA i : r.histogram[i].reported.tokens) = r.fields["input"].tokens
        /\ Sum4(LAMBDA i : s.histogram[i].reported.requests) = s.fields["input"].reported
        /\ Sum4(LAMBDA i : s.histogram[i].reported.tokens) = s.fields["input"].tokens
    BY DEF PyRow
  <2> HIDE DEF t
  <2> QED BY <2>1, <2>2, <2>3, <2>4 DEF Sum4, Bin
<1> DEFINE Cells(u) == [i \in Bin |-> u.histogram[i].complete]
<1>8. Joined(Cells(t)) = t.complete
  <2>1. \A i \in Bin :
          /\ r.histogram[i].complete \in Proper /\ s.histogram[i].complete \in Proper
          /\ t.histogram[i].complete = AddCohort(r.histogram[i].complete, s.histogram[i].complete)
    <3>1. \A i \in Bin : r.histogram[i].complete \in Cohorts /\ s.histogram[i].complete \in Cohorts
      BY DEF Shaped
    <3>2. \A i \in Bin : PyCohort(r.histogram[i].complete) /\ PyCohort(s.histogram[i].complete)
      BY DEF PyRow
    <3>3. \A c \in Cohorts : PyCohort(c) => c \in Proper
      BY MaxIntAssumption, CohortMeans DEF Proper, Extrema, Amounts
    <3> QED BY <3>1, <3>2, <3>3, AddRowParts
  <2>2. Joined(Cells(r)) = r.complete /\ Joined(Cells(s)) = s.complete
    BY <1>1 DEF GoRow, Joined, Bin
  <2>3. t.complete = AddCohort(r.complete, s.complete)
    BY AddRowParts
  <2> HIDE DEF t
  <2>4. Cellwise(Cells(r), Cells(s), Cells(t))
    BY <2>1 DEF Cellwise
  <2> HIDE DEF Cells
  <2>5. Joined(Cells(t)) = AddCohort(Joined(Cells(r)), Joined(Cells(s)))
    BY <2>4, JoinedAdd
  <2> QED BY <2>2, <2>3, <2>5, Zenon
<1>9. /\ t.complete.requests + Excluded(t) \in Amounts
      /\ t.fields["input"].reported \in Amounts /\ t.fields["input"].tokens \in Amounts
      /\ CohortFits(t.complete)
  BY <1>5 DEF InRange, FIELDS
<1>10. GoRow(t)
  <2> HIDE DEF t
  <2>1. InRange(t)
    BY DEF t
  <2>2. AddCohort(AddCohort(AddCohort(AddCohort(EmptyCohort, t.histogram[1].complete),
          t.histogram[2].complete), t.histogram[3].complete), t.histogram[4].complete) = t.complete
    BY <1>8 DEF Joined, Bin
  <2> QED BY <1>2, <1>3, <1>4, <1>5, <1>6, <1>7, <1>9, <2>1, <2>2 DEF GoRow
<1> QED BY <1>10, AddRowShaped, RowVerdicts

-----------------------------------------------------------------------------
(* Blocks. *)

(* What collecting and merging start from and keep.                        *)
ValidInv ==
  /\ ShapeInv
  /\ \A o \in Owner :
       /\ NamesFit(DOMAIN block[o]) /\ TotalsFit(block[o]) /\ IsFiniteSet(DOMAIN block[o])
       /\ \A m \in DOMAIN block[o] : PyRow(block[o][m])

AllValid(rows) == AllShaped(rows) /\ \A m \in DOMAIN rows : PyRow(rows[m])

LEMMA MergedParts ==
  ASSUME NEW rows, NEW more
  PROVE  /\ DOMAIN Merged(rows, more) = DOMAIN rows \cup DOMAIN more
         /\ \A m \in DOMAIN rows \ DOMAIN more : Merged(rows, more)[m] = rows[m]
         /\ \A m \in DOMAIN more \ DOMAIN rows : Merged(rows, more)[m] = more[m]
         /\ \A m \in DOMAIN rows \cap DOMAIN more : Merged(rows, more)[m] = AddRow(rows[m], more[m])
BY DEF Merged

LEMMA MergedValid ==
  ASSUME NEW rows, AllValid(rows), NEW more, AllValid(more),
         \A m \in DOMAIN Merged(rows, more) : InRange(Merged(rows, more)[m])
  PROVE  AllValid(Merged(rows, more))
<1> DEFINE new == Merged(rows, more)
<1>1. AllShaped(new)
  BY MergedShaped DEF AllValid
<1>3. /\ DOMAIN new = DOMAIN rows \cup DOMAIN more
      /\ \A m \in DOMAIN rows \ DOMAIN more : new[m] = rows[m]
      /\ \A m \in DOMAIN more \ DOMAIN rows : new[m] = more[m]
      /\ \A m \in DOMAIN rows \cap DOMAIN more : new[m] = AddRow(rows[m], more[m])
  BY DEF Merged
<1>4. \A m \in DOMAIN new : InRange(new[m])
  OBVIOUS
<1> HIDE DEF new
<1>2. ASSUME NEW m \in DOMAIN new PROVE PyRow(new[m])
  <2>1. CASE m \in DOMAIN rows \ DOMAIN more
    BY <1>3, <2>1 DEF AllValid
  <2>2. CASE m \in DOMAIN more \ DOMAIN rows
    BY <1>3, <2>2 DEF AllValid
  <2>3. CASE m \in DOMAIN rows \cap DOMAIN more
    <3>1. /\ Shaped(rows[m]) /\ PyRow(rows[m]) /\ Shaped(more[m]) /\ PyRow(more[m])
          /\ new[m] = AddRow(rows[m], more[m])
      BY <1>3, <2>3 DEF AllValid, AllShaped
    <3>2. InRange(AddRow(rows[m], more[m]))
      BY <1>4, <3>1
    <3>3. PyRow(AddRow(rows[m], more[m]))
      BY <3>1, <3>2, RowsStayValid
    <3> QED BY <3>1, <3>3
  <2> QED BY <1>3, <2>1, <2>2, <2>3
<1> QED BY <1>1, <1>2 DEF AllValid, new

LEMMA InitValid == Init => ValidInv
<1> SUFFICES ASSUME Init PROVE ValidInv
  OBVIOUS
<1>1. ShapeInv
  BY DEF Init, ShapeInv, AllShaped, NoRows
<1>2. DOMAIN NoRows = {}
  BY DEF NoRows
<1>3. NamesFit({}) /\ IsFiniteSet({})
  BY MaxModelsAssumption, FS_EmptySet DEF NamesFit
<1>4. TotalRequests(NoRows) = 0 /\ \A f \in FIELDS : TotalTokens(NoRows, f) = 0
  BY <1>2, SumEmpty DEF TotalRequests, TotalTokens, Total, SumFunction
<1>5. TotalsFit(NoRows)
  BY <1>4, MaxIntAssumption DEF TotalsFit
<1> QED BY <1>1, <1>2, <1>3, <1>5 DEF Init, ValidInv

LEMMA StagedValid ==
  ASSUME NEW a \in Staged, NEW m
  PROVE  AllValid([n \in {m} |-> Row[a]])
BY RowShaped DEF Staged, AllValid, AllShaped

LEMMA OwnerValid ==
  ASSUME ValidInv, NEW o \in Owner
  PROVE  AllValid(block[o]) /\ IsFiniteSet(DOMAIN block[o])
BY DEF ValidInv, ShapeInv, AllValid

LEMMA NextValid ==
  ASSUME ValidInv, [Next]_vars
  PROVE  ValidInv'
<1>1. ASSUME NEW o \in Owner, NEW rows, Fits(rows), AllValid(rows), IsFiniteSet(DOMAIN rows),
             block' = [block EXCEPT ![o] = rows]
      PROVE  ValidInv'
  <2>1. DOMAIN block = Owner /\ DOMAIN block' = Owner /\ block'[o] = rows
        /\ \A p \in Owner \ {o} : block'[p] = block[p]
    BY <1>1 DEF ValidInv, ShapeInv
  <2>2. NamesFit(DOMAIN rows) /\ TotalsFit(rows)
    BY <1>1 DEF Fits
  <2>3. \A p \in Owner :
          /\ AllShaped(block'[p])
          /\ NamesFit(DOMAIN block'[p]) /\ TotalsFit(block'[p]) /\ IsFiniteSet(DOMAIN block'[p])
          /\ \A m \in DOMAIN block'[p] : PyRow(block'[p][m])
    BY <1>1, <2>1, <2>2 DEF ValidInv, ShapeInv, AllValid
  <2> QED BY <2>1, <2>3 DEF ValidInv, ShapeInv
<1>2. ASSUME NEW o \in Owner, NEW m \in Model, NEW a \in Attempt, Collect(o, m, a) PROVE ValidInv'
  <2> DEFINE more == [n \in {m} |-> Row[a]]
             new == Merged(block[o], more)
  <2>1. Fits(new) /\ block' = [block EXCEPT ![o] = new] /\ a \in Staged
    BY <1>2 DEF Collect, With
  <2>2. AllValid(more) /\ AllValid(block[o]) /\ IsFiniteSet(DOMAIN block[o])
    BY <2>1, StagedValid, OwnerValid
  <2>3. \A n \in DOMAIN new : InRange(new[n])
    BY <2>1 DEF Fits
  <2>4. IsFiniteSet(DOMAIN new)
    <3>1. IsFiniteSet({m}) /\ DOMAIN more = {m}
      BY FS_Singleton
    <3> HIDE DEF more
    <3>2. DOMAIN new = DOMAIN block[o] \cup {m}
      BY <3>1 DEF Merged
    <3> QED BY <2>2, <3>1, <3>2, FS_Union
  <2> HIDE DEF more
  <2>5. AllValid(new)
    BY <2>2, <2>3, MergedValid
  <2> QED BY <1>1, <2>1, <2>4, <2>5
<1>3. ASSUME NEW o \in Owner, NEW p \in Owner, Merge(o, p) PROVE ValidInv'
  <2> DEFINE new == Merged(block[o], block[p])
  <2>1. Fits(new) /\ block' = [block EXCEPT ![o] = new]
    BY <1>3 DEF Merge
  <2>2. \A n \in DOMAIN new : InRange(new[n])
    BY <2>1 DEF Fits
  <2>3. /\ AllValid(block[o]) /\ IsFiniteSet(DOMAIN block[o])
        /\ AllValid(block[p]) /\ IsFiniteSet(DOMAIN block[p])
    BY OwnerValid
  <2>4. AllValid(new)
    BY <2>2, <2>3, MergedValid
  <2>5. IsFiniteSet(DOMAIN new)
    <3>1. DOMAIN new = DOMAIN block[o] \cup DOMAIN block[p]
      BY MergedParts
    <3> QED BY <2>3, <3>1, FS_Union
  <2> QED BY <1>1, <2>1, <2>4, <2>5
<1>4. CASE UNCHANGED vars
  BY <1>4 DEF ValidInv, ShapeInv, vars
<1>5. ASSUME NEW o \in Owner, NEW m \in Model, NEW a \in Attempt, CollectRefused(o, m, a) PROVE ValidInv'
  BY <1>4, <1>5 DEF CollectRefused
<1>6. ASSUME NEW o \in Owner, NEW p \in Owner, MergeRefused(o, p) PROVE ValidInv'
  BY <1>4, <1>6 DEF MergeRefused
<1> QED BY <1>2, <1>3, <1>4, <1>5, <1>6 DEF Next

LEMMA ValidInvariant == Spec => []ValidInv
BY InitValid, NextValid, PTL DEF Spec

(* The property of the run: both validators accept every block that        *)
(* collecting and merging produce.  Merge checks names, totals and the     *)
(* range of every scalar, nothing of what relates the scalars of a row:    *)
(* that survives because it holds of both rows and addition keeps it.      *)
THEOREM BlocksValidCorrect == Spec => []BlocksValid
<1>1. ValidInv => BlocksValid
  <2> SUFFICES ASSUME ValidInv, NEW o \in Owner PROVE PyBlock(block[o]) /\ GoBlock(block[o])
    BY DEF BlocksValid
  <2>1. \A m \in DOMAIN block[o] : PyRow(block[o][m]) /\ GoRow(block[o][m])
    BY OwnerValid, RowVerdicts DEF AllValid, AllShaped
  <2> QED BY <2>1 DEF ValidInv, PyBlock, GoBlock
<1> QED BY <1>1, ValidInvariant, PTL

-----------------------------------------------------------------------------
(* A block that grew passes as the successor of the one before. *)

LEMMA CohortsNeverRegress ==
  ASSUME NEW c, NEW d, PyCohort(c), PyCohort(d)
  PROVE  ~ CohortRegressed(c, c) /\ ~ CohortRegressed(c, AddCohort(c, d))
<1> DEFINE e == AddCohort(c, d)
<1>1. /\ c.requests \in Nat /\ d.requests \in Nat
      /\ \A f \in FIELDS : c.tokens[f] \in Nat /\ d.tokens[f] \in Nat
      /\ c.min \in Extrema /\ d.min \in Extrema /\ c.max \in Extrema /\ d.max \in Extrema
  BY MaxIntAssumption, CohortMeans DEF Extrema, Amounts
<1>2. /\ e.requests = c.requests + d.requests
      /\ \A f \in FIELDS : e.tokens[f] = c.tokens[f] + d.tokens[f]
      /\ e.min = Least(c.min, d.min) /\ e.max = Greatest(c.max, d.max)
  BY AddCohortParts
<1>3. c.min # None => e.min # None /\ e.min <= c.min
  BY <1>1, <1>2 DEF Extrema, Least, None
<1>4. c.max # None => e.max # None /\ c.max <= e.max
  BY <1>1, <1>2 DEF Extrema, Greatest, None
<1>5. e.min \in Int /\ e.max \in Int
  BY <1>1, <1>2 DEF Extrema, Least, Greatest, None
<1> HIDE DEF e
<1>6. ~ CohortRegressed(c, e)
  BY <1>1, <1>2, <1>3, <1>4, <1>5 DEF CohortRegressed, Extrema, None
<1>7. ~ CohortRegressed(c, c)
  BY <1>1 DEF CohortRegressed, Extrema, None
<1> QED BY <1>6, <1>7 DEF e

LEMMA RowsNeverRegress ==
  ASSUME NEW r, NEW s, PyRow(r), PyRow(s)
  PROVE  ~ RowRegressed(r, r) /\ ~ RowRegressed(r, AddRow(r, s))
<1> DEFINE t == AddRow(r, s)
<1>1. /\ r.requests \in Nat /\ s.requests \in Nat /\ r.violations \in Nat /\ s.violations \in Nat
      /\ \A x \in REASONS : r.excluded[x] \in Nat /\ s.excluded[x] \in Nat
      /\ \A f \in Sourced, x \in ORIGINS : r.provenance[f][x] \in Nat /\ s.provenance[f][x] \in Nat
      /\ \A f \in FIELDS :
           /\ r.fields[f].tokens \in Nat /\ s.fields[f].tokens \in Nat
           /\ r.fields[f].reported \in Nat /\ s.fields[f].reported \in Nat
           /\ r.fields[f].missing \in Nat /\ s.fields[f].missing \in Nat
           /\ \A x \in FLAGS : r.fields[f].flags[x] \in Nat /\ s.fields[f].flags[x] \in Nat
      /\ \A i \in Bin :
           /\ r.histogram[i].reported.requests \in Nat /\ s.histogram[i].reported.requests \in Nat
           /\ r.histogram[i].reported.tokens \in Nat /\ s.histogram[i].reported.tokens \in Nat
  BY InRangeMeans DEF PyRow
<1>2. /\ ~ CohortRegressed(r.complete, r.complete)
      /\ ~ CohortRegressed(r.complete, t.complete)
  <2>1. PyCohort(r.complete) /\ PyCohort(s.complete)
    BY DEF PyRow
  <2>2. t.complete = AddCohort(r.complete, s.complete)
    BY AddRowParts
  <2> HIDE DEF t
  <2> QED BY <2>1, <2>2, CohortsNeverRegress
<1>3. \A i \in Bin :
        /\ ~ CohortRegressed(r.histogram[i].complete, r.histogram[i].complete)
        /\ ~ CohortRegressed(r.histogram[i].complete, t.histogram[i].complete)
  <2> SUFFICES ASSUME NEW i \in Bin
               PROVE  /\ ~ CohortRegressed(r.histogram[i].complete, r.histogram[i].complete)
                      /\ ~ CohortRegressed(r.histogram[i].complete, t.histogram[i].complete)
    OBVIOUS
  <2>1. PyCohort(r.histogram[i].complete) /\ PyCohort(s.histogram[i].complete)
    BY DEF PyRow
  <2>2. t.histogram[i].complete = AddCohort(r.histogram[i].complete, s.histogram[i].complete)
    BY AddRowParts
  <2> HIDE DEF t
  <2> QED BY <2>1, <2>2, CohortsNeverRegress
<1>4. ~ RowRegressed(r, r)
  BY <1>1, <1>2, <1>3 DEF RowRegressed
<1>5. ~ RowRegressed(r, t)
  <2>1. /\ t.requests = r.requests + s.requests /\ t.violations = r.violations + s.violations
        /\ \A x \in REASONS : t.excluded[x] = r.excluded[x] + s.excluded[x]
        /\ \A f \in Sourced, x \in ORIGINS :
             t.provenance[f][x] = r.provenance[f][x] + s.provenance[f][x]
    BY AddRowParts
  <2>2. \A f \in FIELDS :
          /\ t.fields[f].tokens = r.fields[f].tokens + s.fields[f].tokens
          /\ t.fields[f].reported = r.fields[f].reported + s.fields[f].reported
          /\ t.fields[f].missing = r.fields[f].missing + s.fields[f].missing
          /\ \A x \in FLAGS : t.fields[f].flags[x] = r.fields[f].flags[x] + s.fields[f].flags[x]
    BY AddRowParts
  <2>3. \A i \in Bin :
          /\ t.histogram[i].reported.requests
               = r.histogram[i].reported.requests + s.histogram[i].reported.requests
          /\ t.histogram[i].reported.tokens
               = r.histogram[i].reported.tokens + s.histogram[i].reported.tokens
    BY AddRowParts
  <2> HIDE DEF t
  <2>4. /\ ~ (t.requests < r.requests) /\ ~ (t.violations < r.violations)
        /\ \A x \in REASONS : ~ (t.excluded[x] < r.excluded[x])
        /\ \A f \in Sourced, x \in ORIGINS : ~ (t.provenance[f][x] < r.provenance[f][x])
    BY <1>1, <2>1
  <2>5. \A f \in FIELDS :
          /\ ~ (t.fields[f].tokens < r.fields[f].tokens)
          /\ ~ (t.fields[f].reported < r.fields[f].reported)
          /\ ~ (t.fields[f].missing < r.fields[f].missing)
          /\ \A x \in FLAGS : ~ (t.fields[f].flags[x] < r.fields[f].flags[x])
    BY <1>1, <2>2
  <2>6. \A i \in Bin :
          /\ ~ (t.histogram[i].reported.requests < r.histogram[i].reported.requests)
          /\ ~ (t.histogram[i].reported.tokens < r.histogram[i].reported.tokens)
    BY <1>1, <2>3
  <2> QED BY <1>2, <1>3, <2>4, <2>5, <2>6 DEF RowRegressed
<1> QED BY <1>4, <1>5

LEMMA MergedNeverRegresses ==
  ASSUME NEW rows, AllValid(rows), NEW more, AllValid(more)
  PROVE  ~ Regressed(rows, rows) /\ ~ Regressed(rows, Merged(rows, more))
<1>1. ASSUME NEW m \in DOMAIN rows
      PROVE  m \in DOMAIN Merged(rows, more) /\ ~ RowRegressed(rows[m], Merged(rows, more)[m])
  <2>1. m \in DOMAIN Merged(rows, more)
    BY DEF Merged
  <2>2. CASE m \notin DOMAIN more
    <3>1. Merged(rows, more)[m] = rows[m]
      BY <2>2 DEF Merged
    <3> QED BY <2>1, <3>1, RowsNeverRegress DEF AllValid
  <2>3. CASE m \in DOMAIN more
    <3>1. Merged(rows, more)[m] = AddRow(rows[m], more[m])
      BY <2>3 DEF Merged
    <3>2. PyRow(rows[m]) /\ PyRow(more[m])
      BY <2>3 DEF AllValid
    <3>3. ~ RowRegressed(rows[m], AddRow(rows[m], more[m]))
      BY <3>2, RowsNeverRegress
    <3> QED BY <2>1, <3>1, <3>3
  <2> QED BY <2>2, <2>3
<1>2. \A m \in DOMAIN rows : ~ RowRegressed(rows[m], rows[m])
  BY RowsNeverRegress DEF AllValid
<1> QED BY <1>1, <1>2 DEF Regressed

(* The property of the run: no step of any owner is one that               *)
(* check_regression would refuse, which compares every scalar of a row by  *)
(* its position and the extrema each in its own direction.                 *)
THEOREM NeverRegressesCorrect == Spec => NeverRegresses
<1>1. ASSUME ValidInv, [Next]_vars
      PROVE  [\A o \in Owner : ~ Regressed(block[o], block'[o])]_vars
  <2>1. \A o \in Owner : ~ Regressed(block[o], block[o])
    BY <1>1, OwnerValid, MergedNeverRegresses
  <2>2. ASSUME NEW o \in Owner, NEW more, AllValid(more),
               block' = [block EXCEPT ![o] = Merged(block[o], more)]
        PROVE  \A p \in Owner : ~ Regressed(block[p], block'[p])
    <3>1. DOMAIN block = Owner
      BY <1>1 DEF ValidInv, ShapeInv
    <3>2. block'[o] = Merged(block[o], more) /\ \A p \in Owner \ {o} : block'[p] = block[p]
      BY <2>2, <3>1
    <3>3. ~ Regressed(block[o], Merged(block[o], more))
      BY <1>1, <2>2, OwnerValid, MergedNeverRegresses
    <3> QED BY <2>1, <3>2, <3>3
  <2>3. ASSUME NEW o \in Owner, NEW m \in Model, NEW a \in Attempt, Collect(o, m, a)
        PROVE  \A p \in Owner : ~ Regressed(block[p], block'[p])
    <3>1. AllValid([n \in {m} |-> Row[a]])
      BY <2>3, StagedValid DEF Collect
    <3> QED BY <2>2, <2>3, <3>1 DEF Collect, With
  <2>4. ASSUME NEW o \in Owner, NEW p \in Owner, Merge(o, p)
        PROVE  \A q \in Owner : ~ Regressed(block[q], block'[q])
    BY <1>1, <2>2, <2>4, OwnerValid DEF Merge
  <2>5. ASSUME UNCHANGED vars
        PROVE  [\A o \in Owner : ~ Regressed(block[o], block'[o])]_vars
    BY <2>5
  <2>6. ASSUME NEW o \in Owner, NEW m \in Model, NEW a \in Attempt, CollectRefused(o, m, a)
        PROVE  UNCHANGED vars
    BY <2>6 DEF CollectRefused
  <2>7. ASSUME NEW o \in Owner, NEW p \in Owner, MergeRefused(o, p)
        PROVE  UNCHANGED vars
    BY <2>7 DEF MergeRefused
  <2> QED BY <1>1, <2>3, <2>4, <2>5, <2>6, <2>7 DEF Next
<1> QED BY <1>1, ValidInvariant, PTL DEF Spec, NeverRegresses

-----------------------------------------------------------------------------
(* No sum inside a row is at its limit before a total of the block is. *)

(* Every scalar of a valid row is bounded by its requests or its tokens.   *)
LEMMA ScalarsBounded ==
  ASSUME NEW r, PyRow(r)
  PROVE  /\ r.violations <= r.requests
         /\ \A x \in REASONS : r.excluded[x] <= r.requests
         /\ \A f \in Sourced, x \in ORIGINS : r.provenance[f][x] <= r.requests
         /\ \A f \in FIELDS :
              /\ r.fields[f].reported <= r.requests /\ r.fields[f].missing <= r.requests
              /\ \A x \in FLAGS : r.fields[f].flags[x] <= r.requests
              /\ r.complete.tokens[f] <= r.fields[f].tokens
         /\ r.complete.requests <= r.requests
         /\ \A i \in Bin :
              /\ r.histogram[i].reported.requests <= r.requests
              /\ r.histogram[i].reported.tokens <= r.fields["input"].tokens
              /\ r.histogram[i].complete.requests <= r.requests
              /\ \A f \in FIELDS : r.histogram[i].complete.tokens[f] <= r.fields[f].tokens
<1>1. InRange(r) /\ FieldsConserved(r) /\ CompleteConserved(r) /\ OriginsConserved(r)
      /\ r.complete.requests + Excluded(r) = r.requests
  BY DEF PyRow
<1>2. /\ r.requests \in Nat /\ r.complete.requests \in Nat
      /\ \A x \in REASONS : r.excluded[x] \in Nat
      /\ \A f \in Sourced, x \in ORIGINS : r.provenance[f][x] \in Nat
      /\ \A f \in FIELDS : /\ r.fields[f].reported \in Nat /\ r.fields[f].missing \in Nat
                           /\ r.fields[f].tokens \in Nat /\ r.complete.tokens[f] \in Nat
  BY <1>1, InRangeMeans
<1>3. r.violations <= r.requests /\ \A f \in FIELDS, x \in FLAGS : r.fields[f].flags[x] <= r.requests
  BY <1>1 DEF FieldsConserved
<1>4. \A x \in REASONS : r.excluded[x] <= r.requests
  BY <1>1, <1>2 DEF Excluded, REASONS
<1>5. r.complete.requests <= r.requests
  BY <1>1, <1>2 DEF Excluded, REASONS
<1>6. \A f \in Sourced, x \in ORIGINS : r.provenance[f][x] <= r.requests
  <2> SUFFICES ASSUME NEW f \in Sourced, NEW x \in ORIGINS PROVE r.provenance[f][x] <= r.requests
    OBVIOUS
  <2> DEFINE p == r.provenance[f]
  <2>1. p["provider_reported"] + p["inferred"] + p["unavailable"] + p["unknown"] = r.requests
    BY <1>1 DEF OriginsConserved
  <2>2. /\ p["provider_reported"] \in Nat /\ p["inferred"] \in Nat
        /\ p["unavailable"] \in Nat /\ p["unknown"] \in Nat
    BY <1>2 DEF ORIGINS
  <2>3. p[x] <= r.requests
    <3> HIDE DEF p
    <3> QED BY <1>2, <2>1, <2>2 DEF ORIGINS
  <2> QED BY <2>3
<1>7. \A f \in FIELDS : r.fields[f].reported <= r.requests /\ r.fields[f].missing <= r.requests
  BY <1>1, <1>2 DEF FieldsConserved
<1>8. \A f \in FIELDS : r.complete.tokens[f] <= r.fields[f].tokens
  BY <1>1 DEF CompleteConserved
<1>9. ASSUME NEW i \in Bin
      PROVE  /\ r.histogram[i].reported.requests <= r.requests
             /\ r.histogram[i].reported.tokens <= r.fields["input"].tokens
             /\ r.histogram[i].complete.requests <= r.requests
             /\ \A f \in FIELDS : r.histogram[i].complete.tokens[f] <= r.fields[f].tokens
  <2> DEFINE requests == [j \in Bin |-> r.histogram[j].reported.requests]
             tokens == [j \in Bin |-> r.histogram[j].reported.tokens]
             part(f) == [j \in Bin |-> r.histogram[j].complete.tokens[f]]
  <2>1. \A g \in [Bin -> Nat] : g[i] <= Sum4(LAMBDA j : g[j])
    <3> SUFFICES ASSUME NEW g \in [Bin -> Nat] PROVE g[i] <= Sum4(LAMBDA j : g[j])
      OBVIOUS
    <3>1. g[1] \in Nat /\ g[2] \in Nat /\ g[3] \in Nat /\ g[4] \in Nat
      BY DEF Bin
    <3>2. i = 1 \/ i = 2 \/ i = 3 \/ i = 4
      BY DEF Bin
    <3> QED BY <3>1, <3>2 DEF Sum4
  <2>2. /\ requests \in [Bin -> Nat] /\ tokens \in [Bin -> Nat]
        /\ \A f \in FIELDS : part(f) \in [Bin -> Nat]
    BY <1>1, InRangeMeans
  <2>3. /\ Sum4(LAMBDA j : requests[j]) = r.fields["input"].reported
        /\ Sum4(LAMBDA j : tokens[j]) = r.fields["input"].tokens
        /\ \A f \in FIELDS : Sum4(LAMBDA j : part(f)[j]) = r.complete.tokens[f]
    <3>1. /\ Sum4(LAMBDA j : r.histogram[j].reported.requests) = r.fields["input"].reported
          /\ Sum4(LAMBDA j : r.histogram[j].reported.tokens) = r.fields["input"].tokens
          /\ \A f \in FIELDS : Sum4(LAMBDA j : r.histogram[j].complete.tokens[f]) = r.complete.tokens[f]
      BY DEF PyRow
    <3>2. /\ \A j \in {1, 2, 3, 4} : /\ requests[j] = r.histogram[j].reported.requests
                                    /\ tokens[j] = r.histogram[j].reported.tokens
          /\ \A f \in FIELDS, j \in {1, 2, 3, 4} : part(f)[j] = r.histogram[j].complete.tokens[f]
      BY DEF Bin
    <3> HIDE DEF requests, tokens, part
    <3> QED BY <3>1, <3>2 DEF Sum4
  <2>4. /\ requests[i] = r.histogram[i].reported.requests
        /\ tokens[i] = r.histogram[i].reported.tokens
        /\ \A f \in FIELDS : part(f)[i] = r.histogram[i].complete.tokens[f]
    OBVIOUS
  <2>5. r.histogram[i].complete.requests <= r.histogram[i].reported.requests
    BY DEF PyRow, BinConserved
  <2>6. /\ r.histogram[i].complete.requests \in Nat /\ r.histogram[i].reported.requests \in Nat
        /\ \A f \in FIELDS : r.histogram[i].complete.tokens[f] \in Nat
    BY <1>1, InRangeMeans
  <2> HIDE DEF requests, tokens, part
  <2>7. requests[i] <= r.fields["input"].reported /\ tokens[i] <= r.fields["input"].tokens
        /\ \A f \in FIELDS : part(f)[i] <= r.complete.tokens[f]
    BY <2>1, <2>2, <2>3
  <2>8. r.histogram[i].reported.requests <= r.requests /\ r.histogram[i].complete.requests <= r.requests
    BY <1>2, <1>7, <2>4, <2>5, <2>6, <2>7 DEF FIELDS
  <2>9. \A f \in FIELDS : r.histogram[i].complete.tokens[f] <= r.fields[f].tokens
    BY <1>2, <1>8, <2>4, <2>6, <2>7
  <2> QED BY <2>4, <2>7, <2>8, <2>9
<1> QED BY <1>3, <1>4, <1>5, <1>6, <1>7, <1>8, <1>9

LEMMA SumsInRange ==
  ASSUME NEW r, PyRow(r), NEW s, PyRow(s), AddRow(r, s).requests <= MaxInt,
         \A f \in FIELDS : AddRow(r, s).fields[f].tokens <= MaxInt
  PROVE  InRange(AddRow(r, s))
<1> DEFINE t == AddRow(r, s)
<1>1. InRange(r) /\ InRange(s)
  BY DEF PyRow
<1>2. \A m \in Nat, n \in Nat, k \in Nat, l \in Nat :
        m <= k /\ n <= l /\ k + l <= MaxInt => m + n \in Amounts
  BY MaxIntAssumption DEF Amounts
<1>3. /\ r.requests \in Nat /\ s.requests \in Nat /\ t.requests = r.requests + s.requests
      /\ r.requests + s.requests <= MaxInt /\ t.requests \in Amounts
  <2>1. /\ r.requests \in Nat /\ s.requests \in Nat /\ t.requests = r.requests + s.requests
    BY <1>1, InRangeMeans, AddRowParts
  <2>2. t.requests <= MaxInt
    OBVIOUS
  <2> HIDE DEF t
  <2> QED BY <2>1, <2>2, MaxIntAssumption DEF Amounts
<1>4. \A f \in FIELDS :
        /\ r.fields[f].tokens \in Nat /\ s.fields[f].tokens \in Nat
        /\ r.fields[f].tokens + s.fields[f].tokens <= MaxInt
        /\ t.fields[f].tokens \in Amounts
  <2>1. \A f \in FIELDS :
          /\ r.fields[f].tokens \in Nat /\ s.fields[f].tokens \in Nat
          /\ t.fields[f].tokens = r.fields[f].tokens + s.fields[f].tokens
    BY <1>1, InRangeMeans, AddRowParts
  <2>2. \A f \in FIELDS : t.fields[f].tokens <= MaxInt
    OBVIOUS
  <2> HIDE DEF t
  <2> QED BY <2>1, <2>2, MaxIntAssumption DEF Amounts
<1>5. t.violations \in Amounts /\ \A x \in REASONS : t.excluded[x] \in Amounts
  <2>1. /\ t.violations = r.violations + s.violations
        /\ \A x \in REASONS : t.excluded[x] = r.excluded[x] + s.excluded[x]
    BY AddRowParts
  <2>2. /\ r.violations \in Nat /\ s.violations \in Nat
        /\ \A x \in REASONS : r.excluded[x] \in Nat /\ s.excluded[x] \in Nat
    BY <1>1, InRangeMeans
  <2>3. /\ r.violations <= r.requests /\ s.violations <= s.requests
        /\ \A x \in REASONS : r.excluded[x] <= r.requests /\ s.excluded[x] <= s.requests
    BY ScalarsBounded
  <2> HIDE DEF t
  <2> QED BY <1>2, <1>3, <2>1, <2>2, <2>3
<1>6. \A f \in Sourced, x \in ORIGINS : t.provenance[f][x] \in Amounts
  <2>1. \A f \in Sourced, x \in ORIGINS : t.provenance[f][x] = r.provenance[f][x] + s.provenance[f][x]
    BY AddRowParts
  <2>2. \A f \in Sourced, x \in ORIGINS : r.provenance[f][x] \in Nat /\ s.provenance[f][x] \in Nat
    BY <1>1, InRangeMeans
  <2>3. \A f \in Sourced, x \in ORIGINS :
          r.provenance[f][x] <= r.requests /\ s.provenance[f][x] <= s.requests
    BY ScalarsBounded
  <2> HIDE DEF t
  <2> QED BY <1>2, <1>3, <2>1, <2>2, <2>3
<1>7. ASSUME NEW f \in FIELDS
      PROVE  /\ t.fields[f].reported \in Amounts /\ t.fields[f].missing \in Amounts
             /\ \A x \in FLAGS : t.fields[f].flags[x] \in Amounts
  <2> DEFINE u == r.fields[f]
             v == s.fields[f]
             w == t.fields[f]
  <2>1. /\ w.reported = u.reported + v.reported /\ w.missing = u.missing + v.missing
        /\ \A x \in FLAGS : w.flags[x] = u.flags[x] + v.flags[x]
    BY AddRowParts
  <2>2. /\ u.reported \in Nat /\ v.reported \in Nat /\ u.missing \in Nat /\ v.missing \in Nat
        /\ \A x \in FLAGS : u.flags[x] \in Nat /\ v.flags[x] \in Nat
    BY <1>1, InRangeMeans
  <2>3. /\ u.reported <= r.requests /\ v.reported <= s.requests
        /\ u.missing <= r.requests /\ v.missing <= s.requests
        /\ \A x \in FLAGS : u.flags[x] <= r.requests /\ v.flags[x] <= s.requests
    BY ScalarsBounded
  <2> HIDE DEF t, u, v, w
  <2>4. w.reported \in Amounts /\ w.missing \in Amounts /\ \A x \in FLAGS : w.flags[x] \in Amounts
    BY <1>2, <1>3, <2>1, <2>2, <2>3
  <2> QED BY <2>4 DEF w
<1>8. CohortFits(t.complete)
  <2>1. /\ t.complete.requests = r.complete.requests + s.complete.requests
        /\ \A f \in FIELDS : t.complete.tokens[f] = r.complete.tokens[f] + s.complete.tokens[f]
    BY AddRowParts, AddCohortParts
  <2>2. /\ r.complete.requests \in Nat /\ s.complete.requests \in Nat
        /\ \A f \in FIELDS : r.complete.tokens[f] \in Nat /\ s.complete.tokens[f] \in Nat
    BY <1>1, InRangeMeans
  <2>3. /\ r.complete.requests <= r.requests /\ s.complete.requests <= s.requests
        /\ \A f \in FIELDS : /\ r.complete.tokens[f] <= r.fields[f].tokens
                             /\ s.complete.tokens[f] <= s.fields[f].tokens
    BY ScalarsBounded
  <2> HIDE DEF t
  <2>4. t.complete.requests \in Amounts
    BY <1>2, <1>3, <2>1, <2>2, <2>3
  <2>5. \A f \in FIELDS : t.complete.tokens[f] \in Amounts
    BY <1>2, <1>4, <2>1, <2>2, <2>3
  <2> QED BY <2>4, <2>5 DEF CohortFits
<1>9. ASSUME NEW i \in Bin
      PROVE  /\ CohortFits(t.histogram[i].complete)
             /\ t.histogram[i].reported.requests \in Amounts
             /\ t.histogram[i].reported.tokens \in Amounts
  <2> DEFINE u == r.histogram[i]
             v == s.histogram[i]
             w == t.histogram[i]
  <2>1. /\ w.reported.requests = u.reported.requests + v.reported.requests
        /\ w.reported.tokens = u.reported.tokens + v.reported.tokens
        /\ w.complete.requests = u.complete.requests + v.complete.requests
        /\ \A f \in FIELDS : w.complete.tokens[f] = u.complete.tokens[f] + v.complete.tokens[f]
    BY AddRowParts, AddCohortParts
  <2>2. /\ u.reported.requests \in Nat /\ v.reported.requests \in Nat
        /\ u.reported.tokens \in Nat /\ v.reported.tokens \in Nat
        /\ u.complete.requests \in Nat /\ v.complete.requests \in Nat
        /\ \A f \in FIELDS : u.complete.tokens[f] \in Nat /\ v.complete.tokens[f] \in Nat
    BY <1>1, InRangeMeans
  <2>3. /\ u.reported.requests <= r.requests /\ v.reported.requests <= s.requests
        /\ u.reported.tokens <= r.fields["input"].tokens /\ v.reported.tokens <= s.fields["input"].tokens
        /\ u.complete.requests <= r.requests /\ v.complete.requests <= s.requests
        /\ \A f \in FIELDS : /\ u.complete.tokens[f] <= r.fields[f].tokens
                             /\ v.complete.tokens[f] <= s.fields[f].tokens
    BY ScalarsBounded
  <2> HIDE DEF t, u, v, w
  <2>4. w.reported.requests \in Amounts /\ w.complete.requests \in Amounts
    BY <1>2, <1>3, <2>1, <2>2, <2>3
  <2>5. w.reported.tokens \in Amounts
    <3>1. "input" \in FIELDS
      BY DEF FIELDS
    <3> QED BY <1>2, <1>4, <2>1, <2>2, <2>3, <3>1
  <2>6. ASSUME NEW f \in FIELDS PROVE w.complete.tokens[f] \in Amounts
    <3>1. /\ w.complete.tokens[f] = u.complete.tokens[f] + v.complete.tokens[f]
          /\ u.complete.tokens[f] \in Nat /\ v.complete.tokens[f] \in Nat
          /\ u.complete.tokens[f] <= r.fields[f].tokens /\ v.complete.tokens[f] <= s.fields[f].tokens
      BY <2>1, <2>2, <2>3
    <3> QED BY <1>2, <1>4, <3>1
  <2> QED BY <2>4, <2>5, <2>6 DEF CohortFits, w
<1> HIDE DEF t
<1>10. InRange(t)
  BY <1>3, <1>4, <1>5, <1>6, <1>7, <1>8, <1>9 DEF InRange
<1> QED BY <1>10 DEF t

-----------------------------------------------------------------------------
(* The row of one attempt. *)

Whole(a)   == IF Reason(a) = "complete" THEN Cohort(a) ELSE EmptyCohort
Here(a, i) == Value(a, "input") # None /\ i = BinOf(Value(a, "input"))

LEMMA RowOfParts ==
  ASSUME NEW a
  PROVE  LET r == RowOf(a) IN
         /\ r.requests = 1 /\ r.violations = One(~ Partitioned(a))
         /\ \A f \in FIELDS :
              /\ r.fields[f].tokens = Tokens(a, f)
              /\ r.fields[f].reported = One(Value(a, f) # None)
              /\ r.fields[f].missing = One(Value(a, f) = None)
              /\ \A x \in FLAGS : r.fields[f].flags[x] = One(x \in Observed[a].flags[f])
         /\ \A x \in REASONS : r.excluded[x] = One(Reason(a) = x)
         /\ \A f \in Sourced, x \in ORIGINS :
              r.provenance[f][x] = One(Observed[a].origin[f] = x)
         /\ r.complete = Whole(a)
         /\ \A i \in Bin :
              /\ r.histogram[i].reported.requests = One(Here(a, i))
              /\ r.histogram[i].reported.tokens = IF Here(a, i) THEN Value(a, "input") ELSE 0
              /\ r.histogram[i].complete = IF Here(a, i) THEN Whole(a) ELSE EmptyCohort
<1> DEFINE r == RowOf(a)
           FieldAt(f) == [tokens   |-> Tokens(a, f),
                          reported |-> One(Value(a, f) # None),
                          missing  |-> One(Value(a, f) = None),
                          flags    |-> PerFlag(LAMBDA x : One(x \in Observed[a].flags[f]))]
           BinAt(i) == [reported |-> [requests |-> One(Here(a, i)),
                                      tokens   |-> IF Here(a, i) THEN Value(a, "input") ELSE 0],
                        complete |-> IF Here(a, i) THEN Whole(a) ELSE EmptyCohort]
<1>1. /\ r.requests = 1 /\ r.violations = One(~ Partitioned(a))
      /\ r.complete = Whole(a)
  BY DEF RowOf, Whole
<1>2. ASSUME NEW x \in REASONS PROVE r.excluded[x] = One(Reason(a) = x)
  <2>1. r.excluded = PerReason(LAMBDA y : One(Reason(a) = y))
    BY DEF RowOf
  <2> HIDE DEF r
  <2> QED BY <2>1 DEF PerReason, REASONS
<1>3. ASSUME NEW f \in Sourced, NEW x \in ORIGINS
      PROVE  r.provenance[f][x] = One(Observed[a].origin[f] = x)
  <2>1. r.provenance = PerSourced(LAMBDA g : PerOrigin(LAMBDA y : One(Observed[a].origin[g] = y)))
    BY DEF RowOf
  <2> HIDE DEF r
  <2> QED BY <2>1 DEF PerSourced, Sourced, PerOrigin, ORIGINS
<1>4. ASSUME NEW f \in FIELDS
      PROVE  /\ r.fields[f].tokens = Tokens(a, f)
             /\ r.fields[f].reported = One(Value(a, f) # None)
             /\ r.fields[f].missing = One(Value(a, f) = None)
             /\ \A x \in FLAGS : r.fields[f].flags[x] = One(x \in Observed[a].flags[f])
  <2>1. r.fields = PerField(LAMBDA g : FieldAt(g))
    BY DEF RowOf
  <2> HIDE DEF r, FieldAt
  <2>2. r.fields[f] = FieldAt(f)
    BY <2>1 DEF PerField, FIELDS
  <2> QED BY <2>2 DEF FieldAt, PerFlag, FLAGS
<1>5. ASSUME NEW i \in Bin
      PROVE  /\ r.histogram[i].reported.requests = One(Here(a, i))
             /\ r.histogram[i].reported.tokens = IF Here(a, i) THEN Value(a, "input") ELSE 0
             /\ r.histogram[i].complete = IF Here(a, i) THEN Whole(a) ELSE EmptyCohort
  <2>1. r.histogram = PerBin(LAMBDA j : BinAt(j))
    BY DEF RowOf, Whole, Here
  <2> HIDE DEF r, BinAt
  <2>2. r.histogram[i] = BinAt(i)
    BY <2>1 DEF PerBin, Bin
  <2> QED BY <2>2 DEF BinAt
<1> QED BY <1>1, <1>2, <1>3, <1>4, <1>5

LEMMA OneSpec ==
  /\ \A P \in BOOLEAN : P => One(P) = 1
  /\ \A P \in BOOLEAN : ~ P => One(P) = 0
BY DEF One

LEMMA Limits == 0 \in Amounts /\ 1 \in Amounts /\ MaxInt \in Amounts
<1>1. Edge[1] \in Nat /\ Edge[2] \in Nat /\ Edge[3] \in Nat /\ Edge[4] \in Nat
  BY EdgeAssumption DEF Bin
<1> QED BY <1>1, MaxIntAssumption, EdgeAssumption DEF Amounts

(* The bins cover the amounts.                                             *)
LEMMA BinFound ==
  ASSUME NEW n \in Amounts
  PROVE  BinOf(n) \in Bin /\ Low(BinOf(n)) <= n /\ n <= Edge[BinOf(n)]
<1>1. Edge[1] \in Nat /\ Edge[2] \in Nat /\ Edge[3] \in Nat /\ Edge[4] \in Nat /\ n \in Nat /\ n <= Edge[4]
  BY MaxIntAssumption, EdgeAssumption DEF Bin, Amounts
<1>2. Low(1) = 0 /\ Low(2) = Edge[1] + 1 /\ Low(3) = Edge[2] + 1 /\ Low(4) = Edge[3] + 1
  BY DEF Low
<1>3. \E i \in Bin : Low(i) <= n /\ n <= Edge[i]
  <2>1. CASE n <= Edge[1]
    BY <1>1, <1>2, <2>1 DEF Bin
  <2>2. CASE Edge[1] < n /\ n <= Edge[2]
    BY <1>1, <1>2, <2>2 DEF Bin
  <2>3. CASE Edge[2] < n /\ n <= Edge[3]
    BY <1>1, <1>2, <2>3 DEF Bin
  <2>4. CASE Edge[3] < n
    BY <1>1, <1>2, <2>4 DEF Bin
  <2> QED BY <1>1, <2>1, <2>2, <2>3, <2>4
<1> QED BY <1>3 DEF BinOf

LEMMA EmptyNeutral ==
  ASSUME NEW c \in Proper
  PROVE  AddCohort(EmptyCohort, c) = c /\ AddCohort(c, EmptyCohort) = c
<1> DEFINE e == EmptyCohort
           l == AddCohort(e, c)
           g == AddCohort(c, e)
<1>1. /\ e.requests = 0 /\ e.min = None /\ e.max = None
      /\ \A f \in FIELDS : e.tokens[f] = 0
  BY DEF EmptyCohort, NoTokens, PerField, FIELDS
<1>2. l \in Cohorts /\ g \in Cohorts /\ c \in Cohorts
  BY EmptyProper, ProperAdd DEF Proper
<1>3. /\ l.requests = e.requests + c.requests /\ g.requests = c.requests + e.requests
      /\ \A f \in FIELDS : /\ l.tokens[f] = e.tokens[f] + c.tokens[f]
                           /\ g.tokens[f] = c.tokens[f] + e.tokens[f]
      /\ l.min = Least(e.min, c.min) /\ l.max = Greatest(e.max, c.max)
      /\ g.min = Least(c.min, e.min) /\ g.max = Greatest(c.max, e.max)
  BY AddCohortParts
<1>4. /\ c.requests \in Int /\ c.min \in Extrema /\ c.max \in Extrema
      /\ \A f \in FIELDS : c.tokens[f] \in Int
  BY DEF Proper, Cohorts, FIELDS
<1> HIDE DEF e, l, g
<1>5. l.min = c.min /\ g.min = c.min
  BY <1>1, <1>3, <1>4 DEF Least, Extrema
<1>6. l.max = c.max /\ g.max = c.max
  BY <1>1, <1>3, <1>4 DEF Greatest, Extrema, None
<1>7. /\ l.requests = c.requests /\ g.requests = c.requests
      /\ \A f \in FIELDS : l.tokens[f] = c.tokens[f] /\ g.tokens[f] = c.tokens[f]
  BY <1>1, <1>3, <1>4
<1>8. l = c /\ g = c
  BY <1>2, <1>5, <1>6, <1>7, SameParts
<1> QED BY <1>8 DEF l, g, e

(* A cohort in one bin, nothing in the others.                             *)
LEMMA JoinedOne ==
  ASSUME NEW c \in Proper, NEW j, NEW d,
         \A i \in Bin : d[i] = IF i = j THEN c ELSE EmptyCohort
  PROVE  Joined(d) = IF j \in Bin THEN c ELSE EmptyCohort
<1> DEFINE e == EmptyCohort
           d1 == AddCohort(e, d[1])
           d2 == AddCohort(d1, d[2])
           d3 == AddCohort(d2, d[3])
           d4 == AddCohort(d3, d[4])
<1>1. /\ AddCohort(e, e) = e /\ AddCohort(e, c) = c /\ AddCohort(c, e) = c
  BY EmptyProper, EmptyNeutral
<1> HIDE DEF e
<1>2. /\ d[1] = IF j = 1 THEN c ELSE e
      /\ d[2] = IF j = 2 THEN c ELSE e
      /\ d[3] = IF j = 3 THEN c ELSE e
      /\ d[4] = IF j = 4 THEN c ELSE e
  BY DEF Bin, e
<1>3. d1 = IF j = 1 THEN c ELSE e
  BY <1>1, <1>2
<1> HIDE DEF d1
<1>4. d2 = IF j \in {1, 2} THEN c ELSE e
  BY <1>1, <1>2, <1>3
<1> HIDE DEF d2
<1>5. d3 = IF j \in {1, 2, 3} THEN c ELSE e
  BY <1>1, <1>2, <1>4
<1> HIDE DEF d3
<1>6. d4 = IF j \in {1, 2, 3, 4} THEN c ELSE e
  BY <1>1, <1>2, <1>5
<1>7. \A k \in {1, 2, 3, 4} : k \in Bin
  BY DEF Bin
<1>8. \A k \in Bin : k \in {1, 2, 3, 4}
  BY DEF Bin
<1>9. Joined(d) = d4
  BY DEF Joined, d1, d2, d3, e
<1> HIDE DEF d4
<1> QED BY <1>6, <1>7, <1>8, <1>9 DEF e

LEMMA EmptyCohortPasses == PyCohort(EmptyCohort)
<1>1. /\ EmptyCohort.requests = 0 /\ EmptyCohort.min = None /\ EmptyCohort.max = None
      /\ EmptyCohort.tokens = NoTokens
  BY DEF EmptyCohort
<1>2. \A f \in FIELDS : NoTokens[f] = 0
  BY DEF NoTokens, PerField, FIELDS
<1>3. CohortInRange(EmptyCohort) /\ NoCohort(EmptyCohort)
  BY <1>1, <1>2, Limits DEF CohortInRange, CohortFits, NoCohort
<1>4. EmptyCohort.tokens["cache_read"] + EmptyCohort.tokens["cache_write"] <= EmptyCohort.tokens["input"]
  BY <1>1, <1>2 DEF FIELDS
<1> QED BY <1>1, <1>3, <1>4 DEF PyCohort

(* What is known of an attempt whose values are in the range, whatever     *)
(* reason it is counted under.                                             *)
LEMMA AttemptMeans ==
  ASSUME NEW a \in DOMAIN Row
  PROVE  /\ \A f \in FIELDS : Value(a, f) = None \/ Value(a, f) \in Amounts
         /\ \A f \in FIELDS : Tokens(a, f) \in Amounts
         /\ \A f \in Sourced : Observed[a].origin[f] \in ORIGINS
         /\ Reason(a) = "complete" =>
              /\ \A f \in FIELDS : Value(a, f) # None /\ Tokens(a, f) = Value(a, f)
              /\ Value(a, "cache_read") + Value(a, "cache_write") <= Value(a, "input")
         /\ ~ Partitioned(a) => Reason(a) = "invalid_usage"
         /\ Reason(a) \in REASONS \cup {"complete"}
<1>1. \A f \in FIELDS : Value(a, f) \in Int /\ Value(a, f) >= None /\ Value(a, f) <= MaxInt
  BY ObservedAssumption DEF Value, Observation, Row
<1>2. \A f \in FIELDS : Value(a, f) = None \/ Value(a, f) \in Amounts
  BY <1>1, MaxIntAssumption DEF None, Amounts
<1>3. \A f \in FIELDS : Tokens(a, f) \in Amounts
  BY <1>2, Limits DEF Tokens
<1>4. \A f \in Sourced : Observed[a].origin[f] \in ORIGINS
  BY ObservedAssumption DEF Observation, Row
<1>5. ~ Partitioned(a) => Reason(a) = "invalid_usage"
  BY DEF Reason, Invalid
<1>6. Reason(a) \in REASONS \cup {"complete"}
  BY DEF Reason, REASONS
<1>7. ASSUME Reason(a) = "complete"
      PROVE  /\ \A f \in FIELDS : Value(a, f) # None /\ Tokens(a, f) = Value(a, f)
             /\ Value(a, "cache_read") + Value(a, "cache_write") <= Value(a, "input")
  <2>1. ~ Invalid(a) /\ ~ Missing(a)
    BY <1>7 DEF Reason
  <2>2. \A f \in FIELDS : Value(a, f) # None /\ Tokens(a, f) = Value(a, f)
    BY <2>1 DEF Missing, Tokens
  <2>3. {Value(a, "input"), Value(a, "cache_read"), Value(a, "cache_write")} \subseteq Nat
    BY <1>2, <2>2, MaxIntAssumption DEF FIELDS, Amounts
  <2> QED BY <2>1, <2>2, <2>3 DEF Invalid, Partitioned
<1> QED BY <1>2, <1>3, <1>4, <1>5, <1>6, <1>7

(* The cohort of one attempt, and the bin it is in.                        *)
LEMMA WholePasses ==
  ASSUME NEW a \in DOMAIN Row
  PROVE  /\ PyCohort(Whole(a)) /\ Whole(a) \in Proper
         /\ Whole(a).requests = One(Reason(a) = "complete")
         /\ Reason(a) = "complete" =>
              /\ Whole(a).min = Value(a, "input") /\ Whole(a).max = Value(a, "input")
              /\ \A f \in FIELDS : Whole(a).tokens[f] = Value(a, f)
         /\ Reason(a) # "complete" => Whole(a) = EmptyCohort
<1>1. CASE Reason(a) # "complete"
  BY <1>1, EmptyCohortPasses, EmptyProper DEF Whole, One, EmptyCohort
<1>2. CASE Reason(a) = "complete"
  <2> DEFINE c == Cohort(a)
             v == Value(a, "input")
  <2>1. /\ \A f \in FIELDS : Value(a, f) # None /\ Tokens(a, f) = Value(a, f)
        /\ Value(a, "cache_read") + Value(a, "cache_write") <= Value(a, "input")
        /\ \A f \in FIELDS : Value(a, f) \in Amounts
    BY <1>2, AttemptMeans
  <2>2. /\ c.requests = 1 /\ c.min = v /\ c.max = v
        /\ \A f \in FIELDS : c.tokens[f] = Value(a, f)
    <3>1. c.requests = 1 /\ c.min = v /\ c.max = v /\ c.tokens = PerField(LAMBDA f : Tokens(a, f))
      BY DEF Cohort
    <3> HIDE DEF c
    <3> QED BY <2>1, <3>1 DEF PerField, FIELDS
  <2>3. c \in Cohorts
    <3>1. \A f \in FIELDS : Tokens(a, f) \in Int
      BY <2>1, MaxIntAssumption DEF Amounts
    <3>2. Value(a, "input") \in Int
      BY <2>1, MaxIntAssumption DEF Amounts, FIELDS
    <3> QED BY <3>1, <3>2 DEF Cohort, PerField, Cohorts, FIELDS
  <2> HIDE DEF c
  <2>4. v \in Amounts /\ v \in Nat /\ c.tokens["input"] = v /\ v # None
    BY <2>1, <2>2, MaxIntAssumption DEF FIELDS, Amounts
  <2>5. CohortInRange(c)
    BY <2>1, <2>2, <2>4, Limits DEF CohortInRange, CohortFits
  <2>6. c.tokens["cache_read"] + c.tokens["cache_write"] <= c.tokens["input"]
    BY <2>1, <2>2 DEF FIELDS
  <2> HIDE DEF v
  <2>7. PyCohort(c)
    BY <2>2, <2>4, <2>5, <2>6 DEF PyCohort
  <2>8. c \in Proper
    BY <2>2, <2>3, <2>4 DEF Proper, Extrema
  <2>9. Whole(a) = c
    BY <1>2 DEF Whole, c
  <2> QED BY <1>2, <2>2, <2>7, <2>8, <2>9 DEF One, v
<1> QED BY <1>1, <1>2

(* What a caller may hand over is staged: its row passes both validators.  *)
LEMMA WellFormedStaged ==
  ASSUME NEW a \in Attempt, WellFormed(a)
  PROVE  a \in Staged
<1> DEFINE r == RowOf(a)
           c == Whole(a)
           v == Value(a, "input")
<1>1. a \in DOMAIN Row /\ Row[a] = RowOf(a)
  BY DEF WellFormed, Row
<1>2. Shaped(r)
  BY <1>1, RowShaped
<1>3. /\ r.requests = 1 /\ r.violations = One(~ Partitioned(a)) /\ r.complete = c
      /\ \A x \in REASONS : r.excluded[x] = One(Reason(a) = x)
      /\ \A f \in Sourced, x \in ORIGINS : r.provenance[f][x] = One(Observed[a].origin[f] = x)
  BY RowOfParts
<1>4. \A f \in FIELDS :
        /\ r.fields[f].tokens = Tokens(a, f)
        /\ r.fields[f].reported = One(Value(a, f) # None)
        /\ r.fields[f].missing = One(Value(a, f) = None)
        /\ \A x \in FLAGS : r.fields[f].flags[x] = One(x \in Observed[a].flags[f])
  BY RowOfParts
<1>5. \A i \in Bin :
        /\ r.histogram[i].reported.requests = One(Here(a, i))
        /\ r.histogram[i].reported.tokens = IF Here(a, i) THEN v ELSE 0
        /\ r.histogram[i].complete = IF Here(a, i) THEN c ELSE EmptyCohort
  BY RowOfParts
<1> HIDE DEF r
<1>6. /\ PyCohort(c) /\ c \in Proper
      /\ c.requests = One(Reason(a) = "complete")
      /\ Reason(a) = "complete" =>
           c.min = v /\ c.max = v /\ \A f \in FIELDS : c.tokens[f] = Value(a, f)
      /\ Reason(a) # "complete" => c = EmptyCohort
  BY <1>1, WholePasses
<1>7. /\ \A f \in FIELDS : Value(a, f) = None \/ Value(a, f) \in Amounts
      /\ \A f \in FIELDS : Tokens(a, f) \in Amounts
      /\ \A f \in Sourced : Observed[a].origin[f] \in ORIGINS
      /\ Reason(a) = "complete" => \A f \in FIELDS : Value(a, f) # None /\ Tokens(a, f) = Value(a, f)
      /\ ~ Partitioned(a) => Reason(a) = "invalid_usage"
      /\ Reason(a) \in REASONS \cup {"complete"}
  BY <1>1, AttemptMeans
<1>8. v # None => v \in Amounts /\ v \in Nat /\ BinOf(v) \in Bin /\ Low(BinOf(v)) <= v /\ v <= Edge[BinOf(v)]
  BY <1>7, BinFound, MaxIntAssumption DEF FIELDS, Amounts
<1>9. Reason(a) = "complete" => v # None
  BY <1>7 DEF FIELDS
<1>10. EmptyCohort.requests = 0 /\ \A f \in FIELDS : EmptyCohort.tokens[f] = 0
  BY DEF EmptyCohort, NoTokens, PerField, FIELDS
<1> HIDE DEF c, v
<1>11. \A P : One(P) \in Amounts /\ One(P) \in Nat /\ One(P) <= 1
  BY Limits DEF One
<1>12. InRange(r)
  <2>1. CohortFits(c) /\ CohortFits(EmptyCohort)
    BY <1>6, EmptyCohortPasses DEF PyCohort, CohortInRange
  <2>2. \A i \in Bin : /\ CohortFits(r.histogram[i].complete)
                       /\ r.histogram[i].reported.requests \in Amounts
                       /\ r.histogram[i].reported.tokens \in Amounts
    <3> SUFFICES ASSUME NEW i \in Bin
                 PROVE  /\ CohortFits(r.histogram[i].complete)
                        /\ r.histogram[i].reported.requests \in Amounts
                        /\ r.histogram[i].reported.tokens \in Amounts
      OBVIOUS
    <3>1. Here(a, i) => v # None
      BY DEF Here, v
    <3> QED BY <1>5, <1>8, <1>11, <2>1, <3>1, Limits
  <2>3. r.requests \in Amounts /\ r.violations \in Amounts
    BY <1>3, <1>11, Limits
  <2>4. /\ \A x \in REASONS : r.excluded[x] \in Amounts
        /\ \A f \in Sourced, x \in ORIGINS : r.provenance[f][x] \in Amounts
    BY <1>3, <1>11
  <2>5. \A f \in FIELDS : /\ r.fields[f].tokens \in Amounts /\ r.fields[f].reported \in Amounts
                          /\ r.fields[f].missing \in Amounts
                          /\ \A x \in FLAGS : r.fields[f].flags[x] \in Amounts
    BY <1>4, <1>7, <1>11
  <2> QED BY <1>3, <2>1, <2>2, <2>3, <2>4, <2>5 DEF InRange
<1>13. FieldsConserved(r)
  <2>1. r.requests = 1 /\ r.requests > 0 /\ r.violations <= r.requests
    BY <1>3, <1>11
  <2>2. ASSUME NEW f \in FIELDS
        PROVE  /\ r.fields[f].reported + r.fields[f].missing = r.requests
               /\ \A x \in FLAGS : r.fields[f].flags[x] <= r.requests
               /\ r.fields[f].reported = 0 => r.fields[f].tokens = 0
               /\ f \in Sourced => r.fields[f].flags["subset_violation"] = 0
    <3>1. r.fields[f].reported + r.fields[f].missing = 1
      BY <1>4 DEF One
    <3>2. \A x \in FLAGS : r.fields[f].flags[x] <= 1
      BY <1>4, <1>11
    <3>3. r.fields[f].reported = 0 => r.fields[f].tokens = 0
      BY <1>4 DEF One, Tokens
    <3>4. f \in Sourced => r.fields[f].flags["subset_violation"] = 0
      BY <1>4 DEF One, WellFormed, FLAGS
    <3> QED BY <2>1, <3>1, <3>2, <3>3, <3>4
  <2> QED BY <2>1, <2>2 DEF FieldsConserved
<1>14. CompleteConserved(r)
  <2>1. r.violations <= r.excluded["invalid_usage"]
    BY <1>3, <1>7 DEF One, REASONS
  <2>2. ASSUME NEW f \in FIELDS
        PROVE  /\ c.requests <= r.fields[f].reported
               /\ c.tokens[f] <= r.fields[f].tokens
               /\ c.requests = r.fields[f].reported => c.tokens[f] = r.fields[f].tokens
    <3>1. Tokens(a, f) \in Nat
      BY <1>7, MaxIntAssumption DEF Amounts
    <3>2. CASE Reason(a) = "complete"
      <4>1. c.requests = 1 /\ r.fields[f].reported = 1
        BY <1>4, <1>6, <1>7, <3>2 DEF One
      <4>2. c.tokens[f] = Tokens(a, f) /\ r.fields[f].tokens = Tokens(a, f)
        BY <1>4, <1>6, <1>7, <3>2
      <4> QED BY <3>1, <4>1, <4>2
    <3>3. CASE Reason(a) # "complete"
      <4>1. c.requests = 0 /\ c.tokens[f] = 0
        BY <1>6, <1>10, <3>3
      <4>2. r.fields[f].reported \in Nat /\ (r.fields[f].reported = 0 => r.fields[f].tokens = 0)
        BY <1>4, <1>11 DEF One, Tokens
      <4>3. r.fields[f].tokens \in Nat
        BY <1>4, <3>1
      <4> QED BY <4>1, <4>2, <4>3
    <3> QED BY <3>2, <3>3
  <2> QED BY <1>3, <2>1, <2>2 DEF CompleteConserved
<1>15. OriginsConserved(r)
  <2> SUFFICES ASSUME NEW f \in Sourced
               PROVE  LET p == r.provenance[f] IN
                      /\ p["provider_reported"] + p["inferred"] + p["unavailable"] + p["unknown"] = 1
                      /\ p["unavailable"] <= r.fields[f].missing
                      /\ p["provider_reported"] + p["inferred"] <= r.fields[f].reported
    BY <1>3 DEF OriginsConserved
  <2> DEFINE p == r.provenance[f]
             o == Observed[a].origin[f]
  <2>1. /\ p["provider_reported"] = One(o = "provider_reported") /\ p["inferred"] = One(o = "inferred")
        /\ p["unavailable"] = One(o = "unavailable") /\ p["unknown"] = One(o = "unknown")
    BY <1>3 DEF ORIGINS
  <2>2. o \in ORIGINS /\ f \in FIELDS
    BY <1>7 DEF Sourced, FIELDS
  <2>3. /\ r.fields[f].reported = One(Value(a, f) # None)
        /\ r.fields[f].missing = One(Value(a, f) = None)
    BY <1>4, <2>2
  <2>4. /\ o \in {"provider_reported", "inferred"} => Value(a, f) # None
        /\ o = "unavailable" => Value(a, f) = None
    BY DEF WellFormed
  <2> HIDE DEF p, o
  <2>5. /\ p["provider_reported"] + p["inferred"] + p["unavailable"] + p["unknown"] = 1
        /\ p["unavailable"] <= r.fields[f].missing
        /\ p["provider_reported"] + p["inferred"] <= r.fields[f].reported
    BY <2>1, <2>2, <2>3, <2>4 DEF One, ORIGINS
  <2> QED BY <2>5 DEF p
<1>16. r.complete.requests + Excluded(r) = r.requests
  <2>1. /\ r.excluded["invalid_usage"] = One(Reason(a) = "invalid_usage")
        /\ r.excluded["missing_split"] = One(Reason(a) = "missing_split")
        /\ r.excluded["zero_origin_unknown"] = One(Reason(a) = "zero_origin_unknown")
    BY <1>3 DEF REASONS
  <2> QED BY <1>3, <1>6, <1>7, <2>1 DEF Excluded, One, REASONS
<1>17. \A i \in Bin : PyCohort(r.histogram[i].complete) /\ BinConserved(r.histogram[i], i)
  <2> SUFFICES ASSUME NEW i \in Bin PROVE PyCohort(r.histogram[i].complete) /\ BinConserved(r.histogram[i], i)
    OBVIOUS
  <2> DEFINE b == r.histogram[i]
  <2>1. Low(i) \in Int /\ Edge[i] \in Int
    BY EdgeAssumption DEF Low, Bin
  <2>2. CASE Here(a, i)
    <3>1. v # None /\ i = BinOf(v)
      BY <2>2 DEF Here, v
    <3>2. b.reported.requests = 1 /\ b.reported.tokens = v /\ b.complete = c
      BY <1>5, <2>2 DEF One
    <3>3. v \in Nat /\ Low(i) <= v /\ v <= Edge[i]
      BY <1>8, <3>1
    <3> HIDE DEF b
    <3>4. CASE Reason(a) = "complete"
      <4>1. c.requests = 1 /\ c.min = v /\ c.max = v /\ c.tokens["input"] = v
        BY <1>6, <3>4 DEF One, FIELDS, v
      <4>2. BinConserved(b, i)
        BY <2>1, <3>2, <3>3, <4>1 DEF BinConserved
      <4> QED BY <1>6, <3>2, <4>2 DEF b
    <3>5. CASE Reason(a) # "complete"
      <4>1. c.requests = 0 /\ c.tokens["input"] = 0
        BY <1>6, <1>10, <3>5 DEF FIELDS
      <4>2. BinConserved(b, i)
        BY <2>1, <3>2, <3>3, <4>1 DEF BinConserved
      <4> QED BY <1>6, <3>2, <4>2 DEF b
    <3> QED BY <3>4, <3>5
  <2>3. CASE ~ Here(a, i)
    <3>1. b.reported.requests = 0 /\ b.reported.tokens = 0 /\ b.complete = EmptyCohort
      BY <1>5, <2>3 DEF One
    <3>2. EmptyCohort.requests = 0 /\ EmptyCohort.tokens["input"] = 0
      BY <1>10 DEF FIELDS
    <3> HIDE DEF b
    <3>3. BinConserved(b, i)
      BY <2>1, <3>1, <3>2 DEF BinConserved
    <3> QED BY <3>1, <3>3, EmptyCohortPasses DEF b
  <2> QED BY <2>2, <2>3
<1>18. /\ Sum4(LAMBDA i : r.histogram[i].reported.requests) = r.fields["input"].reported
       /\ Sum4(LAMBDA i : r.histogram[i].reported.tokens) = r.fields["input"].tokens
  <2>1. r.fields["input"].reported = One(v # None) /\ r.fields["input"].tokens = Tokens(a, "input")
    BY <1>4 DEF FIELDS, v
  <2>2. Tokens(a, "input") = IF v = None THEN 0 ELSE v
    BY DEF Tokens, v
  <2>3. \A i \in Bin : Here(a, i) <=> v # None /\ i = BinOf(v)
    BY DEF Here, v
  <2> DEFINE j == BinOf(v)
  <2>4. \A i \in Bin : /\ r.histogram[i].reported.requests = IF v # None /\ i = j THEN 1 ELSE 0
                       /\ r.histogram[i].reported.tokens = IF v # None /\ i = j THEN v ELSE 0
    BY <1>5, <2>3 DEF One
  <2>5. v # None => v \in Nat /\ j \in Bin
    BY <1>8
  <2> HIDE DEF j
  <2> QED BY <2>1, <2>2, <2>4, <2>5 DEF Sum4, Bin, One
<1>19. AddCohort(AddCohort(AddCohort(AddCohort(EmptyCohort, r.histogram[1].complete),
         r.histogram[2].complete), r.histogram[3].complete), r.histogram[4].complete) = r.complete
  <2> DEFINE d == [i \in Bin |-> r.histogram[i].complete]
  <2>1. CASE v = None
    <3>1. \A i \in Bin : d[i] = EmptyCohort
      BY <1>5, <2>1 DEF Here, v
    <3>2. c = EmptyCohort
      BY <1>6, <1>9, <2>1
    <3> HIDE DEF d
    <3>3. Joined(d) = EmptyCohort
      BY <3>1, EmptyProper DEF Joined, Bin
    <3> QED BY <1>3, <3>2, <3>3 DEF Joined, d, Bin
  <2>2. CASE v # None
    <3> DEFINE j == BinOf(v)
    <3>1. \A i \in Bin : d[i] = IF i = j THEN c ELSE EmptyCohort
      BY <1>5, <2>2 DEF Here, v
    <3>2. j \in Bin
      BY <1>8, <2>2
    <3> HIDE DEF d, j
    <3>3. Joined(d) = c
      BY <1>6, <3>1, <3>2, JoinedOne
    <3> QED BY <1>3, <3>3 DEF Joined, d, Bin
  <2> QED BY <2>1, <2>2
<1>20. GoRow(r)
  <2>1. /\ r.complete.requests + Excluded(r) \in Amounts
        /\ r.fields["input"].reported \in Amounts /\ r.fields["input"].tokens \in Amounts
        /\ CohortFits(r.complete)
    BY <1>12, <1>16 DEF InRange, FIELDS
  <2>2. GoCohort(r.complete) /\ \A i \in Bin : GoCohort(r.histogram[i].complete)
    BY <1>3, <1>6, <1>17, CohortVerdicts
  <2> QED BY <1>12, <1>13, <1>14, <1>15, <1>16, <1>17, <1>18, <1>19, <2>1, <2>2 DEF GoRow
<1>21. PyRow(r) /\ GoRow(r)
  BY <1>2, <1>20, RowVerdicts
<1> QED BY <1>1, <1>21 DEF Staged, r

(* One addend of a sum grows by d, or d is a new one.                      *)
LEMMA SumGrows ==
  ASSUME NEW S, IsFiniteSet(S), NEW m, NEW d \in Int,
         NEW f \in [S -> Int], NEW g \in [S \cup {m} -> Int],
         \A x \in S \ {m} : g[x] = f[x],
         m \in S => g[m] = f[m] + d,
         m \notin S => g[m] = d
  PROVE  SumFunction(g) = SumFunction(f) + d
<1>1. SumFunction(f) = SumFunctionOnSet(f, S) /\ SumFunction(g) = SumFunctionOnSet(g, S \cup {m})
  BY DEF SumFunction
<1>2. SumFunctionOnSet(f, S) \in Int
  BY SumType
<1>3. CASE m \in S
  <2>1. S \cup {m} = S
    BY <1>3
  <2>2. g \in [S -> Int] /\ f[m] \in Int /\ g[m] = f[m] + d
    BY <1>3, <2>1
  <2>3. SumFunctionOnSet(g, S) = SumFunctionOnSet(f, S) - f[m] + g[m]
    BY <1>3, <2>2, SumChange
  <2> QED BY <1>1, <1>2, <2>1, <2>2, <2>3
<1>4. CASE m \notin S
  <2>1. SumFunctionOnSet(g, S \cup {m}) = g[m] + SumFunctionOnSet(g, S)
    BY <1>4, SumAdd
  <2>2. SumFunctionOnSet(g, S) = SumFunctionOnSet(f, S)
    BY <1>4, SumEqual
  <2> QED BY <1>1, <1>2, <1>4, <2>1, <2>2
<1> QED BY <1>3, <1>4

LEMMA TotalsAfter ==
  ASSUME NEW rows, AllValid(rows), IsFiniteSet(DOMAIN rows), NEW m, NEW a \in Staged
  PROVE  LET new == With(rows, m, a) IN
         /\ TotalRequests(new) = TotalRequests(rows) + 1
         /\ \A f \in FIELDS : TotalTokens(new, f) = TotalTokens(rows, f) + Tokens(a, f)
         /\ TotalRequests(rows) \in Nat
         /\ \A n \in DOMAIN rows : rows[n].requests <= TotalRequests(rows)
         /\ \A f \in FIELDS : /\ TotalTokens(rows, f) \in Nat
                              /\ \A n \in DOMAIN rows : rows[n].fields[f].tokens <= TotalTokens(rows, f)
<1> DEFINE new == With(rows, m, a)
           D == DOMAIN rows
           s == Row[a]
<1>1. /\ DOMAIN new = D \cup {m}
      /\ \A n \in D \ {m} : new[n] = rows[n]
      /\ m \in D => new[m] = AddRow(rows[m], s)
      /\ m \notin D => new[m] = s
  BY DEF With, Merged
<1>2. /\ s = RowOf(a) /\ s.requests = 1
      /\ \A f \in FIELDS : s.fields[f].tokens = Tokens(a, f) /\ s.fields[f].tokens \in Nat
  <2>1. s = RowOf(a) /\ InRange(s)
    BY DEF Staged, Row, PyRow
  <2>2. \A f \in FIELDS : s.fields[f].tokens \in Nat
    BY <2>1, InRangeMeans
  <2> HIDE DEF s
  <2> QED BY <2>1, <2>2, RowOfParts
<1>3. \A n \in D : rows[n].requests \in Nat /\ \A f \in FIELDS : rows[n].fields[f].tokens \in Nat
  BY InRangeMeans DEF AllValid, PyRow
<1>4. m \in D => /\ new[m].requests = rows[m].requests + 1
                 /\ \A f \in FIELDS : new[m].fields[f].tokens = rows[m].fields[f].tokens + Tokens(a, f)
  <2> SUFFICES ASSUME m \in D
               PROVE  /\ new[m].requests = rows[m].requests + 1
                      /\ \A f \in FIELDS :
                           new[m].fields[f].tokens = rows[m].fields[f].tokens + Tokens(a, f)
    OBVIOUS
  <2> DEFINE t == AddRow(rows[m], s)
  <2>1. new[m] = t
    BY <1>1
  <2>2. /\ t.requests = rows[m].requests + s.requests
        /\ \A f \in FIELDS : t.fields[f].tokens = rows[m].fields[f].tokens + s.fields[f].tokens
    BY AddRowParts
  <2> HIDE DEF new, t, s
  <2> QED BY <1>2, <2>1, <2>2
<1>5. m \notin D => /\ new[m].requests = 1
                    /\ \A f \in FIELDS : new[m].fields[f].tokens = Tokens(a, f)
  <2> HIDE DEF new, s
  <2> QED BY <1>1, <1>2
<1> HIDE DEF new, s
<1>6. /\ TotalRequests(new) = TotalRequests(rows) + 1 /\ TotalRequests(rows) \in Nat
      /\ \A n \in D : rows[n].requests <= TotalRequests(rows)
  <2> DEFINE p == [n \in D |-> rows[n].requests]
             q == [n \in D \cup {m} |-> new[n].requests]
  <2>1. TotalRequests(rows) = SumFunction(p) /\ TotalRequests(new) = SumFunction(q)
    BY <1>1 DEF TotalRequests, Total
  <2>2. /\ p \in [D -> Int] /\ q \in [D \cup {m} -> Int]
        /\ \A x \in D \ {m} : q[x] = p[x]
        /\ m \in D => q[m] = p[m] + 1
        /\ m \notin D => q[m] = 1
    BY <1>1, <1>3, <1>4, <1>5
  <2>9. \A n \in D : p[n] = rows[n].requests /\ p[n] \in Nat
    BY <1>3
  <2> HIDE DEF p, q
  <2>3. SumFunction(q) = SumFunction(p) + 1
    <3>1. IsFiniteSet(D) /\ 1 \in Int
      OBVIOUS
    <3> HIDE DEF D
    <3> QED BY <2>2, <3>1, SumGrows
  <2>4. SumFunction(p) = SumFunctionOnSet(p, D)
    BY <2>2 DEF SumFunction
  <2>5. SumFunctionOnSet(p, D) \in Nat /\ \A n \in D : p[n] <= SumFunctionOnSet(p, D)
    BY <2>9, SumNat
  <2> QED BY <2>1, <2>9, <2>3, <2>4, <2>5
<1>7. ASSUME NEW f \in FIELDS
      PROVE  /\ TotalTokens(new, f) = TotalTokens(rows, f) + Tokens(a, f)
             /\ TotalTokens(rows, f) \in Nat
             /\ \A n \in D : rows[n].fields[f].tokens <= TotalTokens(rows, f)
  <2> DEFINE p == [n \in D |-> rows[n].fields[f].tokens]
             q == [n \in D \cup {m} |-> new[n].fields[f].tokens]
             d == Tokens(a, f)
  <2>1. TotalTokens(rows, f) = SumFunction(p) /\ TotalTokens(new, f) = SumFunction(q)
    BY <1>1 DEF TotalTokens, Total
  <2>6. d \in Nat
    BY <1>2
  <2>7. \A x \in D \ {m} : new[x] = rows[x]
    BY <1>1
  <2>8. /\ \A n \in D : rows[n].fields[f].tokens \in Nat
        /\ m \in D => new[m].fields[f].tokens = rows[m].fields[f].tokens + d
        /\ m \notin D => new[m].fields[f].tokens = d
    BY <1>3, <1>4, <1>5
  <2> HIDE DEF d
  <2>2. /\ p \in [D -> Int] /\ q \in [D \cup {m} -> Int]
        /\ \A x \in D \ {m} : q[x] = p[x]
        /\ m \in D => q[m] = p[m] + d
        /\ m \notin D => q[m] = d
    BY <2>6, <2>7, <2>8
  <2>9. \A n \in D : p[n] = rows[n].fields[f].tokens /\ p[n] \in Nat
    BY <2>8
  <2> HIDE DEF p, q
  <2>3. SumFunction(q) = SumFunction(p) + d
    <3>1. IsFiniteSet(D) /\ d \in Int
      BY <2>6
    <3> HIDE DEF D
    <3> QED BY <2>2, <3>1, SumGrows
  <2>4. SumFunction(p) = SumFunctionOnSet(p, D)
    BY <2>2 DEF SumFunction
  <2>5. SumFunctionOnSet(p, D) \in Nat /\ \A n \in D : p[n] <= SumFunctionOnSet(p, D)
    BY <2>9, SumNat
  <2> QED BY <2>1, <2>9, <2>3, <2>4, <2>5 DEF d
<1> QED BY <1>6, <1>7 DEF new

(* The property of the run: an attempt that keeps the caller's contract is *)
(* collected unless its model has no room or a total of the block would    *)
(* leave 64 bits.  Every sum inside a row is at most its requests or its   *)
(* tokens, and these are at most the totals.                               *)
THEOREM RefusedOnlyWhenFullCorrect == Spec => []RefusedOnlyWhenFull
<1>1. ASSUME ValidInv, NEW o \in Owner, NEW m \in Model, NEW a \in Attempt, WellFormed(a),
             NamesFit(DOMAIN block[o] \cup {m}), TotalRequests(block[o]) < MaxInt,
             \A f \in FIELDS : TotalTokens(block[o], f) + Tokens(a, f) <= MaxInt
      PROVE  a \in Staged /\ Fits(With(block[o], m, a))
  <2> DEFINE rows == block[o]
             new == With(rows, m, a)
             s == Row[a]
  <2>1. a \in Staged
    BY <1>1, WellFormedStaged
  <2>2. AllValid(rows) /\ IsFiniteSet(DOMAIN rows) /\ PyRow(s) /\ s = RowOf(a)
    BY <1>1, <2>1, OwnerValid DEF Staged, Row
  <2>3. /\ TotalRequests(new) = TotalRequests(rows) + 1
        /\ \A f \in FIELDS : TotalTokens(new, f) = TotalTokens(rows, f) + Tokens(a, f)
        /\ TotalRequests(rows) \in Nat
        /\ \A n \in DOMAIN rows : rows[n].requests <= TotalRequests(rows)
        /\ \A f \in FIELDS : /\ TotalTokens(rows, f) \in Nat
                             /\ \A n \in DOMAIN rows : rows[n].fields[f].tokens <= TotalTokens(rows, f)
    BY <2>1, <2>2, TotalsAfter
  <2>4. /\ DOMAIN new = DOMAIN rows \cup {m}
        /\ \A n \in DOMAIN rows \ {m} : new[n] = rows[n]
        /\ m \in DOMAIN rows => new[m] = AddRow(rows[m], s)
        /\ m \notin DOMAIN rows => new[m] = s
    BY DEF With, Merged
  <2> HIDE DEF new, rows
  <2>5. NamesFit(DOMAIN new)
    BY <1>1, <2>4 DEF rows
  <2>6. TotalsFit(new)
    BY <1>1, <2>3, MaxIntAssumption DEF TotalsFit, rows
  <2>7. ASSUME NEW n \in DOMAIN new PROVE InRange(new[n])
    <3>1. CASE n \in DOMAIN rows \ {m}
      BY <2>2, <2>4, <3>1 DEF AllValid, PyRow
    <3>2. CASE n = m /\ m \notin DOMAIN rows
      BY <2>2, <2>4, <3>2 DEF PyRow
    <3>3. CASE n = m /\ m \in DOMAIN rows
      <4> DEFINE r == rows[m]
                 t == AddRow(r, s)
      <4>1. PyRow(r)
        BY <2>2, <3>3 DEF AllValid
      <4>2. /\ t.requests = r.requests + s.requests
            /\ \A f \in FIELDS : t.fields[f].tokens = r.fields[f].tokens + s.fields[f].tokens
        BY AddRowParts
      <4>3. s.requests = 1 /\ \A f \in FIELDS : s.fields[f].tokens = Tokens(a, f)
        BY <2>2, RowOfParts
      <4>4. /\ r.requests \in Nat
            /\ \A f \in FIELDS : r.fields[f].tokens \in Nat /\ s.fields[f].tokens \in Nat
        BY <2>2, <4>1, InRangeMeans DEF PyRow
      <4>5. /\ r.requests <= TotalRequests(rows)
            /\ \A f \in FIELDS : r.fields[f].tokens <= TotalTokens(rows, f)
        BY <2>3, <3>3
      <4>6. /\ TotalRequests(rows) < MaxInt /\ TotalRequests(rows) \in Nat
            /\ \A f \in FIELDS : TotalTokens(rows, f) + Tokens(a, f) <= MaxInt /\ TotalTokens(rows, f) \in Nat
        BY <1>1, <2>3 DEF rows
      <4> HIDE DEF t, r, s
      <4>7. t.requests <= MaxInt
        BY <4>2, <4>3, <4>4, <4>5, <4>6, MaxIntAssumption
      <4>8. \A f \in FIELDS : t.fields[f].tokens <= MaxInt
        BY <4>2, <4>3, <4>4, <4>5, <4>6, MaxIntAssumption
      <4>9. InRange(AddRow(r, s))
        BY <2>2, <4>1, <4>7, <4>8, SumsInRange DEF t, s
      <4> QED BY <2>4, <3>3, <4>9 DEF r
    <3> QED BY <2>4, <3>1, <3>2, <3>3
  <2> QED BY <2>1, <2>5, <2>6, <2>7 DEF Fits, new, rows
<1>2. ValidInv => RefusedOnlyWhenFull
  BY <1>1 DEF RefusedOnlyWhenFull
<1> QED BY <1>2, ValidInvariant, PTL

-----------------------------------------------------------------------------
(* A row tells what the attempts behind it tell.  k[a] is how often the    *)
(* attempt a is behind a row.                                              *)

Counts     == [Attempt -> Nat]
Plus(k, l) == [a \in Attempt |-> k[a] + l[a]]
Once(a)    == [b \in Attempt |-> IF b = a THEN 1 ELSE 0]
Weighted(k, f)  == [a \in Attempt |-> k[a] * Tokens(a, f)]
TimesIn(k, A)   == SumFunctionOnSet(k, A)
TokensIn(k, A, f) == SumFunctionOnSet(Weighted(k, f), A)
Inputs(k, A)    == {Value(a, "input") : a \in {b \in A : k[b] > 0}}

CohortOf(c, k, A) ==
  /\ c.requests = TimesIn(k, A)
  /\ \A f \in FIELDS : c.tokens[f] = TokensIn(k, A, f)
  /\ Inputs(k, A) = {} => c.min = None /\ c.max = None
  /\ Inputs(k, A) # {} => c.min \in Inputs(k, A) /\ c.max \in Inputs(k, A)
  /\ \A v \in Inputs(k, A) : c.min <= v /\ v <= c.max

Exact(r, k) ==
  /\ r.requests = TimesIn(k, Attempt)
  /\ \A f \in FIELDS : r.fields[f].tokens = TokensIn(k, Attempt, f)
  /\ r.excluded["invalid_usage"] = TimesIn(k, Flagged)
  /\ CohortOf(r.complete, k, Clean)
  /\ \A i \in Bin :
       /\ CohortOf(r.histogram[i].complete, k, Clean \cap Tier[i])
       /\ r.histogram[i].reported.requests = TimesIn(k, Tier[i])
       /\ r.histogram[i].reported.tokens = TokensIn(k, Tier[i], "input")

LEMMA PartsOfAttempts ==
  /\ IsFiniteSet(Attempt) /\ Flagged \subseteq Attempt /\ Clean \subseteq Attempt
  /\ \A i \in Bin : Tier[i] \subseteq Attempt /\ Clean \cap Tier[i] \subseteq Clean
  /\ \A a \in Clean : Value(a, "input") \in Nat
  /\ \A a \in Attempt, f \in FIELDS : Tokens(a, f) \in Nat /\ Value(a, f) \in Nat \cup {None}
<1>1. ASSUME NEW a \in Attempt, NEW f \in FIELDS
      PROVE  Tokens(a, f) \in Nat /\ Value(a, f) \in Nat \cup {None}
  <2>1. Value(a, f) \in Int /\ Value(a, f) >= None
    BY ObservedAssumption DEF Value, Observation
  <2>2. Value(a, f) \in Nat \cup {None}
    BY <2>1 DEF None
  <2> QED BY <2>2 DEF Tokens
<1>2. \A a \in Clean : Value(a, "input") \in Nat
  BY <1>1 DEF Clean, FIELDS
<1>3. Flagged \subseteq Attempt /\ Clean \subseteq Attempt
  BY DEF Flagged, Clean
<1>4. \A i \in Bin : Tier[i] \subseteq Attempt /\ Clean \cap Tier[i] \subseteq Clean
  BY DEF Tier
<1> QED BY <1>1, <1>2, <1>3, <1>4, AttemptAssumption

LEMMA PlusSums ==
  ASSUME NEW k \in Counts, NEW l \in Counts, NEW A \in SUBSET Attempt
  PROVE  /\ Plus(k, l) \in Counts
         /\ TimesIn(Plus(k, l), A) = TimesIn(k, A) + TimesIn(l, A)
         /\ \A f \in FIELDS : TokensIn(Plus(k, l), A, f) = TokensIn(k, A, f) + TokensIn(l, A, f)
         /\ Inputs(Plus(k, l), A) = Inputs(k, A) \cup Inputs(l, A)
<1> DEFINE n == Plus(k, l)
<1>1. \A a \in Attempt : k[a] \in Nat /\ l[a] \in Nat /\ n[a] = k[a] + l[a]
  BY DEF Counts, Plus
<1>2. n \in Counts
  BY DEF Counts, Plus
<1>3. IsFiniteSet(A)
  BY AttemptAssumption, FS_Subset
<1> HIDE DEF n
<1>4. TimesIn(n, A) = TimesIn(k, A) + TimesIn(l, A)
  <2>1. \A x \in A : k[x] \in Int /\ l[x] \in Int /\ n[x] = k[x] + l[x]
    BY <1>1
  <2> QED BY <1>3, <2>1, SumPlus DEF TimesIn
<1>5. ASSUME NEW f \in FIELDS
      PROVE  TokensIn(n, A, f) = TokensIn(k, A, f) + TokensIn(l, A, f)
  <2> DEFINE u == Weighted(k, f)
             v == Weighted(l, f)
             w == Weighted(n, f)
  <2>1. ASSUME NEW x \in A PROVE u[x] \in Int /\ v[x] \in Int /\ w[x] = u[x] + v[x]
    <3> DEFINE t == Tokens(x, f)
    <3>1. u[x] = k[x] * t /\ v[x] = l[x] * t /\ w[x] = n[x] * t
      BY DEF Weighted
    <3>2. k[x] \in Int /\ l[x] \in Int /\ n[x] = k[x] + l[x] /\ t \in Int
      BY <1>1, PartsOfAttempts
    <3> HIDE DEF u, v, w, t
    <3>3. (k[x] + l[x]) * t = k[x] * t + l[x] * t /\ k[x] * t \in Int /\ l[x] * t \in Int
      BY <3>2, Distributes
    <3> QED BY <3>1, <3>2, <3>3
  <2> HIDE DEF u, v, w
  <2>2. SumFunctionOnSet(w, A) = SumFunctionOnSet(u, A) + SumFunctionOnSet(v, A)
    BY <1>3, <2>1, SumPlus
  <2> QED BY <2>2 DEF TokensIn, u, v, w
<1>6. Inputs(n, A) = Inputs(k, A) \cup Inputs(l, A)
  <2>1. \A b \in A : n[b] > 0 <=> k[b] > 0 \/ l[b] > 0
    BY <1>1
  <2> QED BY <2>1 DEF Inputs
<1> QED BY <1>2, <1>4, <1>5, <1>6 DEF n

LEMMA CohortsStayExact ==
  ASSUME NEW k \in Counts, NEW l \in Counts, NEW A \in SUBSET Clean,
         NEW c, NEW d, CohortOf(c, k, A), CohortOf(d, l, A)
  PROVE  CohortOf(AddCohort(c, d), Plus(k, l), A)
<1> DEFINE e == AddCohort(c, d)
           n == Plus(k, l)
           I == Inputs(k, A)
           J == Inputs(l, A)
<1>1. /\ TimesIn(n, A) = TimesIn(k, A) + TimesIn(l, A)
      /\ \A f \in FIELDS : TokensIn(n, A, f) = TokensIn(k, A, f) + TokensIn(l, A, f)
      /\ Inputs(n, A) = I \cup J
  <2>1. A \in SUBSET Attempt
    BY PartsOfAttempts
  <2> QED BY <2>1, PlusSums
<1>2. /\ e.requests = c.requests + d.requests
      /\ \A f \in FIELDS : e.tokens[f] = c.tokens[f] + d.tokens[f]
      /\ e.min = Least(c.min, d.min) /\ e.max = Greatest(c.max, d.max)
  BY AddCohortParts
<1>3. \A v \in I \cup J : v \in Nat
  BY PartsOfAttempts DEF Inputs
<1>4. /\ I = {} => c.min = None /\ c.max = None
      /\ I # {} => c.min \in I /\ c.max \in I
      /\ \A v \in I : c.min <= v /\ v <= c.max
      /\ J = {} => d.min = None /\ d.max = None
      /\ J # {} => d.min \in J /\ d.max \in J
      /\ \A v \in J : d.min <= v /\ v <= d.max
      /\ c.requests = TimesIn(k, A) /\ d.requests = TimesIn(l, A)
      /\ \A f \in FIELDS : c.tokens[f] = TokensIn(k, A, f) /\ d.tokens[f] = TokensIn(l, A, f)
  BY DEF CohortOf
<1> HIDE DEF e, n, I, J
<1>5. e.requests = TimesIn(n, A) /\ \A f \in FIELDS : e.tokens[f] = TokensIn(n, A, f)
  BY <1>1, <1>2, <1>4
<1>6. CASE I = {}
  <2>1. CASE J = {}
    <3>1. e.min = None /\ e.max = None /\ I \cup J = {}
      BY <1>2, <1>4, <1>6, <2>1 DEF Least, Greatest, None
    <3> QED BY <1>1, <1>5, <3>1 DEF CohortOf, e, n
  <2>2. CASE J # {}
    <3>1. d.min \in Nat /\ d.max \in Nat /\ c.min = None /\ c.max = None /\ I \cup J = J
      BY <1>3, <1>4, <1>6, <2>2
    <3>2. e.min = d.min /\ e.max = d.max
      BY <1>2, <3>1 DEF Least, Greatest, None
    <3> QED BY <1>1, <1>4, <1>5, <2>2, <3>1, <3>2 DEF CohortOf, e, n
  <2> QED BY <2>1, <2>2
<1>7. CASE I # {} /\ J = {}
  <2>1. c.min \in Nat /\ c.max \in Nat /\ d.min = None /\ d.max = None /\ I \cup J = I
    BY <1>3, <1>4, <1>7
  <2>2. e.min = c.min /\ e.max = c.max
    BY <1>2, <2>1 DEF Least, Greatest, None
  <2> QED BY <1>1, <1>4, <1>5, <1>7, <2>1, <2>2 DEF CohortOf, e, n
<1>8. CASE I # {} /\ J # {}
  <2>1. /\ c.min \in I /\ c.max \in I /\ d.min \in J /\ d.max \in J
        /\ c.min \in Nat /\ c.max \in Nat /\ d.min \in Nat /\ d.max \in Nat
    BY <1>3, <1>4, <1>8
  <2>2. /\ e.min \in {c.min, d.min} /\ e.max \in {c.max, d.max}
        /\ e.min <= c.min /\ e.min <= d.min /\ c.max <= e.max /\ d.max <= e.max
        /\ e.min \in Nat /\ e.max \in Nat
    BY <1>2, <2>1 DEF Least, Greatest, None
  <2>3. e.min \in I \cup J /\ e.max \in I \cup J /\ I \cup J # {}
    BY <2>1, <2>2
  <2>4. \A v \in I \cup J : e.min <= v /\ v <= e.max
    BY <1>3, <1>4, <2>1, <2>2
  <2> QED BY <1>1, <1>5, <2>3, <2>4 DEF CohortOf, e, n
<1> QED BY <1>6, <1>7, <1>8

LEMMA RowsStayExact ==
  ASSUME NEW k \in Counts, NEW l \in Counts, NEW r, NEW s, Exact(r, k), Exact(s, l)
  PROVE  Exact(AddRow(r, s), Plus(k, l))
<1> DEFINE t == AddRow(r, s)
           n == Plus(k, l)
<1>1. \A A \in SUBSET Attempt :
        /\ TimesIn(n, A) = TimesIn(k, A) + TimesIn(l, A)
        /\ \A f \in FIELDS : TokensIn(n, A, f) = TokensIn(k, A, f) + TokensIn(l, A, f)
  BY PlusSums
<1>2. Attempt \in SUBSET Attempt /\ Flagged \in SUBSET Attempt
  BY PartsOfAttempts
<1>3. t.requests = TimesIn(n, Attempt)
  <2>1. t.requests = r.requests + s.requests
    BY AddRowParts
  <2>2. r.requests = TimesIn(k, Attempt) /\ s.requests = TimesIn(l, Attempt)
    BY DEF Exact
  <2> HIDE DEF t, n
  <2> QED BY <1>1, <1>2, <2>1, <2>2
<1>4. \A f \in FIELDS : t.fields[f].tokens = TokensIn(n, Attempt, f)
  <2>1. \A f \in FIELDS : t.fields[f].tokens = r.fields[f].tokens + s.fields[f].tokens
    BY AddRowParts
  <2>2. \A f \in FIELDS : /\ r.fields[f].tokens = TokensIn(k, Attempt, f)
                          /\ s.fields[f].tokens = TokensIn(l, Attempt, f)
    BY DEF Exact
  <2> HIDE DEF t, n
  <2> QED BY <1>1, <1>2, <2>1, <2>2
<1>5. t.excluded["invalid_usage"] = TimesIn(n, Flagged)
  <2>1. t.excluded["invalid_usage"] = r.excluded["invalid_usage"] + s.excluded["invalid_usage"]
    BY AddRowParts DEF REASONS
  <2>2. r.excluded["invalid_usage"] = TimesIn(k, Flagged) /\ s.excluded["invalid_usage"] = TimesIn(l, Flagged)
    BY DEF Exact
  <2> HIDE DEF t, n
  <2> QED BY <1>1, <1>2, <2>1, <2>2
<1>6. CohortOf(t.complete, n, Clean)
  <2>1. CohortOf(r.complete, k, Clean) /\ CohortOf(s.complete, l, Clean)
    BY DEF Exact
  <2>2. t.complete = AddCohort(r.complete, s.complete)
    BY AddRowParts
  <2>3. CohortOf(AddCohort(r.complete, s.complete), n, Clean)
    BY <2>1, CohortsStayExact
  <2> HIDE DEF t, n
  <2> QED BY <2>2, <2>3
<1>7. ASSUME NEW i \in Bin
      PROVE  /\ CohortOf(t.histogram[i].complete, n, Clean \cap Tier[i])
             /\ t.histogram[i].reported.requests = TimesIn(n, Tier[i])
             /\ t.histogram[i].reported.tokens = TokensIn(n, Tier[i], "input")
  <2> DEFINE u == r.histogram[i]
             v == s.histogram[i]
             w == t.histogram[i]
  <2>1. /\ w.complete = AddCohort(u.complete, v.complete)
        /\ w.reported.requests = u.reported.requests + v.reported.requests
        /\ w.reported.tokens = u.reported.tokens + v.reported.tokens
    BY AddRowParts
  <2>2. /\ CohortOf(u.complete, k, Clean \cap Tier[i]) /\ CohortOf(v.complete, l, Clean \cap Tier[i])
        /\ u.reported.requests = TimesIn(k, Tier[i]) /\ v.reported.requests = TimesIn(l, Tier[i])
        /\ u.reported.tokens = TokensIn(k, Tier[i], "input")
        /\ v.reported.tokens = TokensIn(l, Tier[i], "input")
    BY DEF Exact
  <2>3. CohortOf(AddCohort(u.complete, v.complete), n, Clean \cap Tier[i])
    <3>1. Clean \cap Tier[i] \in SUBSET Clean
      OBVIOUS
    <3> QED BY <2>2, <3>1, CohortsStayExact
  <2>4. Tier[i] \in SUBSET Attempt
    BY PartsOfAttempts
  <2> HIDE DEF t, n, u, v, w
  <2>5. w.reported.requests = TimesIn(n, Tier[i]) /\ w.reported.tokens = TokensIn(n, Tier[i], "input")
    BY <1>1, <2>1, <2>2, <2>4 DEF FIELDS
  <2> QED BY <2>1, <2>3, <2>5 DEF w
<1> HIDE DEF t, n
<1>8. Exact(t, n)
  BY <1>3, <1>4, <1>5, <1>6, <1>7 DEF Exact
<1> QED BY <1>8 DEF t, n

(* One attempt behind a row.                                               *)
LEMMA OnceSums ==
  ASSUME NEW a \in Attempt, NEW A \in SUBSET Attempt
  PROVE  /\ Once(a) \in Counts
         /\ TimesIn(Once(a), A) = One(a \in A)
         /\ \A f \in FIELDS : TokensIn(Once(a), A, f) = IF a \in A THEN Tokens(a, f) ELSE 0
         /\ Inputs(Once(a), A) = IF a \in A THEN {Value(a, "input")} ELSE {}
<1> DEFINE P == A \cap {a}
           k == Once(a)
<1>1. IsFiniteSet(A) /\ P \in SUBSET A /\ k \in Counts
  BY AttemptAssumption, FS_Subset DEF Once, Counts
<1>2. Cardinality(P) = IF a \in A THEN 1 ELSE 0
  <2>1. CASE a \in A
    <3>1. P = {a}
      BY <2>1
    <3> QED BY <2>1, <3>1, FS_Singleton
  <2>2. CASE a \notin A
    <3>1. P = {}
      BY <2>2
    <3> QED BY <2>2, <3>1, FS_EmptySet
  <2> QED BY <2>1, <2>2
<1>3. \A x \in A : k[x] = IF x \in P THEN 1 ELSE 0
  BY DEF Once
<1>4. ASSUME NEW f \in FIELDS, NEW x \in A
      PROVE  Weighted(k, f)[x] = IF x \in P THEN Tokens(a, f) ELSE 0
  <2>1. Weighted(k, f)[x] = k[x] * Tokens(x, f) /\ Tokens(x, f) \in Int
    BY PartsOfAttempts DEF Weighted
  <2> DEFINE t == Tokens(x, f)
  <2>2. CASE x = a
    <3>1. k[x] = 1 /\ x \in P
      BY <1>3, <2>2
    <3> HIDE DEF t, k
    <3>2. 1 * t = t
      BY <2>1 DEF t
    <3> QED BY <2>1, <2>2, <3>1, <3>2 DEF t
  <2>3. CASE x # a
    <3>1. k[x] = 0 /\ x \notin P
      BY <1>3, <2>3
    <3> HIDE DEF t, k
    <3>2. 0 * t = 0
      BY <2>1 DEF t
    <3> QED BY <2>1, <3>1, <3>2 DEF t
  <2> QED BY <2>2, <2>3
<1>5. Inputs(k, A) = IF a \in A THEN {Value(a, "input")} ELSE {}
  <2>1. {b \in A : k[b] > 0} = P
    BY <1>3
  <2>2. Inputs(k, A) = {Value(b, "input") : b \in P}
    BY <2>1 DEF Inputs
  <2> QED BY <2>2
<1> HIDE DEF P, k
<1>6. TimesIn(k, A) = One(a \in A)
  <2>1. SumFunctionOnSet(k, A) = 1 * Cardinality(P)
    BY <1>1, <1>3, SumOfPart
  <2> QED BY <1>2, <2>1 DEF TimesIn, One
<1>7. ASSUME NEW f \in FIELDS PROVE TokensIn(k, A, f) = IF a \in A THEN Tokens(a, f) ELSE 0
  <2> DEFINE w == Weighted(k, f)
             d == Tokens(a, f)
  <2>1. \A x \in A : w[x] = IF x \in P THEN d ELSE 0
    BY <1>4
  <2>2. d \in Int
    BY PartsOfAttempts
  <2> HIDE DEF w, d
  <2>3. SumFunctionOnSet(w, A) = d * Cardinality(P)
    BY <1>1, <2>1, <2>2, SumOfPart
  <2>4. d * 1 = d /\ d * 0 = 0
    BY <2>2
  <2> QED BY <1>2, <2>3, <2>4 DEF TokensIn, w, d
<1> QED BY <1>1, <1>5, <1>6, <1>7 DEF k

(* The reason counted for an attempt is what the property calls it.        *)
LEMMA ReasonMeans ==
  ASSUME NEW a \in DOMAIN Row
  PROVE  /\ Reason(a) = "invalid_usage" <=> a \in Flagged
         /\ Reason(a) = "complete" <=> a \in Clean
<1>1. a \in Attempt /\ \A f \in FIELDS : Value(a, f) \in Nat \cup {None}
  BY PartsOfAttempts DEF Row
<1>2. Invalid(a) <=> a \in Flagged
  <2> DEFINE i == Value(a, "input")
             r == Value(a, "cache_read")
             w == Value(a, "cache_write")
  <2>1. i \in Nat \cup {None} /\ r \in Nat \cup {None} /\ w \in Nat \cup {None}
    BY <1>1 DEF FIELDS
  <2>2. (\A f \in FIELDS \ {"output"} : Value(a, f) # None) <=> i # None /\ r # None /\ w # None
    BY DEF FIELDS
  <2>3. Partitioned(a) <=> ({i, r, w} \subseteq Nat => r + w <= i)
    BY DEF Partitioned
  <2>4. a \in Flagged <=> \/ \E f \in FIELDS : Observed[a].flags[f] # {}
                          \/ i # None /\ r # None /\ w # None /\ r + w > i
    BY <1>1, <2>2 DEF Flagged
  <2>5. Invalid(a) <=> ~ Partitioned(a) \/ \E f \in FIELDS : Observed[a].flags[f] # {}
    BY DEF Invalid
  <2> HIDE DEF i, r, w
  <2>6. ~ Partitioned(a) <=> i # None /\ r # None /\ w # None /\ r + w > i
    BY <2>1, <2>3 DEF None
  <2> QED BY <2>4, <2>5, <2>6
<1>3. ASSUME ~ Missing(a)
      PROVE  ~ ZeroOfUnknownOrigin(a) <=> \/ Value(a, "input") + Value(a, "output") > 0
                                          \/ \A f \in Sourced : Observed[a].origin[f] # "unknown"
  <2>1. Value(a, "input") \in Nat /\ Value(a, "output") \in Nat
    BY <1>1, <1>3 DEF Missing, FIELDS
  <2> QED BY <2>1 DEF ZeroOfUnknownOrigin
<1>4. Reason(a) = "complete" <=> ~ Invalid(a) /\ ~ Missing(a) /\ ~ ZeroOfUnknownOrigin(a)
  BY DEF Reason
<1>5. Reason(a) = "invalid_usage" <=> Invalid(a)
  BY DEF Reason
<1>6. a \in Clean <=> /\ a \notin Flagged /\ ~ Missing(a)
                      /\ \/ Value(a, "input") + Value(a, "output") > 0
                         \/ \A f \in Sourced : Observed[a].origin[f] # "unknown"
  BY <1>1 DEF Clean, Missing
<1> QED BY <1>2, <1>3, <1>4, <1>5, <1>6

(* An amount is in one bin only.                                           *)
LEMMA TierMeans ==
  ASSUME NEW a \in DOMAIN Row, NEW i \in Bin
  PROVE  Here(a, i) <=> a \in Tier[i]
<1> DEFINE v == Value(a, "input")
           j == BinOf(v)
<1>1. a \in Attempt /\ (v = None \/ v \in Amounts) /\ (a \in Tier[i] <=> v \in Low(i) .. Edge[i])
  <2>1. a \in Attempt
    BY DEF Row
  <2> QED BY <2>1, AttemptMeans DEF Tier, FIELDS
<1>2. Edge[1] \in Nat /\ Edge[2] \in Nat /\ Edge[3] \in Nat /\ Edge[4] \in Nat
      /\ Edge[1] < Edge[2] /\ Edge[2] < Edge[3] /\ Edge[3] < Edge[4]
  BY EdgeAssumption DEF Bin
<1>3. Low(1) = 0 /\ Low(2) = Edge[1] + 1 /\ Low(3) = Edge[2] + 1 /\ Low(4) = Edge[3] + 1
  BY DEF Low
<1>4. Low(i) \in Nat /\ Edge[i] \in Nat
  BY <1>2, <1>3 DEF Bin
<1>5. Here(a, i) <=> v # None /\ i = j
  BY DEF Here
<1>6. CASE v = None
  <2>1. v \notin Low(i) .. Edge[i]
    BY <1>4, <1>6 DEF None
  <2> QED BY <1>1, <1>5, <1>6, <2>1
<1>7. CASE v # None
  <2>1. v \in Nat /\ j \in Bin /\ Low(j) <= v /\ v <= Edge[j]
    BY <1>1, <1>7, BinFound, MaxIntAssumption DEF Amounts
  <2> HIDE DEF v, j
  <2>2. i = j => v \in Low(i) .. Edge[i]
    BY <1>4, <2>1
  <2>3. v \in Low(i) .. Edge[i] => i = j
    <3> SUFFICES ASSUME Low(i) <= v, v <= Edge[i] PROVE i = j
      BY <1>4, <2>1
    <3>1. i \in {1, 2, 3, 4} /\ j \in {1, 2, 3, 4}
      BY <2>1 DEF Bin
    <3> QED BY <1>2, <1>3, <2>1, <3>1
  <2> QED BY <1>1, <1>5, <1>7, <2>2, <2>3
<1> QED BY <1>6, <1>7

LEMMA RowOfExact ==
  ASSUME NEW a \in DOMAIN Row
  PROVE  Exact(Row[a], Once(a))
<1> DEFINE r == RowOf(a)
           k == Once(a)
           c == Whole(a)
           v == Value(a, "input")
<1>1. a \in Attempt /\ Row[a] = r
  BY DEF Row
<1>2. \A A \in SUBSET Attempt :
        /\ TimesIn(k, A) = One(a \in A)
        /\ \A f \in FIELDS : TokensIn(k, A, f) = IF a \in A THEN Tokens(a, f) ELSE 0
        /\ Inputs(k, A) = IF a \in A THEN {v} ELSE {}
  BY <1>1, OnceSums
<1>3. /\ r.requests = 1 /\ r.complete = c
      /\ r.excluded["invalid_usage"] = One(Reason(a) = "invalid_usage")
      /\ \A f \in FIELDS : r.fields[f].tokens = Tokens(a, f)
      /\ \A i \in Bin :
           /\ r.histogram[i].reported.requests = One(Here(a, i))
           /\ r.histogram[i].reported.tokens = IF Here(a, i) THEN v ELSE 0
           /\ r.histogram[i].complete = IF Here(a, i) THEN c ELSE EmptyCohort
  BY RowOfParts DEF REASONS
<1>4. /\ c.requests = One(Reason(a) = "complete")
      /\ Reason(a) = "complete" =>
           /\ c.min = v /\ c.max = v
           /\ \A f \in FIELDS : c.tokens[f] = Value(a, f) /\ Tokens(a, f) = Value(a, f)
           /\ v \in Nat
      /\ Reason(a) # "complete" => c = EmptyCohort
  <2>1. Reason(a) = "complete" => v \in Nat
    BY ReasonMeans, PartsOfAttempts
  <2> QED BY <2>1, WholePasses, AttemptMeans
<1>5. /\ EmptyCohort.requests = 0 /\ EmptyCohort.min = None /\ EmptyCohort.max = None
      /\ \A f \in FIELDS : EmptyCohort.tokens[f] = 0
  BY DEF EmptyCohort, NoTokens, PerField, FIELDS
<1>6. /\ Attempt \in SUBSET Attempt /\ Flagged \in SUBSET Attempt /\ Clean \in SUBSET Attempt
      /\ \A i \in Bin : Tier[i] \in SUBSET Attempt /\ Clean \cap Tier[i] \in SUBSET Attempt
  BY PartsOfAttempts
<1>7. /\ Reason(a) = "invalid_usage" <=> a \in Flagged
      /\ Reason(a) = "complete" <=> a \in Clean
      /\ \A i \in Bin : Here(a, i) <=> a \in Tier[i]
  BY ReasonMeans, TierMeans
<1>8. \A i \in Bin : Here(a, i) => Tokens(a, "input") = v
  BY DEF Here, Tokens
<1> HIDE DEF r, k, c, v
<1>9. ASSUME NEW A \in SUBSET Attempt, a \in A, a \in Clean PROVE CohortOf(c, k, A)
  <2>1. /\ c.requests = 1 /\ c.min = v /\ c.max = v /\ v \in Nat
        /\ \A f \in FIELDS : c.tokens[f] = Tokens(a, f)
    BY <1>4, <1>7, <1>9 DEF One
  <2>2. /\ TimesIn(k, A) = 1 /\ Inputs(k, A) = {v}
        /\ \A f \in FIELDS : TokensIn(k, A, f) = Tokens(a, f)
    BY <1>2, <1>9 DEF One
  <2> QED BY <2>1, <2>2 DEF CohortOf
<1>10. ASSUME NEW A \in SUBSET Attempt, a \notin A PROVE CohortOf(EmptyCohort, k, A)
  <2>1. /\ TimesIn(k, A) = 0 /\ Inputs(k, A) = {}
        /\ \A f \in FIELDS : TokensIn(k, A, f) = 0
    BY <1>2, <1>10 DEF One
  <2> QED BY <1>5, <2>1 DEF CohortOf
<1>11. a \notin Clean => c = EmptyCohort
  BY <1>4, <1>7
<1>12. CohortOf(r.complete, k, Clean)
  BY <1>3, <1>6, <1>9, <1>10, <1>11
<1>13. ASSUME NEW i \in Bin
       PROVE  /\ CohortOf(r.histogram[i].complete, k, Clean \cap Tier[i])
              /\ r.histogram[i].reported.requests = TimesIn(k, Tier[i])
              /\ r.histogram[i].reported.tokens = TokensIn(k, Tier[i], "input")
  <2>1. r.histogram[i].complete = IF a \in Tier[i] THEN c ELSE EmptyCohort
    BY <1>3, <1>7
  <2>2. CohortOf(r.histogram[i].complete, k, Clean \cap Tier[i])
    <3>1. CASE a \in Clean \cap Tier[i]
      BY <1>6, <1>9, <2>1, <3>1
    <3>2. CASE a \notin Clean \cap Tier[i]
      BY <1>6, <1>10, <1>11, <2>1, <3>2
    <3> QED BY <3>1, <3>2
  <2>3. r.histogram[i].reported.requests = TimesIn(k, Tier[i])
    BY <1>2, <1>3, <1>6, <1>7 DEF One
  <2>4. r.histogram[i].reported.tokens = TokensIn(k, Tier[i], "input")
    BY <1>2, <1>3, <1>6, <1>7, <1>8 DEF FIELDS
  <2> QED BY <2>2, <2>3, <2>4
<1>14. r.requests = TimesIn(k, Attempt)
  BY <1>1, <1>2, <1>3, <1>6 DEF One
<1>15. \A f \in FIELDS : r.fields[f].tokens = TokensIn(k, Attempt, f)
  BY <1>1, <1>2, <1>3, <1>6
<1>16. r.excluded["invalid_usage"] = TimesIn(k, Flagged)
  BY <1>2, <1>3, <1>6, <1>7 DEF One
<1>17. Exact(r, k)
  BY <1>12, <1>13, <1>14, <1>15, <1>16 DEF Exact
<1> QED BY <1>1, <1>17 DEF k

-----------------------------------------------------------------------------
(* Blocks tell what the attempts behind them tell. *)

(* K[m][a] is how often the attempt a is behind the row of m.              *)
Tells(rows, K) ==
  /\ DOMAIN rows \subseteq Model
  /\ \A m \in Model :
       /\ m \in DOMAIN rows <=> \E a \in Attempt : K[m][a] > 0
       /\ m \in DOMAIN rows => Exact(rows[m], K[m])

Behind(o) == [m \in Model |-> [a \in Attempt |-> behind[o][<<m, a>>]]]
Joint(K, L) == [m \in Model |-> Plus(K[m], L[m])]
Never       == [a \in Attempt |-> 0]

ExactInv ==
  /\ DOMAIN block = Owner
  /\ behind \in [Owner -> [Model \X Attempt -> Nat]]
  /\ \A o \in Owner : Tells(block[o], Behind(o))

LEMMA BehindType ==
  ASSUME ExactInv, NEW o \in Owner
  PROVE  Behind(o) \in [Model -> Counts]
<1>1. behind[o] \in [Model \X Attempt -> Nat]
  BY DEF ExactInv
<1>2. \A m \in Model, a \in Attempt : behind[o][<<m, a>>] \in Nat
  BY <1>1
<1> QED BY <1>2 DEF Behind, Counts

LEMMA MergedExact ==
  ASSUME NEW rows, NEW more, NEW K \in [Model -> Counts], NEW L \in [Model -> Counts],
         Tells(rows, K), Tells(more, L)
  PROVE  Tells(Merged(rows, more), Joint(K, L))
<1> DEFINE new == Merged(rows, more)
           N == Joint(K, L)
<1>1. /\ DOMAIN new = DOMAIN rows \cup DOMAIN more
      /\ \A m \in DOMAIN rows \ DOMAIN more : new[m] = rows[m]
      /\ \A m \in DOMAIN more \ DOMAIN rows : new[m] = more[m]
      /\ \A m \in DOMAIN rows \cap DOMAIN more : new[m] = AddRow(rows[m], more[m])
  BY DEF Merged
<1> HIDE DEF new
<1>2. ASSUME NEW m \in Model
      PROVE  /\ m \in DOMAIN new <=> \E a \in Attempt : N[m][a] > 0
             /\ m \in DOMAIN new => Exact(new[m], N[m])
  <2> DEFINE k == K[m]
             l == L[m]
             n == N[m]
  <2>1. k \in Counts /\ l \in Counts /\ n = Plus(k, l)
    BY DEF Joint
  <2>2. \A a \in Attempt : k[a] \in Nat /\ l[a] \in Nat /\ n[a] = k[a] + l[a]
    BY <2>1 DEF Counts, Plus
  <2>3. /\ m \in DOMAIN rows <=> \E a \in Attempt : k[a] > 0
        /\ m \in DOMAIN rows => Exact(rows[m], k)
        /\ m \in DOMAIN more <=> \E a \in Attempt : l[a] > 0
        /\ m \in DOMAIN more => Exact(more[m], l)
    BY DEF Tells
  <2> HIDE DEF k, l, n, N
  <2>4. m \in DOMAIN new <=> \E a \in Attempt : n[a] > 0
    <3>1. \A a \in Attempt : n[a] > 0 <=> k[a] > 0 \/ l[a] > 0
      BY <2>2
    <3> QED BY <1>1, <2>3, <3>1
  <2>5. CASE m \in DOMAIN rows \ DOMAIN more
    <3>1. \A a \in Attempt : l[a] = 0
      BY <2>2, <2>3, <2>5
    <3>2. Plus(k, l) = k
      BY <2>1, <2>2, <3>1 DEF Plus, Counts
    <3> QED BY <1>1, <2>1, <2>3, <2>4, <2>5, <3>2 DEF n
  <2>6. CASE m \in DOMAIN more \ DOMAIN rows
    <3>1. \A a \in Attempt : k[a] = 0
      BY <2>2, <2>3, <2>6
    <3>2. Plus(k, l) = l
      BY <2>1, <2>2, <3>1 DEF Plus, Counts
    <3> QED BY <1>1, <2>1, <2>3, <2>4, <2>6, <3>2 DEF n
  <2>7. CASE m \in DOMAIN rows \cap DOMAIN more
    <3>1. Exact(AddRow(rows[m], more[m]), Plus(k, l))
      BY <2>1, <2>3, <2>7, RowsStayExact
    <3> QED BY <1>1, <2>1, <2>4, <2>7, <3>1 DEF n
  <2>8. CASE m \notin DOMAIN new
    BY <2>4, <2>8 DEF n
  <2> QED BY <1>1, <2>5, <2>6, <2>7, <2>8
<1>3. DOMAIN new \subseteq Model
  BY <1>1 DEF Tells
<1> HIDE DEF N
<1>4. Tells(new, N)
  BY <1>2, <1>3 DEF Tells
<1> QED BY <1>4 DEF new, N

LEMMA OneRowExact ==
  ASSUME NEW m \in Model, NEW a \in DOMAIN Row
  PROVE  LET L == [n \in Model |-> IF n = m THEN Once(a) ELSE Never]
         IN  L \in [Model -> Counts] /\ Tells([n \in {m} |-> Row[a]], L)
<1> DEFINE L == [n \in Model |-> IF n = m THEN Once(a) ELSE Never]
           more == [n \in {m} |-> Row[a]]
<1>1. a \in Attempt /\ Once(a) \in Counts /\ Never \in Counts
  BY DEF Row, Once, Never, Counts
<1>2. L \in [Model -> Counts]
  BY <1>1
<1>3. Once(a)[a] = 1 /\ \A b \in Attempt : Never[b] = 0
  BY <1>1 DEF Once, Never
<1>4. Exact(Row[a], Once(a))
  BY RowOfExact
<1>5. DOMAIN more = {m} /\ more[m] = Row[a]
  OBVIOUS
<1>6. L[m] = Once(a) /\ \A n \in Model \ {m} : L[n] = Never
  OBVIOUS
<1> HIDE DEF L, more
<1>7. Tells(more, L)
  BY <1>1, <1>3, <1>4, <1>5, <1>6 DEF Tells
<1> QED BY <1>2, <1>7 DEF L, more

LEMMA InitExact == Init => ExactInv
<1> SUFFICES ASSUME Init PROVE ExactInv
  OBVIOUS
<1>1. /\ DOMAIN block = Owner /\ \A o \in Owner : block[o] = NoRows
      /\ behind = [o \in Owner |-> [x \in Model \X Attempt |-> 0]]
  BY DEF Init
<1>2. behind \in [Owner -> [Model \X Attempt -> Nat]]
  BY <1>1
<1>3. ASSUME NEW o \in Owner PROVE Tells(block[o], Behind(o))
  <2>1. \A m \in Model, a \in Attempt : Behind(o)[m][a] = 0
    BY <1>1 DEF Behind
  <2>2. DOMAIN block[o] = {}
    BY <1>1 DEF NoRows
  <2> QED BY <2>1, <2>2 DEF Tells
<1> QED BY <1>1, <1>2, <1>3 DEF ExactInv

LEMMA NextExact ==
  ASSUME ExactInv, [Next]_vars
  PROVE  ExactInv'
<1>1. ASSUME NEW o \in Owner, NEW more, NEW L \in [Model -> Counts], Tells(more, L),
             block' = [block EXCEPT ![o] = Merged(block[o], more)],
             behind' \in [Owner -> [Model \X Attempt -> Nat]],
             \A m \in Model, a \in Attempt : behind'[o][<<m, a>>] = behind[o][<<m, a>>] + L[m][a],
             \A p \in Owner \ {o} : behind'[p] = behind[p]
      PROVE  ExactInv'
  <2>1. DOMAIN block = Owner /\ DOMAIN block' = Owner
        /\ block'[o] = Merged(block[o], more)
        /\ \A p \in Owner \ {o} : block'[p] = block[p]
    BY <1>1 DEF ExactInv
  <2>2. Behind(o) \in [Model -> Counts] /\ Tells(block[o], Behind(o))
    BY BehindType DEF ExactInv
  <2>3. Behind(o)' = Joint(Behind(o), L)
    <3>1. \A m \in Model, a \in Attempt : Plus(Behind(o)[m], L[m])[a] = behind'[o][<<m, a>>]
      BY <1>1 DEF Plus, Behind
    <3> QED BY <3>1 DEF Joint, Behind, Plus
  <2>4. Tells(block'[o], Behind(o)')
    BY <1>1, <2>1, <2>2, <2>3, MergedExact
  <2>5. ASSUME NEW p \in Owner \ {o} PROVE Tells(block'[p], Behind(p)')
    <3>1. Behind(p)' = Behind(p) /\ block'[p] = block[p]
      BY <1>1, <2>1 DEF Behind
    <3> QED BY <3>1 DEF ExactInv
  <2>6. \A p \in Owner : Tells(block'[p], Behind(p)')
    BY <2>4, <2>5
  <2> QED BY <1>1, <2>1, <2>6 DEF ExactInv
<1>2. ASSUME NEW o \in Owner, NEW m \in Model, NEW a \in Attempt, Collect(o, m, a) PROVE ExactInv'
  <2> DEFINE more == [n \in {m} |-> Row[a]]
             L == [n \in Model |-> IF n = m THEN Once(a) ELSE Never]
  <2>1. /\ a \in DOMAIN Row
        /\ block' = [block EXCEPT ![o] = Merged(block[o], more)]
    BY <1>2 DEF Collect, Staged, With
  <2>7. behind' = [behind EXCEPT ![o][<<m, a>>] = @ + 1]
    BY <1>2 DEF Collect
  <2>2. L \in [Model -> Counts] /\ Tells(more, L)
    BY <2>1, OneRowExact
  <2>3. behind \in [Owner -> [Model \X Attempt -> Nat]]
    BY DEF ExactInv
  <2>4. behind' \in [Owner -> [Model \X Attempt -> Nat]]
    <3> DEFINE g == [behind[o] EXCEPT ![<<m, a>>] = behind[o][<<m, a>>] + 1]
    <3>1. behind[o] \in [Model \X Attempt -> Nat]
      BY <2>3
    <3>2. behind[o][<<m, a>>] + 1 \in Nat
      BY <3>1
    <3>3. g \in [Model \X Attempt -> Nat]
      BY <3>1, <3>2
    <3>4. behind' = [behind EXCEPT ![o] = g]
      BY <2>7
    <3> HIDE DEF g
    <3> QED BY <2>3, <3>3, <3>4
  <2>5. /\ \A p \in Owner \ {o} : behind'[p] = behind[p]
        /\ behind'[o][<<m, a>>] = behind[o][<<m, a>>] + 1
        /\ \A x \in (Model \X Attempt) \ {<<m, a>>} : behind'[o][x] = behind[o][x]
    BY <2>3, <2>7
  <2>6. ASSUME NEW n \in Model, NEW b \in Attempt
        PROVE  behind'[o][<<n, b>>] = behind[o][<<n, b>>] + L[n][b]
    <3>1. L[n][b] = IF n = m /\ b = a THEN 1 ELSE 0
      BY DEF Once, Never
    <3>2. behind[o][<<n, b>>] \in Nat
      BY <2>3
    <3>3. CASE n = m /\ b = a
      BY <2>5, <3>1, <3>3
    <3>4. CASE ~ (n = m /\ b = a)
      <4>1. <<n, b>> \in (Model \X Attempt) \ {<<m, a>>}
        BY <3>4
      <4>2. behind'[o][<<n, b>>] = behind[o][<<n, b>>]
        BY <2>5, <4>1
      <4> QED BY <3>1, <3>2, <3>4, <4>2
    <3> QED BY <3>3, <3>4
  <2> HIDE DEF more, L
  <2> QED BY <1>1, <2>1, <2>2, <2>4, <2>5, <2>6
<1>3. ASSUME NEW o \in Owner, NEW p \in Owner, Merge(o, p) PROVE ExactInv'
  <2> DEFINE L == Behind(p)
  <2>1. /\ block' = [block EXCEPT ![o] = Merged(block[o], block[p])]
        /\ behind' = [behind EXCEPT ![o] = [x \in Model \X Attempt |-> behind[o][x] + behind[p][x]]]
    BY <1>3 DEF Merge
  <2>2. L \in [Model -> Counts] /\ Tells(block[p], L)
    BY BehindType DEF ExactInv
  <2>3. behind \in [Owner -> [Model \X Attempt -> Nat]]
    BY DEF ExactInv
  <2>4. \A x \in Model \X Attempt : behind[o][x] + behind[p][x] \in Nat
    BY <2>3
  <2>5. /\ \A q \in Owner \ {o} : behind'[q] = behind[q]
        /\ behind'[o] = [x \in Model \X Attempt |-> behind[o][x] + behind[p][x]]
    BY <2>1, <2>3
  <2>6. behind' \in [Owner -> [Model \X Attempt -> Nat]]
    BY <2>1, <2>3, <2>4
  <2>7. \A m \in Model, a \in Attempt : behind'[o][<<m, a>>] = behind[o][<<m, a>>] + L[m][a]
    BY <2>5 DEF Behind
  <2> HIDE DEF L
  <2> QED BY <1>1, <2>1, <2>2, <2>5, <2>6, <2>7
<1>4. CASE UNCHANGED vars
  BY <1>4 DEF ExactInv, Behind, vars
<1>5. ASSUME NEW o \in Owner, NEW m \in Model, NEW a \in Attempt, CollectRefused(o, m, a) PROVE ExactInv'
  BY <1>4, <1>5 DEF CollectRefused
<1>6. ASSUME NEW o \in Owner, NEW p \in Owner, MergeRefused(o, p) PROVE ExactInv'
  BY <1>4, <1>6 DEF MergeRefused
<1> QED BY <1>2, <1>3, <1>4, <1>5, <1>6 DEF Next

(* The sums of the property.                                               *)
LEMMA SumsAgree ==
  ASSUME ExactInv, NEW o \in Owner, NEW m \in Model, NEW A \in SUBSET Attempt
  PROVE  LET k == Behind(o)[m] IN
         /\ Times(o, m, A) = TimesIn(k, A)
         /\ \A f \in FIELDS : Tally(o, m, A, f) = TokensIn(k, A, f)
         /\ {Value(a, "input") : a \in {b \in A : behind[o][<<m, b>>] > 0}} = Inputs(k, A)
<1> DEFINE k == Behind(o)[m]
           times == [a \in A |-> behind[o][<<m, a>>]]
           tokens(f) == [a \in A |-> IF Value(a, f) = None THEN 0 ELSE behind[o][<<m, a>>] * Value(a, f)]
<1>1. \A a \in Attempt : k[a] = behind[o][<<m, a>>] /\ k[a] \in Nat
  BY BehindType DEF Behind, Counts
<1>2. IsFiniteSet(A)
  BY AttemptAssumption, FS_Subset
<1>3. Times(o, m, A) = SumFunctionOnSet(times, A)
  BY DEF Times, SumFunction
<1>4. \A a \in A : times[a] = k[a]
  BY <1>1
<1>5. ASSUME NEW f \in FIELDS PROVE Tally(o, m, A, f) = TokensIn(k, A, f)
  <2>1. Tally(o, m, A, f) = SumFunctionOnSet(tokens(f), A)
    BY DEF Tally, SumFunction
  <2>2. ASSUME NEW a \in A PROVE tokens(f)[a] = Weighted(k, f)[a]
    <3>1. tokens(f)[a] = IF Value(a, f) = None THEN 0 ELSE k[a] * Value(a, f)
      BY <1>1
    <3>2. Weighted(k, f)[a] = k[a] * Tokens(a, f)
      BY DEF Weighted
    <3>3. Tokens(a, f) = IF Value(a, f) = None THEN 0 ELSE Value(a, f)
      BY DEF Tokens
    <3>4. k[a] * 0 = 0
      <4>1. k[a] \in Nat
        BY <1>1
      <4> HIDE DEF k
      <4> QED BY <4>1
    <3> HIDE DEF k, tokens
    <3> QED BY <3>1, <3>2, <3>3, <3>4
  <2> HIDE DEF tokens, k
  <2>3. SumFunctionOnSet(tokens(f), A) = SumFunctionOnSet(Weighted(k, f), A)
    BY <1>2, <2>2, SumEqual
  <2> QED BY <2>1, <2>3 DEF TokensIn
<1>6. {Value(a, "input") : a \in {b \in A : behind[o][<<m, b>>] > 0}} = Inputs(k, A)
  <2>1. {b \in A : behind[o][<<m, b>>] > 0} = {b \in A : k[b] > 0}
    BY <1>1
  <2> HIDE DEF k
  <2> QED BY <2>1 DEF Inputs
<1> HIDE DEF times, k
<1>7. Times(o, m, A) = TimesIn(k, A)
  BY <1>2, <1>3, <1>4, SumEqual DEF TimesIn
<1> QED BY <1>5, <1>6, <1>7 DEF k

LEMMA CohortsAgree ==
  ASSUME ExactInv, NEW o \in Owner, NEW m \in Model, NEW A \in SUBSET Clean,
         NEW c, CohortOf(c, Behind(o)[m], A)
  PROVE  IsCohortOf(c, o, m, A)
<1> DEFINE k == Behind(o)[m]
           V == Inputs(k, A)
<1>1. A \in SUBSET Attempt /\ \A v \in V : v \in Nat
  BY PartsOfAttempts DEF Inputs
<1>2. /\ Times(o, m, A) = TimesIn(k, A)
      /\ \A f \in FIELDS : Tally(o, m, A, f) = TokensIn(k, A, f)
      /\ {Value(a, "input") : a \in {b \in A : behind[o][<<m, b>>] > 0}} = V
  BY <1>1, SumsAgree
<1>3. /\ c.requests = TimesIn(k, A)
      /\ \A f \in FIELDS : c.tokens[f] = TokensIn(k, A, f)
      /\ V = {} => c.min = None /\ c.max = None
      /\ V # {} => c.min \in V /\ c.max \in V
      /\ \A v \in V : c.min <= v /\ v <= c.max
  BY DEF CohortOf
<1> HIDE DEF k, V
<1>4. V # {} => c.min = Min(V) /\ c.max = Max(V)
  <2> SUFFICES ASSUME V # {} PROVE c.min = Min(V) /\ c.max = Max(V)
    OBVIOUS
  <2>1. Min(V) \in V /\ \A v \in V : Min(V) <= v
    BY <1>3 DEF Min
  <2>2. Max(V) \in V /\ \A v \in V : Max(V) >= v
    <3>1. \E g \in V : \A v \in V : g >= v
      BY <1>1, <1>3
    <3> QED BY <3>1 DEF Max
  <2>3. /\ c.min \in Nat /\ Min(V) \in Nat /\ c.min <= Min(V) /\ Min(V) <= c.min
        /\ c.max \in Nat /\ Max(V) \in Nat /\ c.max <= Max(V) /\ Max(V) <= c.max
    BY <1>1, <1>3, <2>1, <2>2
  <2> QED BY <2>3
<1> QED BY <1>2, <1>3, <1>4 DEF IsCohortOf

(* The property of the run: a row tells what the attempts behind it tell,  *)
(* in whatever order they were collected and however they were spread over *)
(* owners before the blocks were merged.                                   *)
THEOREM RowsExactCorrect == Spec => []RowsExact
<1>1. Spec => []ExactInv
  BY InitExact, NextExact, PTL DEF Spec
<1>2. ASSUME ExactInv, NEW o \in Owner
      PROVE  DOMAIN block[o] = {m \in Model : Times(o, m, Attempt) > 0}
  <2>1. DOMAIN block[o] \subseteq Model
    BY <1>2 DEF ExactInv, Tells
  <2>2. ASSUME NEW m \in Model PROVE m \in DOMAIN block[o] <=> Times(o, m, Attempt) > 0
    <3> DEFINE k == Behind(o)[m]
    <3>1. m \in DOMAIN block[o] <=> \E a \in Attempt : k[a] > 0
      BY <1>2 DEF ExactInv, Tells
    <3>2. Times(o, m, Attempt) = SumFunctionOnSet(k, Attempt)
      BY <1>2, SumsAgree DEF TimesIn
    <3>3. \A a \in Attempt : k[a] \in Nat
      BY <1>2, BehindType DEF Counts
    <3> HIDE DEF k
    <3>4. /\ SumFunctionOnSet(k, Attempt) \in Nat
          /\ \A a \in Attempt : k[a] <= SumFunctionOnSet(k, Attempt)
      BY <3>3, AttemptAssumption, SumNat
    <3>5. (\A a \in Attempt : k[a] = 0) => SumFunctionOnSet(k, Attempt) = 0
      BY AttemptAssumption, SumZero
    <3> QED BY <3>1, <3>2, <3>3, <3>4, <3>5
  <2> QED BY <2>1, <2>2
<1>3. ASSUME ExactInv, NEW o \in Owner, NEW m \in DOMAIN block[o]
      PROVE  LET r == block[o][m] IN
             /\ r.requests = Times(o, m, Attempt)
             /\ \A f \in FIELDS : r.fields[f].tokens = Tally(o, m, Attempt, f)
             /\ r.excluded["invalid_usage"] = Times(o, m, Flagged)
             /\ IsCohortOf(r.complete, o, m, Clean)
             /\ \A i \in Bin : LET bin == r.histogram[i] IN
                  /\ IsCohortOf(bin.complete, o, m, Clean \cap Tier[i])
                  /\ bin.reported.requests = Times(o, m, Tier[i])
                  /\ bin.reported.tokens = Tally(o, m, Tier[i], "input")
  <2> DEFINE r == block[o][m]
             k == Behind(o)[m]
  <2>1. m \in Model /\ Exact(r, k)
    BY <1>3 DEF ExactInv, Tells
  <2>2. \A A \in SUBSET Attempt : /\ Times(o, m, A) = TimesIn(k, A)
                                  /\ \A f \in FIELDS : Tally(o, m, A, f) = TokensIn(k, A, f)
    BY <1>3, <2>1, SumsAgree
  <2>3. \A A \in SUBSET Clean : \A c : CohortOf(c, k, A) => IsCohortOf(c, o, m, A)
    BY <1>3, <2>1, CohortsAgree
  <2>4. /\ Attempt \in SUBSET Attempt /\ Flagged \in SUBSET Attempt
        /\ \A i \in Bin : Tier[i] \in SUBSET Attempt /\ Clean \cap Tier[i] \in SUBSET Clean
    BY PartsOfAttempts
  <2> HIDE DEF r, k
  <2>5. /\ r.requests = Times(o, m, Attempt)
        /\ \A f \in FIELDS : r.fields[f].tokens = Tally(o, m, Attempt, f)
        /\ r.excluded["invalid_usage"] = Times(o, m, Flagged)
        /\ IsCohortOf(r.complete, o, m, Clean)
    BY <2>1, <2>2, <2>3, <2>4 DEF Exact
  <2>6. ASSUME NEW i \in Bin
        PROVE  /\ IsCohortOf(r.histogram[i].complete, o, m, Clean \cap Tier[i])
               /\ r.histogram[i].reported.requests = Times(o, m, Tier[i])
               /\ r.histogram[i].reported.tokens = Tally(o, m, Tier[i], "input")
    BY <2>1, <2>2, <2>3, <2>4 DEF Exact, FIELDS
  <2> QED BY <2>5, <2>6 DEF r
<1>4. ExactInv => RowsExact
  BY <1>2, <1>3 DEF RowsExact
<1> QED BY <1>1, <1>4, PTL

-----------------------------------------------------------------------------
(* The first NUL of a message ends its domain, because no registered       *)
(* domain has one: digest64 hashes no two pairs of them as one message.    *)
THEOREM MessageIdentifies ==
  ASSUME NEW d1 \in Registry, NEW d2 \in Registry, NEW b1 \in Seq(Byte), NEW b2 \in Seq(Byte),
         Message(d1, b1) = Message(d2, b2)
  PROVE  d1 = d2 /\ b1 = b2
<1>1. d1 \in Seq(Byte \ {NUL}) /\ d2 \in Seq(Byte \ {NUL})
  BY RegistryAssumption DEF RegistryAssumption
<1> DEFINE m1 == Message(d1, b1)
           m2 == Message(d2, b2)
<1>2. /\ Len(m1) = Len(d1) + 1 + Len(b1) /\ Len(m2) = Len(d2) + 1 + Len(b2)
      /\ m1[Len(d1) + 1] = NUL /\ m2[Len(d2) + 1] = NUL
  BY <1>1, RegistryAssumption DEF Message, RegistryAssumption
<1>3. /\ \A i \in 1..Len(d1) : m1[i] = d1[i] /\ m1[i] # NUL
      /\ \A i \in 1..Len(d2) : m2[i] = d2[i] /\ m2[i] # NUL
  BY <1>1 DEF Message
<1>4. Len(d1) = Len(d2)
  <2>1. ~(Len(d1) < Len(d2))
    <3>1. SUFFICES ASSUME Len(d1) < Len(d2) PROVE FALSE
      OBVIOUS
    <3>2. Len(d1) + 1 \in 1..Len(d2)
      BY <1>1, <3>1
    <3> QED BY <1>2, <1>3, <3>2
  <2>2. ~(Len(d2) < Len(d1))
    <3>1. SUFFICES ASSUME Len(d2) < Len(d1) PROVE FALSE
      OBVIOUS
    <3>2. Len(d2) + 1 \in 1..Len(d1)
      BY <1>1, <3>1
    <3> QED BY <1>2, <1>3, <3>2
  <2> QED BY <1>1, <2>1, <2>2
<1>5. d1 = d2
  BY <1>1, <1>3, <1>4
<1>6. Len(b1) = Len(b2)
  BY <1>1, <1>2, <1>4
<1>7. ASSUME NEW i \in 1..Len(b1) PROVE b1[i] = b2[i]
  <2>1. m1[Len(d1) + 1 + i] = b1[i] /\ m2[Len(d2) + 1 + i] = b2[i]
    BY <1>1, <1>6, RegistryAssumption DEF Message, RegistryAssumption
  <2> QED BY <1>4, <2>1
<1> QED BY <1>5, <1>6, <1>7

-----------------------------------------------------------------------------
(* The invariant it needs of the machine: a text is a sequence of bytes.   *)
TextInv == text \in Seq(Byte)

LEMMA TextInvariant == IdentitySpec => []TextInv
<1>1. IdentityInit => TextInv
  BY DEF IdentityInit, TextInv
<1>2. ASSUME TextInv, [IdentityNext]_identityVars PROVE TextInv'
  <2>1. CASE \E c \in UNION Alphabets : Type(c)
    BY <1>2, <2>1, TypedAssumption DEF TypedAssumption, Type, TextInv
  <2>2. CASE UNCHANGED text
    BY <1>2, <2>2 DEF TextInv
  <2>3. ASSUME \E name \in ObservedModel, public \in PublicName : Map(name, public) PROVE UNCHANGED text
    BY <2>3 DEF Map, Configure
  <2>4. ASSUME \E slice \in Slice : Add(slice) PROVE UNCHANGED text
    BY <2>4 DEF Add, Configure
  <2>5. ASSUME Reorder PROVE UNCHANGED text
    BY <2>5 DEF Reorder, Change
  <2>6. ASSUME \E i \in DOMAIN peer.map, name \in ObservedModel \ Keys(peer.map) : Rename(i, name)
        PROVE  UNCHANGED text
    BY <2>6 DEF Rename, Change
  <2>7. ASSUME \E i \in DOMAIN peer.map, public \in PublicName : Reassign(i, public)
        PROVE  UNCHANGED text
    BY <2>7 DEF Reassign, Change
  <2>8. ASSUME \E i \in DOMAIN peer.slices, slice \in Slice : Replace(i, slice)
        PROVE  UNCHANGED text
    BY <2>8 DEF Replace, Change
  <2>9. CASE UNCHANGED identityVars
    BY <2>2, <2>9 DEF identityVars
  <2> QED BY <1>2, <2>1, <2>2, <2>3, <2>4, <2>5, <2>6, <2>7, <2>8, <2>9 DEF IdentityNext
<1> QED BY <1>1, <1>2, PTL DEF IdentitySpec

(* In every state two keyed hashes of ends of the text in two domains      *)
(* have one message only if they are the same hash.                        *)
THEOREM MessagesAlwaysSeparate == IdentitySpec => []MessagesSeparate
<1>1. TextInv => MessagesSeparate
  <2> SUFFICES ASSUME TextInv, NEW d1 \in Registry, NEW d2 \in Registry,
                      NEW i \in 0..Len(text), NEW j \in 0..Len(text),
                      Message(d1, SubSeq(text, i + 1, Len(text))) = Message(d2, SubSeq(text, j + 1, Len(text)))
               PROVE  /\ d1 = d2
                      /\ SubSeq(text, i + 1, Len(text)) = SubSeq(text, j + 1, Len(text))
    BY DEF MessagesSeparate
  <2>1. SubSeq(text, i + 1, Len(text)) \in Seq(Byte) /\ SubSeq(text, j + 1, Len(text)) \in Seq(Byte)
    BY DEF TextInv
  <2> DEFINE b1 == SubSeq(text, i + 1, Len(text))
             b2 == SubSeq(text, j + 1, Len(text))
  <2>2. b1 \in Seq(Byte) /\ b2 \in Seq(Byte) /\ Message(d1, b1) = Message(d2, b2)
    BY <2>1
  <2> HIDE DEF b1, b2
  <2>3. d1 = d2 /\ b1 = b2
    BY <2>2, MessageIdentifies
  <2> QED BY <2>3 DEF b1, b2
<1> QED BY <1>1, TextInvariant, PTL
-----------------------------------------------------------------------------
(* Contracts.  The settings of both producers have their members; no name  *)
(* is mapped twice; the second producer's changes are to its map and its   *)
(* slices.                                                                 *)
Configs == [accounting : {c.accounting : c \in Settings}, map : Seq(ObservedModel \X PublicName),
            router : {c.router : c \in Settings}, limit : {c.limit : c \in Settings},
            selected : {c.selected : c \in Settings}, slices : Seq(Slices)]
MappedOnce(map) == \A i, j \in DOMAIN map : map[i][1] = map[j][1] => i = j
SameBut(c, d) ==
  c.accounting = d.accounting /\ c.router = d.router /\ c.limit = d.limit /\ c.selected = d.selected
ConfigInv ==
  /\ config \in Configs /\ MappedOnce(config.map)
  /\ peer \in Configs /\ MappedOnce(peer.map)
  /\ SameBut(config, peer)

LEMMA ReverseSeq ==
  ASSUME NEW S, NEW s \in Seq(S)
  PROVE  /\ Reverse(s) \in Seq(S) /\ DOMAIN Reverse(s) = DOMAIN s
         /\ \A i \in DOMAIN s : (Len(s) - i) + 1 \in DOMAIN s /\ Reverse(s)[i] = s[(Len(s) - i) + 1]
BY DEF Reverse

LEMMA PairChanged ==
  ASSUME NEW S, NEW T, NEW pair \in S \X T, NEW x
  PROVE  [pair EXCEPT ![1] = x] = <<x, pair[2]>> /\ [pair EXCEPT ![2] = x] = <<pair[1], x>>
<1>1. pair = <<pair[1], pair[2]>>
  OBVIOUS
<1> QED BY <1>1

LEMMA ConfigInvariant == IdentitySpec => []ConfigInv
<1>1. IdentityInit => ConfigInv
  <2> SUFFICES ASSUME IdentityInit PROVE ConfigInv
    OBVIOUS
  <2>1. config \in Settings /\ peer = config
    BY DEF IdentityInit
  <2>2. config = [accounting |-> config.accounting, map |-> <<>>, router |-> config.router,
                  limit |-> config.limit, selected |-> config.selected, slices |-> <<>>]
    BY <2>1, SettingsAssumption DEF SettingsAssumption
  <2>3. config \in Configs /\ config.map = <<>>
    <3> DEFINE A == {c.accounting : c \in Settings}
               R == {c.router : c \in Settings}
               L == {c.limit : c \in Settings}
               M == {c.selected : c \in Settings}
    <3>1. config.accounting \in A /\ config.router \in R /\ config.limit \in L /\ config.selected \in M
      BY <2>1
    <3>2. Configs = [accounting : A, map : Seq(ObservedModel \X PublicName), router : R, limit : L,
                     selected : M, slices : Seq(Slices)]
      BY Zenon DEF Configs
    <3>3. config.map = <<>>
      BY <2>2
    <3> DEFINE fresh(a, r, l, m) == [accounting |-> a, map |-> <<>>, router |-> r,
                                     limit |-> l, selected |-> m, slices |-> <<>>]
    <3> HIDE DEF A, R, L, M
    <3>4. \A a \in A, r \in R, l \in L, m \in M : fresh(a, r, l, m) \in Configs
      BY <3>2
    <3> HIDE DEF fresh
    <3>5. fresh(config.accounting, config.router, config.limit, config.selected) \in Configs
      BY <3>1, <3>4
    <3> QED BY <2>2, <3>3, <3>5 DEF fresh
  <2> QED BY <2>1, <2>3 DEF ConfigInv, MappedOnce, SameBut
<1>2. ASSUME ConfigInv, [IdentityNext]_identityVars PROVE ConfigInv'
  <2>0. /\ config \in Configs /\ MappedOnce(config.map)
        /\ peer \in Configs /\ MappedOnce(peer.map) /\ SameBut(config, peer)
    BY <1>2 DEF ConfigInv
  <2>1. ASSUME NEW to \in Configs, MappedOnce(to.map), Configure(to) PROVE ConfigInv'
    <3>1. config' = to /\ peer' = to
      BY <2>1 DEF Configure
    <3> QED BY <2>1, <3>1 DEF ConfigInv, SameBut
  <2>2. ASSUME NEW to \in Configs, MappedOnce(to.map), SameBut(peer, to), Change(to) PROVE ConfigInv'
    <3>1. config' = config /\ peer' = to
      BY <2>2 DEF Change
    <3> QED BY <2>0, <2>2, <3>1 DEF ConfigInv, SameBut
  <2>3. ASSUME NEW name \in ObservedModel, NEW public \in PublicName, Map(name, public) PROVE ConfigInv'
    <3> DEFINE map == Append(config.map, <<name, public>>)
               to == [config EXCEPT !.map = map]
    <3>1. config.map \in Seq(ObservedModel \X PublicName) /\ name \notin Keys(config.map) /\ Configure(to)
      BY <2>0, <2>3 DEF Map, Configs
    <3>2. map \in Seq(ObservedModel \X PublicName)
      BY <3>1
    <3>3. MappedOnce(map)
      <4>1. \A i \in DOMAIN config.map : config.map[i][1] # name
        BY <3>1 DEF Keys, Range
      <4>2. /\ DOMAIN map = 1..Len(config.map) + 1 /\ map[Len(config.map) + 1] = <<name, public>>
            /\ DOMAIN config.map = 1..Len(config.map) /\ Len(config.map) \in Nat
            /\ \A i \in 1..Len(config.map) : map[i] = config.map[i]
        BY <3>1
      <4> DEFINE last == Len(config.map) + 1
                 old == DOMAIN config.map
      <4> HIDE DEF map
      <4>3. /\ DOMAIN map = old \cup {last} /\ map[last][1] = name
            /\ \A i \in old : map[i][1] = config.map[i][1]
        BY <4>2
      <4> HIDE DEF last, old
      <4>4. \A i, j \in old : config.map[i][1] = config.map[j][1] => i = j
        BY <2>0 DEF MappedOnce, old
      <4> QED BY <4>1, <4>3, <4>4 DEF MappedOnce, old
    <3> HIDE DEF map
    <3>4. to \in Configs /\ to.map = map
      BY <2>0, <3>2 DEF Configs
    <3> QED BY <2>1, <3>1, <3>3, <3>4
  <2>4. ASSUME NEW slice \in Slice, Add(slice) PROVE ConfigInv'
    <3> DEFINE to == [config EXCEPT !.slices = Append(@, slice)]
    <3>1. Configure(to)
      BY <2>4 DEF Add
    <3>2. to \in Configs /\ to.map = config.map
      <4>1. config.slices \in Seq(Slices) /\ slice \in Slices
        BY <2>0, SettingsAssumption DEF Configs, SettingsAssumption
      <4>2. Append(config.slices, slice) \in Seq(Slices)
        BY <4>1
      <4> QED BY <2>0, <4>2 DEF Configs
    <3> QED BY <2>0, <2>1, <3>1, <3>2
  <2>5. CASE Reorder
    <3>1. peer.map \in Seq(ObservedModel \X PublicName) /\ peer.slices \in Seq(Slices)
      BY <2>0 DEF Configs
    <3>2. Reverse(peer.map) \in Seq(ObservedModel \X PublicName) /\ Reverse(peer.slices) \in Seq(Slices)
      BY <3>1, ReverseSeq
    <3>3. MappedOnce(Reverse(peer.map))
      <4> DEFINE other(i) == (Len(peer.map) - i) + 1
      <4>1. /\ DOMAIN Reverse(peer.map) = DOMAIN peer.map
            /\ \A i \in DOMAIN peer.map : other(i) \in DOMAIN peer.map /\ Reverse(peer.map)[i] = peer.map[other(i)]
        BY <3>1, ReverseSeq
      <4>2. \A i, j \in DOMAIN peer.map : other(i) = other(j) => i = j
        BY <3>1
      <4> HIDE DEF other
      <4> QED BY <2>0, <4>1, <4>2 DEF MappedOnce
    <3>4. CASE Change([peer EXCEPT !.map = Reverse(@)])
      <4> DEFINE to == [peer EXCEPT !.map = Reverse(@)]
      <4>1. to \in Configs /\ to.map = Reverse(peer.map) /\ SameBut(peer, to)
        BY <2>0, <3>2 DEF Configs, SameBut
      <4> QED BY <2>2, <3>3, <3>4, <4>1
    <3>5. CASE Change([peer EXCEPT !.slices = Reverse(@)])
      <4> DEFINE to == [peer EXCEPT !.slices = Reverse(@)]
      <4>1. to \in Configs /\ to.map = peer.map /\ SameBut(peer, to)
        BY <2>0, <3>2 DEF Configs, SameBut
      <4> QED BY <2>0, <2>2, <3>5, <4>1
    <3> QED BY <2>5, <3>4, <3>5 DEF Reorder
  <2>6. ASSUME NEW i \in DOMAIN peer.map, NEW name \in ObservedModel \ Keys(peer.map), Rename(i, name)
        PROVE  ConfigInv'
    <3> DEFINE map == [peer.map EXCEPT ![i] = [@ EXCEPT ![1] = name]]
               to == [peer EXCEPT !.map = map]
    <3>1. peer.map \in Seq(ObservedModel \X PublicName) /\ Change([peer EXCEPT !.map[i][1] = name])
      BY <2>0, <2>6 DEF Configs, Rename
    <3>2. [peer EXCEPT !.map[i][1] = name] = to
      OBVIOUS
    <3>3. peer.map[i] \in ObservedModel \X PublicName /\ [peer.map[i] EXCEPT ![1] = name] = <<name, peer.map[i][2]>>
      <4>1. peer.map[i] \in ObservedModel \X PublicName
        BY <2>6, <3>1
      <4> QED BY <4>1, PairChanged
    <3>4. /\ map \in Seq(ObservedModel \X PublicName) /\ DOMAIN map = DOMAIN peer.map
          /\ map[i] = <<name, peer.map[i][2]>> /\ \A j \in DOMAIN peer.map \ {i} : map[j] = peer.map[j]
      BY <2>6, <3>1, <3>3
    <3>5. MappedOnce(map)
      <4>1. \A j \in DOMAIN peer.map : peer.map[j][1] # name
        BY <2>6 DEF Keys, Range
      <4>2. map[i][1] = name
        BY <3>4
      <4> HIDE DEF map
      <4> QED BY <2>0, <3>4, <4>1, <4>2 DEF MappedOnce
    <3> HIDE DEF map
    <3>6. to \in Configs /\ to.map = map /\ SameBut(peer, to)
      BY <2>0, <3>4 DEF Configs, SameBut
    <3> QED BY <2>2, <3>1, <3>2, <3>5, <3>6
  <2>7. ASSUME NEW i \in DOMAIN peer.map, NEW public \in PublicName, Reassign(i, public) PROVE ConfigInv'
    <3> DEFINE map == [peer.map EXCEPT ![i] = [@ EXCEPT ![2] = public]]
               to == [peer EXCEPT !.map = map]
    <3>1. peer.map \in Seq(ObservedModel \X PublicName) /\ Change([peer EXCEPT !.map[i][2] = public])
      BY <2>0, <2>7 DEF Configs, Reassign
    <3>2. [peer EXCEPT !.map[i][2] = public] = to
      OBVIOUS
    <3>3. peer.map[i] \in ObservedModel \X PublicName /\ [peer.map[i] EXCEPT ![2] = public] = <<peer.map[i][1], public>>
      <4>1. peer.map[i] \in ObservedModel \X PublicName
        BY <2>7, <3>1
      <4> QED BY <4>1, PairChanged
    <3>4. /\ map \in Seq(ObservedModel \X PublicName) /\ DOMAIN map = DOMAIN peer.map
          /\ map[i] = <<peer.map[i][1], public>> /\ \A j \in DOMAIN peer.map \ {i} : map[j] = peer.map[j]
      BY <2>7, <3>1, <3>3
    <3>5. MappedOnce(map)
      <4>1. \A j \in DOMAIN peer.map : map[j][1] = peer.map[j][1]
        BY <3>4
      <4> HIDE DEF map
      <4> QED BY <2>0, <3>4, <4>1 DEF MappedOnce
    <3> HIDE DEF map
    <3>6. to \in Configs /\ to.map = map /\ SameBut(peer, to)
      BY <2>0, <3>4 DEF Configs, SameBut
    <3> QED BY <2>2, <3>1, <3>2, <3>5, <3>6
  <2>8. ASSUME NEW i \in DOMAIN peer.slices, NEW slice \in Slice, Replace(i, slice) PROVE ConfigInv'
    <3> DEFINE to == [peer EXCEPT !.slices[i] = slice]
    <3>1. Change(to)
      BY <2>8 DEF Replace
    <3>2. to \in Configs /\ to.map = peer.map /\ SameBut(peer, to)
      <4> DEFINE slices == [peer.slices EXCEPT ![i] = slice]
      <4>1. peer.slices \in Seq(Slices) /\ slice \in Slices
        BY <2>0, SettingsAssumption DEF Configs, SettingsAssumption
      <4>2. slices \in Seq(Slices)
        BY <2>8, <4>1
      <4>3. to = [peer EXCEPT !.slices = slices]
        OBVIOUS
      <4> HIDE DEF slices
      <4> QED BY <2>0, <4>2, <4>3 DEF Configs, SameBut
    <3> QED BY <2>0, <2>2, <3>1, <3>2
  <2>9. CASE UNCHANGED <<config, peer>>
    BY <2>0, <2>9 DEF ConfigInv
  <2>10. ASSUME \E c \in UNION Alphabets : Type(c) PROVE UNCHANGED <<config, peer>>
    BY <2>10 DEF Type
  <2>11. CASE UNCHANGED identityVars
    BY <2>9, <2>11 DEF identityVars
  <2> QED BY <1>2, <2>3, <2>4, <2>5, <2>6, <2>7, <2>8, <2>9, <2>10, <2>11 DEF IdentityNext
<1> QED BY <1>1, <1>2, PTL DEF IdentitySpec

-----------------------------------------------------------------------------
(* What the checks of a contract say, and what its preimage holds.         *)

LEMMA ConfigFacts ==
  ASSUME NEW c \in Configs
  PROVE  /\ c.map \in Seq(ObservedModel \X PublicName) /\ c.slices \in Seq(Slices)
         /\ \A i \in DOMAIN c.slices :
              /\ c.slices[i] \in Slices /\ c.slices[i].keys \in Seq(STRING)
              /\ c.slices[i].from # Absent => c.slices[i].from \in Seq(STRING)
<1>1. c.map \in Seq(ObservedModel \X PublicName) /\ c.slices \in Seq(Slices)
  BY DEF Configs
<1>2. \A i \in DOMAIN c.slices : c.slices[i] \in Slices
  BY <1>1
<1> QED BY <1>1, <1>2 DEF Slices

\* Every string that is written, one by one.
LEMMA NamesOf ==
  ASSUME NEW c \in Configs, NEW x
  PROVE  x \in Names(c) <=>
           \/ x = c.selected \/ x \in Keys(c.map)
           \/ \E i \in DOMAIN c.slices :
                \/ x = c.slices[i].name \/ x \in Range(c.slices[i].keys)
                \/ c.slices[i].from # Absent /\ x \in Range(c.slices[i].from)
<1>1. \A i \in DOMAIN c.slices : c.slices[i] \in Range(c.slices)
  BY DEF Range
<1>2. \A s \in Range(c.slices) : \E i \in DOMAIN c.slices : s = c.slices[i]
  BY DEF Range
<1> DEFINE InSlice(s) == {s.name} \cup Range(s.keys) \cup (IF s.from = Absent THEN {} ELSE Range(s.from))
<1>3. Names(c) = {c.selected} \cup Keys(c.map) \cup UNION {InSlice(s) : s \in Range(c.slices)}
  BY DEF Names
<1>4. x \in UNION {InSlice(s) : s \in Range(c.slices)} <=> \E i \in DOMAIN c.slices : x \in InSlice(c.slices[i])
  <2> HIDE DEF InSlice
  <2> QED BY <1>1, <1>2
<1>5. \A i \in DOMAIN c.slices :
        x \in InSlice(c.slices[i]) <=>
          \/ x = c.slices[i].name \/ x \in Range(c.slices[i].keys)
          \/ c.slices[i].from # Absent /\ x \in Range(c.slices[i].from)
  OBVIOUS
<1> HIDE DEF InSlice
<1> QED BY <1>3, <1>4, <1>5

\* A slice with its policy filled in.
LEMMA ResolvedSlice ==
  ASSUME NEW c \in Configs
  PROVE  /\ DOMAIN Resolved(c.slices) = DOMAIN c.slices
         /\ \A i \in DOMAIN c.slices :
              LET s == c.slices[i]
                  r == Resolved(c.slices)[i]
              IN r = [name |-> s.name, keys |-> s.keys, from |-> IF NoPolicy(s) THEN s.keys ELSE s.from]
<1>1. \A s \in Slices : [s EXCEPT !.from = s.keys] = [name |-> s.name, keys |-> s.keys, from |-> s.keys]
  BY DEF Slices
<1>2. \A s \in Slices : s = [name |-> s.name, keys |-> s.keys, from |-> s.from]
  BY DEF Slices
<1> QED BY <1>1, <1>2, ConfigFacts DEF Resolved

LEMMA FilledSlice ==
  ASSUME NEW c \in Configs
  PROVE  /\ Filled(c) \in Configs /\ SameBut(c, Filled(c)) /\ Filled(c).map = c.map
         /\ DOMAIN Filled(c).slices = DOMAIN c.slices
         /\ \A i \in DOMAIN c.slices :
              Filled(c).slices[i] = [name |-> c.slices[i].name, keys |-> c.slices[i].keys,
                                     from |-> IF c.slices[i].from = Absent THEN <<>> ELSE c.slices[i].from]
<1> DEFINE fill(s) == IF s.from = Absent THEN [s EXCEPT !.from = <<>>] ELSE s
           slices == [i \in DOMAIN c.slices |-> fill(c.slices[i])]
<1>1. \A s \in Slices :
        /\ fill(s) \in Slices
        /\ fill(s) = [name |-> s.name, keys |-> s.keys, from |-> IF s.from = Absent THEN <<>> ELSE s.from]
  <2> SUFFICES ASSUME NEW s \in Slices
               PROVE  /\ fill(s) \in Slices
                      /\ fill(s) = [name |-> s.name, keys |-> s.keys,
                                    from |-> IF s.from = Absent THEN <<>> ELSE s.from]
    OBVIOUS
  <2>1. s = [name |-> s.name, keys |-> s.keys, from |-> s.from]
    BY DEF Slices
  <2>2. CASE s.from = Absent
    <3>1. fill(s) = [name |-> s.name, keys |-> s.keys, from |-> <<>>]
      BY <2>1, <2>2
    <3>2. s.name \in STRING /\ s.keys \in Seq(STRING) /\ <<>> \in Seq(STRING)
      BY DEF Slices
    <3> HIDE DEF fill
    <3> QED BY <2>2, <3>1, <3>2 DEF Slices
  <2>3. CASE s.from # Absent
    BY <2>1, <2>3
  <2> QED BY <2>2, <2>3
<1>2. c.slices \in Seq(Slices) /\ \A i \in DOMAIN c.slices : c.slices[i] \in Slices
  BY ConfigFacts
<1> HIDE DEF fill
<1>3. /\ slices \in Seq(Slices) /\ DOMAIN slices = DOMAIN c.slices
      /\ \A i \in DOMAIN c.slices : slices[i] = fill(c.slices[i])
  BY <1>1, <1>2
<1>4. Filled(c) = [c EXCEPT !.slices = slices]
  BY DEF Filled, fill
<1> HIDE DEF slices
<1>5. Filled(c) \in Configs /\ Filled(c).slices = slices /\ Filled(c).map = c.map /\ SameBut(c, Filled(c))
  BY <1>3, <1>4 DEF Configs, SameBut
<1> QED BY <1>1, <1>2, <1>3, <1>5

(* A policy that is not there is one that says nothing, to every check of  *)
(* Go and to the preimage of both.                                         *)
LEMMA FilledSame ==
  ASSUME NEW c \in Configs
  PROVE  /\ GoChecks(Filled(c)) <=> GoChecks(c)
         /\ NamesUnique(Filled(c).slices) <=> NamesUnique(c.slices)
         /\ SelectsModel(Filled(c)) <=> SelectsModel(c)
         /\ Names(Filled(c)) = Names(c) /\ Preimage(Filled(c)) = Preimage(c)
<1> DEFINE F == Filled(c)
<1>1. /\ F \in Configs /\ SameBut(c, F) /\ F.map = c.map /\ DOMAIN F.slices = DOMAIN c.slices
      /\ \A i \in DOMAIN c.slices :
           /\ F.slices[i].name = c.slices[i].name /\ F.slices[i].keys = c.slices[i].keys
           /\ F.slices[i].from = IF c.slices[i].from = Absent THEN <<>> ELSE c.slices[i].from
  <2> HIDE DEF F
  <2>1. /\ F \in Configs /\ SameBut(c, F) /\ F.map = c.map
        /\ DOMAIN F.slices = DOMAIN c.slices
        /\ \A i \in DOMAIN c.slices :
             F.slices[i] = [name |-> c.slices[i].name, keys |-> c.slices[i].keys,
                            from |-> IF c.slices[i].from = Absent THEN <<>> ELSE c.slices[i].from]
    BY FilledSlice DEF F
  <2>2. ASSUME NEW i \in DOMAIN c.slices
        PROVE  /\ F.slices[i].name = c.slices[i].name /\ F.slices[i].keys = c.slices[i].keys
               /\ F.slices[i].from = IF c.slices[i].from = Absent THEN <<>> ELSE c.slices[i].from
    <3> DEFINE from == IF c.slices[i].from = Absent THEN <<>> ELSE c.slices[i].from
    <3>1. F.slices[i] = [name |-> c.slices[i].name, keys |-> c.slices[i].keys, from |-> from]
      BY <2>1
    <3> HIDE DEF from
    <3>2. F.slices[i].name = c.slices[i].name /\ F.slices[i].keys = c.slices[i].keys /\ F.slices[i].from = from
      BY <3>1
    <3> QED BY <3>2 DEF from
  <2> QED BY <2>1, <2>2
<1> HIDE DEF F
<1>2. NamesUnique(F.slices) <=> NamesUnique(c.slices)
  BY <1>1 DEF NamesUnique
<1>3. SelectsModel(F) <=> SelectsModel(c)
  BY <1>1 DEF SelectsModel, SameBut
<1>4. GoChecks(F) <=> GoChecks(c)
  BY <1>1, <1>2, <1>3 DEF GoChecks, SameBut
<1>5. Names(F) = Names(c)
  <2>1. ASSUME NEW i \in DOMAIN c.slices, NEW x
        PROVE  F.slices[i].from # Absent /\ x \in Range(F.slices[i].from)
                 <=> c.slices[i].from # Absent /\ x \in Range(c.slices[i].from)
    <3>1. x \notin Range(<<>>)
      BY DEF Range
    <3>2. Absent # <<>>
      BY SettingsAssumption DEF SettingsAssumption
    <3> QED BY <1>1, <3>1, <3>2
  <2>2. \A x : x \in Names(F) <=> x \in Names(c)
    <3> TAKE x
    <3> DEFINE In(s) == \/ x = s.name \/ x \in Range(s.keys)
                        \/ s.from # Absent /\ x \in Range(s.from)
    <3>1. x \in Names(F) <=> x = F.selected \/ x \in Keys(F.map) \/ \E i \in DOMAIN F.slices : In(F.slices[i])
      BY <1>1, NamesOf
    <3>2. x \in Names(c) <=> x = c.selected \/ x \in Keys(c.map) \/ \E i \in DOMAIN c.slices : In(c.slices[i])
      BY NamesOf
    <3>3. \A i \in DOMAIN c.slices : In(F.slices[i]) <=> In(c.slices[i])
      BY <1>1, <2>1
    <3> HIDE DEF In
    <3> QED BY <1>1, <3>1, <3>2, <3>3 DEF SameBut
  <2> QED BY <2>2
<1>6. Preimage(F) = Preimage(c)
  <2>1. ASSUME NEW i \in DOMAIN c.slices PROVE Resolved(F.slices)[i] = Resolved(c.slices)[i]
    <3>1. NoPolicy(F.slices[i]) <=> NoPolicy(c.slices[i])
      BY <1>1 DEF NoPolicy
    <3>2. ~NoPolicy(c.slices[i]) => F.slices[i].from = c.slices[i].from
      BY <1>1 DEF NoPolicy
    <3> DEFINE AllOf(s) == [name |-> s.name, keys |-> s.keys, from |-> IF NoPolicy(s) THEN s.keys ELSE s.from]
    <3>3. Resolved(F.slices)[i] = AllOf(F.slices[i]) /\ Resolved(c.slices)[i] = AllOf(c.slices[i])
      BY <1>1, ResolvedSlice
    <3>4. AllOf(F.slices[i]) = AllOf(c.slices[i])
      BY <1>1, <3>1, <3>2
    <3> QED BY <3>3, <3>4
  <2> DEFINE Of(r) == [name |-> Written(r.name), keys |-> AllWritten(r.keys), from |-> AllWritten(r.from)]
  <2>2. [i \in DOMAIN F.slices |-> Of(Resolved(F.slices)[i])] = [i \in DOMAIN c.slices |-> Of(Resolved(c.slices)[i])]
    <3> HIDE DEF Of
    <3> QED BY <1>1, <2>1
  <2> QED BY <1>1, <2>2 DEF Preimage, SameBut
<1> QED BY <1>2, <1>3, <1>4, <1>5, <1>6 DEF F

\* Both verdicts on settings, in the same words.
Basic(c) ==
  c.accounting \in Accounting /\ c.router = "inactive-lru-v1" /\ \A pair \in Range(c.map) : is_public_id(pair[2])
Named(c) == NamesUnique(c.slices) /\ SelectsModel(c) /\ Encodable(Names(c))
Policies(c) == \A i \in DOMAIN c.slices : c.slices[i].from # Absent
Sane(c) == Basic(c) /\ c.limit \in 1..MaxSlices /\ Named(c)

LEMMA ContractVerdicts ==
  ASSUME NEW c
  PROVE  /\ PyContract(c) = IF ~Basic(c) THEN [error |-> "structure"]
                            ELSE IF c.limit \notin 1..MaxSlices THEN [error |-> "range"]
                            ELSE IF ~Named(c) \/ ~Policies(c) THEN [error |-> "structure"]
                            ELSE [error |-> "none", id |-> Preimage(c)]
         /\ GoContract(c) = IF ~Sane(c) THEN [error |-> "structure"]
                            ELSE [error |-> "none", id |-> Preimage(c)]
<1>1. PyContract(c) = IF ~Basic(c) THEN [error |-> "structure"]
                      ELSE IF c.limit \notin 1..MaxSlices THEN [error |-> "range"]
                      ELSE IF ~Named(c) \/ ~Policies(c) THEN [error |-> "structure"]
                      ELSE [error |-> "none", id |-> Preimage(c)]
  <2>1. Basic(c) <=> ~(c.accounting \notin Accounting \/ (\E pair \in Range(c.map) : ~is_public_id(pair[2]))
                         \/ c.router # "inactive-lru-v1")
    BY Zenon DEF Basic
  <2>2. ~Named(c) \/ ~Policies(c) <=>
          \/ ~NamesUnique(c.slices) \/ ~SelectsModel(c)
          \/ \E i \in DOMAIN c.slices : c.slices[i].from = Absent
          \/ ~Encodable(Names(c))
    BY Zenon DEF Named, Policies
  <2> QED BY <2>1, <2>2 DEF PyContract
<1>2. GoContract(c) = IF ~Sane(c) THEN [error |-> "structure"]
                      ELSE [error |-> "none", id |-> Preimage(c)]
  <2>1. ~GoChecks(c) \/ ~Encodable(Names(c)) <=> ~Sane(c)
    BY Zenon DEF GoChecks, Sane, Basic, Named
  <2> QED BY <2>1 DEF GoContract
<1> QED BY <1>1, <1>2

LEMMA SettingsSame ==
  ASSUME NEW c \in Configs
  PROVE  /\ GoContract(c) = GoContract(Filled(c))
         /\ PyContract(Filled(c)).error # "range" => PyContract(Filled(c)) = GoContract(c)
         /\ PyContract(c).error \in {"none", "range"} => PyContract(c) = PyContract(Filled(c))
<1> DEFINE F == Filled(c)
<1>1. SameBut(c, F) /\ F.map = c.map
  BY FilledSlice
<1>2. Policies(F)
  <2>1. /\ DOMAIN F.slices = DOMAIN c.slices
        /\ \A i \in DOMAIN c.slices :
             F.slices[i] = [name |-> c.slices[i].name, keys |-> c.slices[i].keys,
                            from |-> IF c.slices[i].from = Absent THEN <<>> ELSE c.slices[i].from]
    BY FilledSlice
  <2> HIDE DEF F
  <2>2. ASSUME NEW i \in DOMAIN c.slices PROVE F.slices[i].from # Absent
    <3> DEFINE from == IF c.slices[i].from = Absent THEN <<>> ELSE c.slices[i].from
    <3>1. F.slices[i] = [name |-> c.slices[i].name, keys |-> c.slices[i].keys, from |-> from]
      BY <2>1
    <3>2. from # Absent
      BY SettingsAssumption DEF SettingsAssumption
    <3> HIDE DEF from
    <3> QED BY <3>1, <3>2
  <2> QED BY <2>1, <2>2 DEF Policies
<1>3. (Basic(F) <=> Basic(c)) /\ F.limit = c.limit
  BY <1>1 DEF Basic, SameBut
<1>4. (Named(F) <=> Named(c)) /\ Preimage(F) = Preimage(c)
  BY FilledSame DEF Named
<1>5. Sane(F) <=> Sane(c)
  BY <1>3, <1>4 DEF Sane
<1> HIDE DEF F
<1>6. GoContract(c) = GoContract(F)
  BY <1>4, <1>5, ContractVerdicts
<1>7. PyContract(F).error # "range" => PyContract(F) = GoContract(c)
  BY <1>2, <1>3, <1>4, ContractVerdicts DEF Sane
<1>8. PyContract(c).error \in {"none", "range"} => PyContract(c) = PyContract(F)
  BY <1>2, <1>3, <1>4, ContractVerdicts
<1> QED BY <1>6, <1>7, <1>8 DEF F

LEMMA ContractAccepted ==
  ASSUME NEW c
  PROVE  /\ PyContract(c).error = "none" => Basic(c) /\ Named(c) /\ PyContract(c).id = Preimage(c)
         /\ GoContract(c).error = "none" => Basic(c) /\ Named(c) /\ GoContract(c).id = Preimage(c)
BY ContractVerdicts DEF Sane

-----------------------------------------------------------------------------
(* Models and their names.                                                 *)

LEMMA MapFacts ==
  ASSUME NEW map \in Seq(ObservedModel \X PublicName), MappedOnce(map), NEW name
  PROVE  /\ name \in Keys(map) <=> \E pair \in Range(map) : pair[1] = name
         /\ \A pair \in Range(map) : pair[1] \in Keys(map) /\ pair[1] \in ObservedModel
                                      /\ pair = <<pair[1], pair[2]>> /\ ValueOf(map, pair[1]) = pair[2]
         /\ name \in Keys(map) => <<name, ValueOf(map, name)>> \in Range(map)
<1>1. name \in Keys(map) <=> \E pair \in Range(map) : pair[1] = name
  BY DEF Keys
<1>2. \A pair \in Range(map) : pair[1] \in Keys(map) /\ pair \in ObservedModel \X PublicName
  BY DEF Keys, Range
<1>3. \A p, q \in Range(map) : p[1] = q[1] => p = q
  BY DEF MappedOnce, Range
<1>4. ASSUME NEW pair \in Range(map) PROVE ValueOf(map, pair[1]) = pair[2]
  <2>1. (CHOOSE p \in Range(map) : p[1] = pair[1]) = pair
    BY <1>3
  <2> QED BY <2>1 DEF ValueOf
<1>5. \A pair \in Range(map) : pair[1] \in ObservedModel /\ pair = <<pair[1], pair[2]>>
  BY <1>2
<1>6. ASSUME name \in Keys(map) PROVE <<name, ValueOf(map, name)>> \in Range(map)
  <2>1. PICK pair \in Range(map) : pair[1] = name
    BY <1>1, <1>6
  <2> QED BY <1>4, <1>5, <2>1
<1> QED BY <1>1, <1>2, <1>4, <1>5, <1>6

LEMMA Classified ==
  ASSUME NEW map \in Seq(ObservedModel \X PublicName), MappedOnce(map),
         \A pair \in Range(map) : is_public_id(pair[2]),
         NEW name, NEW verdict \in Classifications
  PROVE  LET said == IF verdict # "" THEN verdict
                     ELSE IF name \in Keys(map) THEN ValueOf(map, name) ELSE Unmapped
         IN /\ PyClassify(name, map, verdict) = said /\ GoClassify(name, map, verdict) = said
            /\ said \in PublicId \cup (Classifications \ {""}) \cup {Unmapped}
            /\ verdict = "" /\ name \in Keys(map) => said \in PublicId
<1> DEFINE value == IF name \in Keys(map) THEN ValueOf(map, name) ELSE Unmapped
<1>1. name \in Keys(map) => is_public_id(ValueOf(map, name)) /\ ValueOf(map, name) \in PublicId
  <2>1. name \in Keys(map) => <<name, ValueOf(map, name)>> \in Range(map)
    BY MapFacts
  <2>2. \A v : <<name, v>> \in Range(map) => v \in PublicId
    BY DEF is_public_id
  <2> QED BY <2>1, <2>2 DEF is_public_id
<1>2. PyClassify(name, map, verdict) = IF verdict # "" THEN verdict ELSE value
  BY <1>1 DEF PyClassify
<1>3. GoClassify(name, map, verdict) = IF verdict # "" THEN verdict ELSE value
  BY <1>1 DEF GoClassify
<1> QED BY <1>1, <1>2, <1>3

-----------------------------------------------------------------------------
(* Equal ids and equal settings.                                           *)

LEMMA WrittenList ==
  ASSUME NEW list, Range(list) \subseteq Text, list = [n \in DOMAIN list |-> list[n]]
  PROVE  AllWritten(list) = list
<1>1. \A n \in DOMAIN list : list[n] \in Text
  BY DEF Range
<1>2. AllWritten(list) = [n \in DOMAIN list |-> list[n]]
  BY <1>1 DEF AllWritten, Written
<1> QED BY <1>2

\* All that can be encoded is written as it is.
LEMMA PreimageFacts ==
  ASSUME NEW c \in Configs, MappedOnce(c.map), Encodable(Names(c))
  PROVE  Preimage(c) = [accounting |-> c.accounting, router |-> c.router, limit |-> c.limit,
                        selected |-> Written(c.selected), map |-> Range(c.map), slices |-> Resolved(c.slices)]
<1>1. \A x : x \in Names(c) => x \in Text
  BY DEF Encodable
<1>2. {<<Written(pair[1]), pair[2]>> : pair \in Range(c.map)} = Range(c.map)
  <2>1. \A pair \in Range(c.map) : pair[1] \in Keys(c.map) /\ pair = <<pair[1], pair[2]>>
    BY ConfigFacts, MapFacts
  <2>2. \A pair \in Range(c.map) : <<Written(pair[1]), pair[2]>> = pair
    BY <1>1, <2>1, NamesOf DEF Written
  <2> QED BY <2>2
<1> DEFINE Of(r) == [name |-> Written(r.name), keys |-> AllWritten(r.keys), from |-> AllWritten(r.from)]
<1>3. ASSUME NEW i \in DOMAIN c.slices
      PROVE  Of(Resolved(c.slices)[i]) = Resolved(c.slices)[i]
  <2> DEFINE s == c.slices[i]
             from == IF NoPolicy(s) THEN s.keys ELSE s.from
  <2>1. Resolved(c.slices)[i] = [name |-> s.name, keys |-> s.keys, from |-> from]
    BY <1>3, ResolvedSlice
  <2>2. /\ s.name \in Text /\ Range(s.keys) \subseteq Text
        /\ s.from # Absent => Range(s.from) \subseteq Text
    BY <1>1, <1>3, NamesOf
  <2>3. /\ s.keys \in Seq(STRING) /\ (s.from # Absent => s.from \in Seq(STRING))
    BY <1>3, ConfigFacts
  <2>4. from \in Seq(STRING) /\ Range(from) \subseteq Text
    BY <2>2, <2>3 DEF NoPolicy
  <2> HIDE DEF from, s
  <2>5. \A q \in Seq(STRING) : q = [n \in DOMAIN q |-> q[n]]
    OBVIOUS
  <2>6. AllWritten(s.keys) = s.keys /\ AllWritten(from) = from /\ Written(s.name) = s.name
    BY <2>2, <2>3, <2>4, <2>5, WrittenList DEF Written
  <2> QED BY <2>1, <2>6
<1>4. [i \in DOMAIN c.slices |-> Of(Resolved(c.slices)[i])] = Resolved(c.slices)
  <2>1. Resolved(c.slices) = [i \in DOMAIN c.slices |-> Resolved(c.slices)[i]]
    BY DEF Resolved
  <2> HIDE DEF Of
  <2> QED BY <1>3, <2>1
<1> QED BY <1>2, <1>4 DEF Preimage

LEMMA IdsBind ==
  ASSUME NEW c \in Configs, MappedOnce(c.map), NEW d \in Configs, MappedOnce(d.map), SameBut(c, d),
         Basic(c), Named(c), Basic(d), Named(d)
  PROVE  Preimage(c) = Preimage(d) <=>
           /\ \A name \in ObservedModel : PyClassify(name, c.map, "") = GoClassify(name, d.map, "")
           /\ Keys(c.map) = Keys(d.map)
           /\ Resolved(c.slices) = Resolved(d.slices)
<1>1. /\ Preimage(c) = [accounting |-> c.accounting, router |-> c.router, limit |-> c.limit,
                        selected |-> Written(c.selected), map |-> Range(c.map), slices |-> Resolved(c.slices)]
      /\ Preimage(d) = [accounting |-> d.accounting, router |-> d.router, limit |-> d.limit,
                        selected |-> Written(d.selected), map |-> Range(d.map), slices |-> Resolved(d.slices)]
  BY PreimageFacts DEF Named
<1>2. Preimage(c) = Preimage(d) <=> Range(c.map) = Range(d.map) /\ Resolved(c.slices) = Resolved(d.slices)
  <2>1. c.accounting = d.accounting /\ c.router = d.router /\ c.limit = d.limit /\ c.selected = d.selected
    BY DEF SameBut
  <2>2. Preimage(c).map = Range(c.map) /\ Preimage(c).slices = Resolved(c.slices)
        /\ Preimage(d).map = Range(d.map) /\ Preimage(d).slices = Resolved(d.slices)
    BY <1>1
  <2> QED BY <1>1, <2>1, <2>2
<1>3. /\ c.map \in Seq(ObservedModel \X PublicName) /\ d.map \in Seq(ObservedModel \X PublicName)
      /\ \A pair \in Range(c.map) : is_public_id(pair[2])
      /\ \A pair \in Range(d.map) : is_public_id(pair[2])
  BY ConfigFacts DEF Basic
<1>4. \A name :
        /\ PyClassify(name, c.map, "") = IF name \in Keys(c.map) THEN ValueOf(c.map, name) ELSE Unmapped
        /\ GoClassify(name, d.map, "") = IF name \in Keys(d.map) THEN ValueOf(d.map, name) ELSE Unmapped
  BY <1>3, Classified DEF Classifications
<1>5. ASSUME Range(c.map) = Range(d.map)
      PROVE  /\ \A name \in ObservedModel : PyClassify(name, c.map, "") = GoClassify(name, d.map, "")
             /\ Keys(c.map) = Keys(d.map)
  <2>1. Keys(c.map) = Keys(d.map) /\ \A name : ValueOf(c.map, name) = ValueOf(d.map, name)
    BY <1>5 DEF Keys, ValueOf
  <2> QED BY <1>4, <2>1
<1>6. ASSUME \A name \in ObservedModel : PyClassify(name, c.map, "") = GoClassify(name, d.map, ""),
             Keys(c.map) = Keys(d.map)
      PROVE  Range(c.map) = Range(d.map)
  <2>1. \A name \in ObservedModel : name \in Keys(c.map) => ValueOf(c.map, name) = ValueOf(d.map, name)
    BY <1>4, <1>6
  <2>2. ASSUME NEW pair \in Range(c.map) PROVE pair \in Range(d.map)
    <3>1. pair[1] \in Keys(c.map) /\ pair[1] \in ObservedModel /\ pair = <<pair[1], ValueOf(c.map, pair[1])>>
      BY <1>3, <2>2, MapFacts
    <3>2. <<pair[1], ValueOf(d.map, pair[1])>> \in Range(d.map)
      BY <1>3, <1>6, <3>1, MapFacts
    <3> QED BY <2>1, <3>1, <3>2
  <2>3. ASSUME NEW pair \in Range(d.map) PROVE pair \in Range(c.map)
    <3>1. pair[1] \in Keys(d.map) /\ pair[1] \in ObservedModel /\ pair = <<pair[1], ValueOf(d.map, pair[1])>>
      BY <1>3, <2>3, MapFacts
    <3>2. <<pair[1], ValueOf(c.map, pair[1])>> \in Range(c.map)
      BY <1>3, <1>6, <3>1, MapFacts
    <3> QED BY <1>6, <2>1, <3>1, <3>2
  <2> QED BY <2>2, <2>3
<1> QED BY <1>2, <1>5, <1>6

(* Whatever the settings and the strings in them: two producers are given  *)
(* one contract id exactly if they name every model alike and read their   *)
(* slices from the same places, both languages take the same settings, and *)
(* under settings that were taken every model has one public name.         *)
THEOREM SameContractCorrect == IdentitySpec => []SameContract
<1>1. ConfigInv => SettingsAgree
  BY SettingsSame DEF ConfigInv, SettingsAgree
<1>2. ConfigInv => IdBinds
  <2> SUFFICES ASSUME ConfigInv, PyContract(config).error = "none", GoContract(peer).error = "none"
               PROVE  PyContract(config).id = GoContract(peer).id <=>
                        /\ \A name \in ObservedModel : PyClassify(name, config.map, "") = GoClassify(name, peer.map, "")
                        /\ Keys(config.map) = Keys(peer.map)
                        /\ Resolved(config.slices) = Resolved(peer.slices)
    BY DEF IdBinds
  <2>1. /\ Basic(config) /\ Named(config) /\ PyContract(config).id = Preimage(config)
        /\ Basic(peer) /\ Named(peer) /\ GoContract(peer).id = Preimage(peer)
    BY ContractAccepted
  <2> QED BY <2>1, IdsBind DEF ConfigInv
<1>3. ConfigInv => ClassificationTotal
  <2> SUFFICES ASSUME ConfigInv, PyContract(config).error = "none",
                      NEW name \in ObservedModel, NEW verdict \in Classifications
               PROVE  /\ PyClassify(name, config.map, verdict) = GoClassify(name, config.map, verdict)
                      /\ PyClassify(name, config.map, verdict)
                           \in PublicId \cup (Classifications \ {""}) \cup {Unmapped}
    BY DEF ClassificationTotal
  <2>1. Basic(config)
    BY ContractAccepted
  <2>2. config.map \in Seq(ObservedModel \X PublicName) /\ MappedOnce(config.map)
    BY ConfigFacts DEF ConfigInv
  <2> DEFINE said == IF verdict # "" THEN verdict
                     ELSE IF name \in Keys(config.map) THEN ValueOf(config.map, name) ELSE Unmapped
  <2>3. \A pair \in Range(config.map) : is_public_id(pair[2])
    BY <2>1 DEF Basic
  <2>4. /\ PyClassify(name, config.map, verdict) = said /\ GoClassify(name, config.map, verdict) = said
        /\ said \in PublicId \cup (Classifications \ {""}) \cup {Unmapped}
    BY <2>2, <2>3, Classified
  <2> HIDE DEF said
  <2> QED BY <2>4
<1> QED BY <1>1, <1>2, <1>3, ConfigInvariant, PTL DEF SameContract
=============================================================================

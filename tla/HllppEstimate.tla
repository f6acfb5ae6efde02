---------------------------- MODULE HllppEstimate ----------------------------
(***************************************************************************)
(* What HLL++ estimates from its registers: linear counting while there    *)
(* are registers to spare, and otherwise the raw estimate less the bias    *)
(* that was measured nearby.  Numbers are thousandths.  The additions,     *)
(* whose order spec/profiles.md (lines 46-52) prescribes, are made one by  *)
(* one and rounded as binary64 rounds them; a quotient is cut off.         *)
(***************************************************************************)
EXTENDS Hllpp, SequencesExt

CONSTANTS
  Significand, \* the bits that an addition keeps, 53 of them in binary64
  Log,         \* n * ln(n / (n - occupied)) for pairs <<n, occupied>>
  RawEstimate, \* RAW_ESTIMATE_DATA of the precision
  Bias         \* BIAS_DATA, which belongs to it

ASSUME EstimateAssumption == Significand \in Nat \ {0} /\ Len(Bias) = Len(RawEstimate)

\* An addition: the nearest number that the significand holds, and of two that
\* are equally near the even one.
Ulp[magnitude \in Nat] ==
  IF magnitude < 2 ^ Significand THEN 1 ELSE 2 * Ulp[magnitude \div 2]
Rounded(x) ==
  LET magnitude == IF x < 0 THEN -x ELSE x
      ulp == Ulp[magnitude]
      low == magnitude \div ulp
      up == \/ 2 * (magnitude % ulp) > ulp
            \/ 2 * (magnitude % ulp) = ulp /\ low % 2 = 1
      nearest == ulp * IF up THEN low + 1 ELSE low
  IN IF x < 0 THEN -nearest ELSE nearest
Plus(x, y) == Rounded(x + y)
LeftToRight(terms) == FoldLeft(Plus, 0, terms)

LinearCounting(n, occupied) ==
  IF occupied = 0 THEN 0 ELSE IF occupied >= n THEN 1000 * n ELSE Log[n, occupied]

Alpha(m) ==
  IF m \in {16, 32, 64} THEN (16 :> 673 @@ 32 :> 697 @@ 64 :> 709)[m]
  ELSE (721300 * m) \div (1000 * m + 1079)

LinearCountingThreshold(p) ==
  LET thresholds == <<10, 20, 40, 80, 220, 400, 900, 1800, 3100, 6500, 11500, 20000, 50000, 120000, 350000>>
  IN 1000 * IF p \in 4..18 THEN thresholds[p - 3] ELSE (5 * 2 ^ p) \div 2

\* The six entries nearest to the estimate, in the order in which their biases
\* are added: Python's sort leaves entries that are equally far as the table has
\* them, and sort.Slice may put any of them first.
Neighbours == IF Len(Bias) < 6 THEN Len(Bias) ELSE 6
Distance(estimate, i) == (estimate - RawEstimate[i]) ^ 2
Nearer(estimate, i, j) ==
  \/ Distance(estimate, i) < Distance(estimate, j)
  \/ Distance(estimate, i) = Distance(estimate, j) /\ i < j
PyOrder(estimate) ==
  SubSeq(SortSeq([i \in DOMAIN Bias |-> i], LAMBDA i, j : Nearer(estimate, i, j)), 1, Neighbours)
Closest(estimate, S) ==
  LET least == Min({Distance(estimate, i) : i \in S})
  IN {i \in S : Distance(estimate, i) = least}
GoOrders(estimate) ==
  LET first[n \in Nat] ==
        IF n = 0 THEN {<<>>}
        ELSE UNION {{Append(q, i) : i \in Closest(estimate, DOMAIN Bias \ ToSet(q))} : q \in first[n - 1]}
  IN first[Neighbours]

Biases(order) == [k \in DOMAIN order |-> Bias[order[k]]]
Mean(total) == IF Bias = <<>> THEN 0 ELSE total \div Neighbours
(* mutant: Python's sum(), whose running error is added back at the end *)
PyBiasCompensated(estimate) ==
  Mean(Rounded(FoldLeft(LAMBDA x, y : x + y, 0, Biases(PyOrder(estimate)))))
PyBias(estimate) == Mean(LeftToRight(Biases(PyOrder(estimate))))
GoBiases(estimate) == {Mean(LeftToRight(Biases(q))) : q \in GoOrders(estimate)}

\* The dense estimate, given the bias of the raw one.  The reciprocals of the
\* registers, in units of 2^-Width, are added in the order of their indexes.
Raw(registers) ==
  LET m == 2 ^ P
  IN (Alpha(m) * m * m * 2 ^ Width)
       \div LeftToRight([i \in 1..m |-> 2 ^ (Width - registers[i - 1])])
Biased(registers) == Raw(registers) <= 5000 * 2 ^ P
Occupied(registers) == Cardinality({i \in DOMAIN registers : registers[i] # 0})
DenseEstimate(registers, bias) ==
  LET m == 2 ^ P
      lc == LinearCounting(m, Occupied(registers))
  IN IF Occupied(registers) < m /\ lc <= LinearCountingThreshold(P) THEN lc
     ELSE IF Biased(registers) THEN Raw(registers) - bias
     ELSE Raw(registers)

PyEstimate(s) ==
  IF mode[s] = "sparse" THEN LinearCounting(2 ^ SP, Cardinality(DOMAIN sparse[s]))
  ELSE DenseEstimate(dense[s], PyBias(Raw(dense[s])))
GoEstimates(s) ==
  IF mode[s] = "sparse" THEN {LinearCounting(2 ^ SP, Cardinality(DOMAIN sparse[s]))}
  ELSE {DenseEstimate(dense[s], bias) :
          bias \in IF Biased(dense[s]) THEN GoBiases(Raw(dense[s])) ELSE {0}}
-----------------------------------------------------------------------------
(* Each occupied register is the work of some hash of its own, and the     *)
(* estimate never says less, in either representation and on both sides of *)
(* the threshold; nothing is estimated of a sketch that is empty, also     *)
(* after it was made dense.                                                *)
Witnessed(s) ==
  LET occupied == IF mode[s] = "sparse" THEN Cardinality(DOMAIN sparse[s]) ELSE Occupied(dense[s])
  IN PyEstimate(s) >= 1000 * occupied /\ (PyEstimate(s) = 0 <=> occupied = 0)

(* Go adds the same biases as Python in the same order, so that the sums   *)
(* are rounded alike and the estimates are equal, unless an entry that     *)
(* counts is as far from the raw estimate as another: then sort.Slice may  *)
(* add the two in either order, or take the other one for the sixth.       *)
(* Python's estimate is always one of those that Go may give.              *)
Tie(registers) ==
  /\ Biased(registers)
  /\ \E i \in ToSet(PyOrder(Raw(registers))), j \in DOMAIN Bias :
       i # j /\ Distance(Raw(registers), i) = Distance(Raw(registers), j)
EstimateSound ==
  \A s \in Sketch :
    LET go == GoEstimates(s)
    IN /\ Witnessed(s)
       /\ PyEstimate(s) \in go
       /\ Cardinality(go) = 1 \/ (mode[s] = "dense" /\ Tie(dense[s]))
=============================================================================

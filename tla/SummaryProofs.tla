---------------------------- MODULE SummaryProofs ----------------------------
(***************************************************************************)
(* Proofs about summaries, in three parts.                                 *)
(*                                                                         *)
(* Reading one (SummaryIntake), whatever the tables of names and limits,   *)
(* the profiles and the width of the integers: neither scan nests deeper   *)
(* than seven containers; the two scans run side by side, one of them      *)
(* ahead by the name before a colon; the two checks of an envelope and the *)
(* two parsers of a payload decide alike; and so both languages accept the *)
(* same documents.                                                         *)
(*                                                                         *)
(* Combining them (SummaryBatch), for every sequence of documents: each    *)
(* phase of either language is a fold, the fold is its last step, and what *)
(* a step has found is said of the set of documents read so far.           *)
(*                                                                         *)
(* Exchanging them (SummaryExchange), for any number of producers: the     *)
(* requests handled are a set, of which every snapshot tells a part.       *)
(***************************************************************************)
EXTENDS SummaryIntake, SummaryBatch, SummaryExchange, SumTheorems, SequenceTheorems

-----------------------------------------------------------------------------
(* Reading a summary. *)

\* The deepest place of an object of each kind: the number of frames under it.
\* What is no object has no place.
Level(kind) ==
  IF kind = NoKind THEN 0
  ELSE IF kind = "root" THEN 1
  ELSE IF kind \in {"counters", "sketches", "extension"} THEN 2
  ELSE IF kind \in {"payload", "models"} THEN 3
  ELSE IF kind = "row" THEN 4
  ELSE IF kind \in {"fields", "excluded", "provenance", "bin"} THEN 5
  ELSE IF kind \in {"field", "origin", "cohort", "reported"} THEN 6
  ELSE -1

ObjectKinds == {NoKind, "root", "counters", "sketches", "extension", "payload", "models", "row", "fields",
          "excluded", "provenance", "bin", "field", "origin", "cohort", "reported", "scalar", "histogram"}
Reasons == Outcome \cup {"reading"}
Place == {"object", "member", "key", "colon", "scalar", "array", "comma", "close", "done"}
Names == {S \in SUBSET (Key \cup {NoKind}) : IsFiniteSet(S)}
Frames == [kind : ObjectKinds, seen : Names, key : Key \cup {NoKind}, bins : Nat]
Scans == [at : Place, want : ObjectKinds, top : Frames, under : Seq(Frames),
          present : BOOLEAN, ill : BOOLEAN, out : Reasons]

\* No frame lies higher on the stack than its kind can; the bins of a
\* histogram are counted in rows only; the lowest frame is of no kind.
Nested(s) == /\ \A i \in 1..Len(s.under) : i - 1 <= Level(s.under[i].kind)
             /\ Len(s.under) <= Level(s.top.kind)
Rows(s) == /\ \A i \in 1..Len(s.under) : s.under[i].bins # 0 => s.under[i].kind = "row"
           /\ s.top.bins # 0 => s.top.kind = "row"
           /\ s.at \in {"array", "comma"} => s.top.kind = "row"
Based(s) == /\ s.under # <<>> => s.under[1].kind = NoKind
            /\ s.under = <<>> => s.top.kind = NoKind
            /\ s.at \notin {"object", "done"} => s.under # <<>>
Wanted(s) == s.at = "object" => Len(s.under) + 1 <= Level(s.want)
ScanInv(s) == s \in Scans /\ Nested(s) /\ Rows(s) /\ Based(s) /\ Wanted(s)

-----------------------------------------------------------------------------
LEMMA LevelType == ASSUME NEW kind PROVE Level(kind) \in -1..6
BY DEF Level

(* Whatever is nested in an object lies deeper than it, and only a row has *)
(* a histogram.                                                            *)
LEMMA ChildDeeper ==
  ASSUME NEW kind \in ObjectKinds, NEW key
  PROVE  /\ Child(kind, key) \in ObjectKinds
         /\ Child(kind, key) = "histogram" => kind = "row"
         /\ Child(kind, key) \notin {"scalar", "histogram"} => Level(kind) + 1 <= Level(Child(kind, key))
<1> DEFINE child == Child(kind, key)
<1> HIDE DEF child
<1> SUFFICES /\ child \in ObjectKinds
             /\ child = "histogram" => kind = "row"
             /\ child \notin {"scalar", "histogram"} => Level(kind) + 1 <= Level(child)
  BY DEF child
<1>1. CASE kind \in {"models", "fields", "provenance", "sketches"}
  <2>1. child = (IF kind = "models" THEN "row" ELSE IF kind = "fields" THEN "field"
                            ELSE IF kind = "provenance" THEN "origin" ELSE "payload")
    BY <1>1 DEF child, Child, Repeated
  <2> QED BY <1>1, <2>1 DEF Level, ObjectKinds, NoKind
<1>2. CASE kind = "root"
  <2>1. child \in {"counters", "sketches", "extension", "scalar"}
    BY <1>2 DEF child, Child, Repeated, Children
  <2> QED BY <1>2, <2>1 DEF Level, ObjectKinds, NoKind
<1>3. CASE kind = "extension"
  <2>1. child \in {"models", "scalar"}
    BY <1>3 DEF child, Child, Repeated, Children
  <2> QED BY <1>3, <2>1 DEF Level, ObjectKinds, NoKind
<1>4. CASE kind = "row"
  <2>1. child \in {"fields", "cohort", "histogram", "excluded", "provenance", "scalar"}
    BY <1>4 DEF child, Child, Repeated, Children
  <2> QED BY <1>4, <2>1 DEF Level, ObjectKinds, NoKind
<1>5. CASE kind = "bin"
  <2>1. child \in {"reported", "cohort", "scalar"}
    BY <1>5 DEF child, Child, Repeated, Children
  <2> QED BY <1>5, <2>1 DEF Level, ObjectKinds, NoKind
<1>6. CASE kind \notin {"models", "fields", "provenance", "sketches", "root", "extension", "row", "bin"}
  <2>1. child = "scalar"
    BY <1>6 DEF child, Child, Repeated, Children
  <2> QED BY <2>1 DEF ObjectKinds
<1> QED BY <1>1, <1>2, <1>3, <1>4, <1>5, <1>6

LEMMA RefuseKeeps ==
  ASSUME NEW s, ScanInv(s), NEW reason \in Reasons
  PROVE  ScanInv(Refuse(s, reason))
BY DEF ScanInv, Scans, Nested, Rows, Based, Wanted, Refuse

LEMMA StartInv ==
  ASSUME NEW out \in Reasons
  PROVE  ScanInv(Start(out))
<1>0. Level(NoKind) = 0 /\ Level("root") = 1
  BY DEF Level, NoKind
<1>1. Frame(NoKind) \in Frames
  BY FS_EmptySet DEF Frame, Frames, Names, ObjectKinds, NoKind
<1>2. Start(out) \in Scans
  BY <1>1 DEF Scans, Start, Place, ObjectKinds
<1> QED BY <1>0, <1>1, <1>2 DEF ScanInv, Nested, Rows, Based, Wanted, Start, Frame

(* An object is entered: its frame is one higher than the one it is in.    *)
LEMMA EnterKeeps ==
  ASSUME NEW s, ScanInv(s), s.at = "object"
  PROVE  ScanInv(Enter(s))
<1> DEFINE e == Enter(s)
<1>1. /\ s \in Scans /\ s.top \in Frames /\ s.under \in Seq(Frames)
      /\ Frame(s.want) \in Frames
  BY FS_EmptySet DEF ScanInv, Scans, Wanted, Frame, Frames, Names
<1>a. Append(s.under, s.top) \in Seq(Frames)
  BY <1>1
<1>2. /\ e.top = Frame(s.want) /\ e.under = Append(s.under, s.top) /\ e.at = "member" /\ e.want = s.want
      /\ e \in Scans
  BY <1>1, <1>a DEF Enter, Scans, Place
<1>3. /\ Len(e.under) = Len(s.under) + 1
      /\ \A i \in 1..Len(s.under) : e.under[i] = s.under[i]
      /\ e.under[Len(s.under) + 1] = s.top
  BY <1>1, <1>2
<1>4. e.top.kind = s.want /\ e.top.bins = 0
  BY <1>2 DEF Frame
<1> HIDE DEF e
<1>5. Nested(e)
  <2>1. ASSUME NEW i \in 1..Len(e.under) PROVE i - 1 <= Level(e.under[i].kind)
    <3>1. CASE i \in 1..Len(s.under)
      BY <1>3, <3>1 DEF ScanInv, Nested
    <3>2. CASE i = Len(s.under) + 1
      BY <1>1, <1>3, <3>2 DEF ScanInv, Nested
    <3> QED BY <1>1, <1>3, <3>1, <3>2
  <2>2. Len(e.under) <= Level(e.top.kind)
    BY <1>3, <1>4 DEF ScanInv, Wanted
  <2> QED BY <2>1, <2>2 DEF Nested
<1>6. Rows(e)
  BY <1>1, <1>2, <1>3, <1>4 DEF ScanInv, Rows
<1>7. Based(e)
  BY <1>1, <1>2, <1>3 DEF ScanInv, Based
<1>8. Wanted(e)
  BY <1>2 DEF Wanted
<1> QED BY <1>2, <1>5, <1>6, <1>7, <1>8 DEF e, ScanInv

(* An object ends, and the one around it goes on.                          *)
LEMMA LeaveKeeps ==
  ASSUME NEW s, ScanInv(s), s.at = "member", NEW shapeError \in BOOLEAN
  PROVE  ScanInv(Leave(s, shapeError))
<1> DEFINE e == Leave(s, shapeError)
           n == Len(s.under)
           outer == s.under[n]
<1>1. /\ s \in Scans /\ s.under \in Seq(Frames) /\ n \in Nat \ {0} /\ outer \in Frames
  BY DEF ScanInv, Scans, Based
<1>2. SubSeq(s.under, 1, n - 1) \in Seq(Frames)
  BY <1>1
<1>3. /\ e.top = outer /\ e.under = SubSeq(s.under, 1, n - 1) /\ e.want = s.want
      /\ e.at = (IF outer.kind = NoKind THEN "done"
                 ELSE IF outer.bins = 0 THEN "member" ELSE IF outer.bins < Bins THEN "comma" ELSE "close")
      /\ e \in Scans
  BY <1>1, <1>2 DEF Leave, Scans, Place
<1>4. Len(e.under) = n - 1 /\ \A i \in 1 .. n - 1 : e.under[i] = s.under[i]
  BY <1>1, <1>3
<1> HIDE DEF e
<1>5. Nested(e)
  BY <1>1, <1>3, <1>4, LevelType DEF ScanInv, Nested
<1>6. Rows(e)
  BY <1>1, <1>3, <1>4 DEF ScanInv, Rows
<1>7. Based(e)
  <2>1. s.under[1].kind = NoKind
    BY <1>1 DEF ScanInv, Based
  <2>2. n = 1 => e.at = "done" /\ e.top.kind = NoKind
    BY <2>1, <1>3
  <2>3. n # 1 => e.under # <<>> /\ e.under[1].kind = NoKind
    <3> HIDE DEF n
    <3>1. n # 1 => 1 \in 1 .. n - 1 /\ Len(e.under) # 0
      BY <1>1, <1>4
    <3>2. n # 1 => e.under[1] = s.under[1]
      BY <3>1, <1>4
    <3>3. Len(e.under) # 0 => e.under # <<>>
      OBVIOUS
    <3> QED BY <2>1, <3>1, <3>2, <3>3
  <2>4. n = 1 => e.under = <<>>
    BY <1>1, <1>3, <1>4
  <2>5. CASE n = 1
    BY <2>2, <2>4, <2>5 DEF Based
  <2>6. CASE n # 1
    BY <2>3, <2>6 DEF Based
  <2> QED BY <2>5, <2>6
<1>8. Wanted(e)
  BY <1>3 DEF Wanted
<1> QED BY <1>3, <1>5, <1>6, <1>7, <1>8 DEF e, ScanInv
-----------------------------------------------------------------------------
LEMMA SameStack ==
  ASSUME NEW s, ScanInv(s), s.under # <<>>, NEW e \in Scans,
         e.under = s.under, e.top.kind = s.top.kind, e.top.bins \in {0, s.top.bins},
         e.at \in {"member", "key", "colon", "scalar"}
  PROVE  ScanInv(e)
BY DEF ScanInv, Nested, Rows, Based, Wanted

(* What follows a colon is a scalar, the array of a row, or an object that *)
(* lies deeper.                                                            *)
LEMMA ExpectKeeps ==
  ASSUME NEW s, ScanInv(s), s.under # <<>>, NEW key
  PROVE  ScanInv(Expect(s, Child(s.top.kind, key)))
<1> DEFINE child == Child(s.top.kind, key)
<1>1. s.top.kind \in ObjectKinds
  BY DEF ScanInv, Scans, Frames
<1>2. /\ child \in ObjectKinds
      /\ child = "histogram" => s.top.kind = "row"
      /\ child \notin {"scalar", "histogram"} => Level(s.top.kind) + 1 <= Level(child)
  BY <1>1, ChildDeeper
<1> HIDE DEF child
<1>3. child \notin {"scalar", "histogram"} => Len(s.under) + 1 <= Level(child)
  BY <1>1, <1>2, LevelType DEF ScanInv, Nested, Scans
<1> DEFINE e == Expect(s, child)
<1>4. /\ e \in Scans /\ e.top = s.top /\ e.under = s.under /\ e.want = child
      /\ e.at = (IF child = "scalar" THEN "scalar" ELSE IF child = "histogram" THEN "array" ELSE "object")
  BY <1>2 DEF Expect, ScanInv, Scans, Place
<1> HIDE DEF e
<1>5. ScanInv(e)
  BY <1>2, <1>3, <1>4 DEF ScanInv, Nested, Rows, Based, Wanted
<1> QED BY <1>5 DEF e, child

LEMMA NextBinKeeps ==
  ASSUME NEW s, ScanInv(s), s.at \in {"array", "comma"}
  PROVE  ScanInv(NextBin(s))
<1> DEFINE e == NextBin(s)
<1>1. s \in Scans /\ s.top \in Frames /\ s.top.kind = "row" /\ s.under # <<>> /\ s.under \in Seq(Frames)
  BY DEF ScanInv, Scans, Rows, Based
<1>a. [s.top EXCEPT !.bins = @ + 1] \in Frames /\ [s.top EXCEPT !.bins = @ + 1].kind = "row"
  BY <1>1 DEF Frames
<1>b. "bin" \in ObjectKinds /\ "object" \in Place
  BY DEF ObjectKinds, Place
<1>2. /\ e.at = "object" /\ e.want = "bin" /\ e.under = s.under /\ e.top.kind = "row"
      /\ e \in Scans
  BY <1>1, <1>a, <1>b DEF NextBin, Scans
<1>3. Level("row") = 4 /\ Level("bin") = 5
  BY DEF Level, NoKind
<1> HIDE DEF e
<1>4. ScanInv(e)
  BY <1>1, <1>2, <1>3 DEF ScanInv, Nested, Rows, Based, Wanted
<1> QED BY <1>4 DEF e

LEMMA EndBinsKeeps ==
  ASSUME NEW s, ScanInv(s), s.at = "close"
  PROVE  ScanInv(EndBins(s))
<1> DEFINE e == EndBins(s)
<1>1. s \in Scans /\ s.top \in Frames /\ s.under # <<>>
  BY DEF ScanInv, Scans, Based
<1>2. /\ e.at = "member" /\ e.under = s.under /\ e.top.kind = s.top.kind /\ e.top.bins = 0
      /\ e \in Scans
  BY <1>1 DEF EndBins, Scans, Frames, Place
<1> HIDE DEF e
<1> QED BY <1>1, <1>2, SameStack DEF e

LEMMA MoveKeeps ==
  ASSUME NEW s, ScanInv(s), s.under # <<>>, NEW at \in {"member", "key", "colon", "scalar"}
  PROVE  ScanInv([s EXCEPT !.at = at])
<1>1. s \in Scans /\ at \in Place
  BY DEF ScanInv, Place
<1> DEFINE e == [s EXCEPT !.at = at]
<1>2. e \in Scans /\ e.under = s.under /\ e.top = s.top /\ e.at = at
  BY <1>1 DEF Scans
<1> HIDE DEF e
<1> QED BY <1>2, SameStack DEF e

(* A name is noted, or entered among those seen.                           *)
LEMMA NameKeeps ==
  ASSUME NEW s, ScanInv(s), s.under # <<>>, NEW f \in Frames,
         f.kind = s.top.kind, f.bins = s.top.bins, NEW present \in BOOLEAN
  PROVE  /\ ScanInv([s EXCEPT !.at = "colon", !.top = f])
         /\ ScanInv([s EXCEPT !.at = "colon", !.top = f, !.present = present])
         /\ s.at = "colon" => ScanInv([s EXCEPT !.top = f, !.present = present])
<1>1. s \in Scans /\ "colon" \in Place
  BY DEF ScanInv, Place
<1> DEFINE d == [s EXCEPT !.at = "colon", !.top = f]
           e == [s EXCEPT !.at = "colon", !.top = f, !.present = present]
           g == [s EXCEPT !.top = f, !.present = present]
<1>2. d \in Scans /\ d.under = s.under /\ d.top = f /\ d.at = "colon"
  BY <1>1 DEF Scans
<1>3. e \in Scans /\ e.under = s.under /\ e.top = f /\ e.at = "colon"
  BY <1>1 DEF Scans
<1>4. g \in Scans /\ g.under = s.under /\ g.top = f /\ g.at = s.at
  BY <1>1 DEF Scans
<1> HIDE DEF d, e, g
<1>5. ScanInv(d) /\ ScanInv(e)
  BY <1>2, <1>3, SameStack
<1>6. s.at = "colon" => ScanInv(g)
  BY <1>4, SameStack
<1> QED BY <1>5, <1>6 DEF d, e, g

-----------------------------------------------------------------------------
(* The parts that the two scans share: what a scan knows when it takes a   *)
(* step, and the reasons it may give.                                      *)
LEMMA ScanFacts ==
  ASSUME NEW s, ScanInv(s)
  PROVE  /\ s.at \in Place /\ s.top \in Frames /\ s.present \in BOOLEAN
         /\ s.at \notin {"object", "done"} => s.under # <<>>
         /\ \A reason \in {"syntax", "structure", "model_count", "ok"} : ScanInv(Refuse(s, reason))
<1>1. {"syntax", "structure", "model_count", "ok"} \subseteq Reasons
  BY DEF Reasons, Outcome
<1> QED BY <1>1, RefuseKeeps DEF ScanInv, Scans, Based

LEMMA PyKeyKeeps ==
  ASSUME NEW s, ScanInv(s), s.at \in {"member", "key"}, NEW t
  PROVE  ScanInv(PyKey(s, t))
<1>1. CASE t \in Key /\ t \notin s.top.seen
  <2> DEFINE f == [s.top EXCEPT !.key = t]
  <2>1. f \in Frames /\ f.kind = s.top.kind /\ f.bins = s.top.bins
    BY <1>1, ScanFacts DEF Frames
  <2>2. [s EXCEPT !.at = "colon", !.top.key = t] = [s EXCEPT !.at = "colon", !.top = f]
    BY ScanFacts DEF ScanInv, Scans
  <2> HIDE DEF f
  <2>3. ScanInv([s EXCEPT !.at = "colon", !.top = f])
    BY <2>1, NameKeeps, ScanFacts
  <2> QED BY <1>1, <2>2, <2>3 DEF PyKey
<1>2. CASE ~(t \in Key /\ t \notin s.top.seen)
  BY <1>2, ScanFacts DEF PyKey
<1> QED BY <1>1, <1>2

LEMMA PyMemberKeeps ==
  ASSUME NEW s, ScanInv(s), s.at = "member", NEW t
  PROVE  ScanInv(PyMember(s, t))
<1>1. CASE t = "}"
  <2> DEFINE shapeError == /\ s.top.kind \in DOMAIN Shape
                           /\ s.top.seen # Shape[s.top.kind] \cup
                                (IF s.top.kind = "root" THEN s.top.seen \cap {"model_usage"} ELSE {})
  <2>1. PyMember(s, t) = Leave(s, shapeError)
    BY <1>1 DEF PyMember
  <2>2. shapeError \in BOOLEAN
    OBVIOUS
  <2> HIDE DEF shapeError
  <2> QED BY <2>1, <2>2, LeaveKeeps
<1>2. CASE t # "}"
  <2>1. PyMember(s, t) \in {PyKey(s, t), [s EXCEPT !.at = "key"]}
                            \cup {Refuse(s, reason) : reason \in {"syntax", "structure", "model_count"}}
    BY <1>2 DEF PyMember
  <2>2. ScanInv([s EXCEPT !.at = "key"])
    BY MoveKeeps, ScanFacts
  <2> QED BY <2>1, <2>2, PyKeyKeeps, ScanFacts
<1> QED BY <1>1, <1>2

LEMMA PyColonKeeps ==
  ASSUME NEW s, ScanInv(s), s.at = "colon", NEW t
  PROVE  ScanInv(PyColon(s, t))
<1> DEFINE key == s.top.key
           f == [s.top EXCEPT !.seen = @ \cup {key}]
           present == s.present \/ (f.kind = "root" /\ key = "model_usage")
           e == [s EXCEPT !.top = f, !.present = present]
<1>1. f \in Frames /\ f.kind = s.top.kind /\ f.bins = s.top.bins /\ present \in BOOLEAN
  <2>1. s.top \in Frames /\ s.top.seen \cup {key} \in Names
    BY ScanFacts, FS_AddElement DEF Frames, Names
  <2>2. f \in Frames /\ f.kind = s.top.kind /\ f.bins = s.top.bins
    BY <2>1 DEF Frames
  <2>3. present \in BOOLEAN
    OBVIOUS
  <2> QED BY <2>2, <2>3
<1>2. PyColon(s, t) \in {Expect(e, Child(f.kind, key))}
                           \cup {Refuse(s, reason) : reason \in {"syntax", "structure", "model_count"}}
  BY ScanFacts DEF PyColon, ScanInv, Scans
<1>3. e.top = f /\ e.under = s.under
  BY DEF ScanInv, Scans
<1> HIDE DEF f, present
<1>4. ScanInv(e)
  BY <1>1, NameKeeps, ScanFacts
<1> HIDE DEF e
<1>5. ScanInv(Expect(e, Child(f.kind, key)))
  BY <1>3, <1>4, ExpectKeeps, ScanFacts
<1> QED BY <1>2, <1>5, ScanFacts

LEMMA PyStepKeeps ==
  ASSUME NEW s, ScanInv(s), NEW t
  PROVE  ScanInv(PyStep(s, t))
<1> DEFINE Refused == {Refuse(s, reason) : reason \in {"syntax", "structure", "model_count", "ok"}}
<1>0. \A e \in Refused : ScanInv(e)
  BY ScanFacts
<1>1. CASE s.out # "reading" \/ (t = "space" /\ s.at # "done")
  BY <1>1 DEF PyStep
<1>2. CASE ~(s.out # "reading" \/ (t = "space" /\ s.at # "done"))
  <2>1. CASE s.at = "object"
    <3>1. PyStep(s, t) \in {Enter(s)} \cup Refused
      BY <1>2, <2>1 DEF PyStep
    <3> QED BY <1>0, <2>1, <3>1, EnterKeeps
  <2>2. CASE s.at = "member"
    BY <1>2, <2>2, PyMemberKeeps DEF PyStep
  <2>3. CASE s.at = "key"
    BY <1>2, <2>3, PyKeyKeeps DEF PyStep
  <2>4. CASE s.at = "colon"
    BY <1>2, <2>4, PyColonKeeps DEF PyStep
  <2>5. CASE s.at = "scalar"
    <3>1. PyStep(s, t) \in {[s EXCEPT !.at = "member"], Start("digits")} \cup Refused
      BY <1>2, <2>5 DEF PyStep
    <3>2. ScanInv(Start("digits"))
      BY StartInv DEF Reasons, Outcome
    <3> QED BY <1>0, <2>5, <3>1, <3>2, MoveKeeps, ScanFacts
  <2>6. CASE s.at \in {"array", "comma"}
    <3>1. PyStep(s, t) \in {NextBin(s)} \cup Refused
      BY <1>2, <2>6 DEF PyStep
    <3> QED BY <1>0, <2>6, <3>1, NextBinKeeps
  <2>7. CASE s.at = "close"
    <3>1. PyStep(s, t) \in {EndBins(s)} \cup Refused
      BY <1>2, <2>7 DEF PyStep
    <3> QED BY <1>0, <2>7, <3>1, EndBinsKeeps
  <2>8. CASE s.at = "done"
    <3>1. PyStep(s, t) \in Refused
      BY <1>2, <2>8 DEF PyStep
    <3> QED BY <1>0, <3>1
  <2> QED BY <2>1, <2>2, <2>3, <2>4, <2>5, <2>6, <2>7, <2>8, ScanFacts DEF Place
<1> QED BY <1>1, <1>2
-----------------------------------------------------------------------------
LEMMA GoKeyKeeps ==
  ASSUME NEW s, ScanInv(s), s.at \in {"member", "key"}, NEW t
  PROVE  ScanInv(GoKey(s, t))
<1> DEFINE f == [s.top EXCEPT !.seen = @ \cup {t}, !.key = t]
           present == s.present \/ (f.kind = "root" /\ t = "model_usage")
           e == [s EXCEPT !.at = "colon", !.top = f, !.present = present]
<1>1. CASE t \notin Key \/ t \in s.top.seen
  BY <1>1, ScanFacts DEF GoKey
<1>2. CASE t \in Key /\ t \notin s.top.seen
  <2>0. s.top \in Frames /\ s.top.seen \cup {t} \in Names
    BY <1>2, ScanFacts, FS_AddElement DEF Frames, Names
  <2>1. /\ f \in Frames /\ f.kind = s.top.kind /\ f.bins = s.top.bins
        /\ present \in BOOLEAN
    <3>1. f \in Frames /\ f.kind = s.top.kind /\ f.bins = s.top.bins
      BY <1>2, <2>0 DEF Frames
    <3>2. present \in BOOLEAN
      OBVIOUS
    <3> QED BY <3>1, <3>2
  <2>2. GoKey(s, t) \in {e} \cup {Refuse(s, reason) : reason \in {"structure", "model_count"}}
    BY <1>2 DEF GoKey
  <2> HIDE DEF f, present
  <2>3. ScanInv(e)
    BY <2>1, NameKeeps, ScanFacts
  <2> HIDE DEF e
  <2> QED BY <2>2, <2>3, ScanFacts
<1> QED BY <1>1, <1>2

LEMMA GoMemberKeeps ==
  ASSUME NEW s, ScanInv(s), s.at = "member", NEW t
  PROVE  ScanInv(GoMember(s, t))
<1>1. CASE t = "}"
  <2>1. GoMember(s, t) = Leave(s, GoShapeError(s.top.kind, s.top.seen))
    BY <1>1 DEF GoMember
  <2>2. GoShapeError(s.top.kind, s.top.seen) \in BOOLEAN
    BY DEF GoShapeError
  <2> QED BY <2>1, <2>2, LeaveKeeps
<1>2. CASE t # "}"
  <2>1. GoMember(s, t) \in {GoKey(s, t), [s EXCEPT !.at = "key"]}
                            \cup {Refuse(s, reason) : reason \in {"structure", "model_count"}}
    BY <1>2 DEF GoMember
  <2>2. ScanInv([s EXCEPT !.at = "key"])
    BY MoveKeeps, ScanFacts
  <2> QED BY <2>1, <2>2, GoKeyKeeps, ScanFacts
<1> QED BY <1>1, <1>2

LEMMA GoStepKeeps ==
  ASSUME NEW s, ScanInv(s), NEW t
  PROVE  ScanInv(GoStep(s, t))
<1> DEFINE Refused == {Refuse(s, reason) : reason \in {"structure", "ok"}}
<1>0. \A e \in Refused : ScanInv(e)
  BY ScanFacts
<1>1. CASE s.out # "reading" \/ (t = "space" /\ s.at # "done")
  BY <1>1 DEF GoStep
<1>2. CASE ~(s.out # "reading" \/ (t = "space" /\ s.at # "done"))
  <2>1. CASE s.at = "object"
    <3>1. GoStep(s, t) \in {Enter(s)} \cup Refused
      BY <1>2, <2>1 DEF GoStep
    <3> QED BY <1>0, <2>1, <3>1, EnterKeeps
  <2>2. CASE s.at = "member"
    BY <1>2, <2>2, GoMemberKeeps DEF GoStep
  <2>3. CASE s.at = "key"
    BY <1>2, <2>3, GoKeyKeeps DEF GoStep
  <2>4. CASE s.at = "colon"
    <3>1. GoStep(s, t) \in {Expect(s, Child(s.top.kind, s.top.key))} \cup Refused
      BY <1>2, <2>4 DEF GoStep
    <3> QED BY <1>0, <2>4, <3>1, ExpectKeeps, ScanFacts
  <2>5. CASE s.at = "scalar"
    <3>1. GoStep(s, t) \in {[s EXCEPT !.at = "member"]} \cup Refused
      BY <1>2, <2>5 DEF GoStep
    <3> QED BY <1>0, <2>5, <3>1, MoveKeeps, ScanFacts
  <2>6. CASE s.at \in {"array", "comma"}
    <3>1. GoStep(s, t) \in {NextBin(s)} \cup Refused
      BY <1>2, <2>6 DEF GoStep
    <3> QED BY <1>0, <2>6, <3>1, NextBinKeeps
  <2>7. CASE s.at = "close"
    <3>1. GoStep(s, t) \in {EndBins(s)} \cup Refused
      BY <1>2, <2>7 DEF GoStep
    <3> QED BY <1>0, <2>7, <3>1, EndBinsKeeps
  <2>8. CASE s.at = "done"
    <3>1. GoStep(s, t) \in Refused
      BY <1>2, <2>8 DEF GoStep
    <3> QED BY <1>0, <3>1
  <2> QED BY <2>1, <2>2, <2>3, <2>4, <2>5, <2>6, <2>7, <2>8, ScanFacts DEF Place
<1> QED BY <1>1, <1>2
-----------------------------------------------------------------------------
(* The stacks of both scans are as deep as the places of their objects in  *)
(* every state of the intake; what the scans leave when they return, too.  *)
ScansInv == ScanInv(py) /\ ScanInv(go)

LEMMA ScansInvariant == Spec => []ScansInv
<1>1. IntakeInit => ScansInv
  <2>1. \A out \in Reasons : ScanInv(Start(out))
    BY StartInv
  <2> QED BY <2>1 DEF IntakeInit, JsonInit, ScansInv, Reasons, Outcome
<1>2. ASSUME ScansInv, [IntakeNext]_intakeVars PROVE ScansInv'
  <2>1. ASSUME NEW t, Read(t) PROVE ScansInv'
    BY <1>2, <2>1, PyStepKeeps, GoStepKeeps DEF Read, ScansInv
  <2>2. CASE Scan
    BY <2>1, <2>2 DEF Scan, JsonNext
  <2>3. CASE Scanned
    <3>1. ASSUME NEW s, ScanInv(s) PROVE ScanInv(Returned(s))
      <4>1. Start("ok") \in Scans /\ ScanInv(Start("ok")) /\ s.present \in BOOLEAN
        BY <3>1, StartInv, ScanFacts DEF Reasons, Outcome, ScanInv
      <4> DEFINE e == [Start("ok") EXCEPT !.present = s.present]
      <4>2. e \in Scans /\ e.under = Start("ok").under /\ e.top = Start("ok").top
              /\ e.at = Start("ok").at /\ e.want = Start("ok").want
        BY <4>1 DEF Scans
      <4> HIDE DEF e
      <4>3. ScanInv(e)
        BY <4>1, <4>2 DEF ScanInv, Nested, Rows, Based, Wanted
      <4> QED BY <3>1, <4>3 DEF Returned, e
    <3> QED BY <1>2, <2>3, <3>1 DEF Scanned, ScansInv
  <2>4. CASE UNCHANGED <<py, go>>
    BY <1>2, <2>4 DEF ScansInv
  <2>5. ASSUME ReadEnvelope PROVE UNCHANGED <<py, go>>
    BY <2>5 DEF ReadEnvelope, Validated
  <2>6. ASSUME GrowPayload PROVE UNCHANGED <<py, go>>
    BY <2>6 DEF GrowPayload
  <2>7. ASSUME \E k \in Kinds : ReadPayload(k) PROVE UNCHANGED <<py, go>>
    BY <2>7 DEF ReadPayload
  <2>8. ASSUME UNCHANGED intakeVars PROVE UNCHANGED <<py, go>>
    BY <2>8 DEF intakeVars
  <2> QED BY <1>2, <2>2, <2>3, <2>4, <2>5, <2>6, <2>7, <2>8 DEF IntakeNext
<1> QED BY <1>1, <1>2, PTL DEF Spec

(* Containers are nested at most seven deep in either scan, whatever the   *)
(* text, the names and the limits: the comment of scanShape, and the bound *)
(* of Python's recursion.                                                  *)
THEOREM DepthCorrect == Spec => []DepthBounded
<1>1. ScansInv => DepthBounded
  <2>1. ASSUME NEW s, ScanInv(s) PROVE Depth(s) <= 7
    <3>1. Len(s.under) \in Nat /\ Len(s.under) <= 6
      BY <2>1, LevelType DEF ScanInv, Scans, Nested
    <3>2. Depth(s) = Len(s.under) + 1 \/ Depth(s) = Len(s.under) + 0
      BY DEF Depth
    <3> QED BY <3>1, <3>2
  <2> QED BY <2>1 DEF ScansInv, DepthBounded
<1> QED BY <1>1, ScansInvariant, PTL
-----------------------------------------------------------------------------
(* The two scans side by side.  They are in the same place with the same   *)
(* frames, but that Go has entered a name, and judged the name of a model, *)
(* when Python has not yet seen the colon behind it; until an integer too  *)
(* long for int() leaves Go alone with the text.                           *)
Ahead(p) == [p.top EXCEPT !.seen = @ \cup {p.top.key}]
UsageNamed(p) == p.top.kind = "root" /\ p.top.key = "model_usage"
Entered(p) == [p EXCEPT !.top = Ahead(p), !.present = @ \/ UsageNamed(p)]
BadModel(p) ==
  p.top.kind = "models" /\ (TooMany(Ahead(p).seen) \/ p.top.key \notin Reserved \cup PublicId)

InStep(p, g) == IF p.at = "colon" THEN g = Entered(p) /\ ~BadModel(p) ELSE g = p

\* Go is done with a name that Python will refuse after the colon.
Waiting(p, g) ==
  /\ p.at = "colon" /\ BadModel(p)
  /\ g.out = "structure" \/ (g.out = "model_count" /\ TooMany(Ahead(p).seen))

Agreed(p, g) ==
  /\ p.out = "ok" <=> g.out = "ok"
  /\ p.out = "ok" => p.present = g.present /\ ~p.ill
  /\ g.out = "model_count" => p.out \in {"model_count", "syntax"}

SideBySide(p, g) ==
  \/ p.out = "digits"
  \/ p.out = "reading" /\ g.out = "reading" /\ InStep(p, g)
  \/ p.out = "reading" /\ g.out # "reading" /\ Waiting(p, g)
  \/ p.out # "reading" /\ g.out # "reading" /\ Agreed(p, g)

Blamed(s) == s.out = "model_count" => FullOfModels(s)

\* Go stops before it begins where the text has a lone surrogate; Python
\* cannot get past it.
SurrogateInv ==
  unicode # "good" =>
    /\ go.out = "structure" /\ py.out # "ok"
    /\ unicode # "come" => py.out # "reading"

SameInv ==
  /\ ScansInv
  /\ Blamed(py) /\ Blamed(go)
  /\ unicode = "good" => SideBySide(py, go)
  /\ SurrogateInv

-----------------------------------------------------------------------------
(* Limits and shapes: the two tables.                                      *)

LEMMA PlaceHasKind ==
  ASSUME NEW s, ScanInv(s), s.at \notin {"object", "done"}
  PROVE  s.top.kind \in Kind /\ IsFiniteSet(s.top.seen)
<1>1. s.under # <<>> /\ s.under \in Seq(Frames) /\ s.top \in Frames
  BY DEF ScanInv, Scans, Based
<1>2. Len(s.under) \in Nat /\ Len(s.under) # 0
  BY <1>1
<1>3. 1 <= Level(s.top.kind) /\ s.top.kind \in ObjectKinds
  BY <1>1, <1>2, LevelType DEF ScanInv, Nested, Frames
<1>4. s.top.kind \notin {NoKind, "scalar", "histogram"}
  BY <1>3 DEF Level, NoKind
<1> QED BY <1>1, <1>3, <1>4, TablesAssumption DEF TablesAssumption, ObjectKinds, Frames, Names

(* The members of a shape with an optional one are counted by Go and       *)
(* compared as a set by Python.                                            *)
LEMMA ShapesAgree ==
  ASSUME NEW kind \in Kind, NEW seen, IsFiniteSet(seen)
  PROVE  GoShapeError(kind, seen)
           <=> /\ kind \in DOMAIN Shape
               /\ seen # Shape[kind] \cup (IF kind = "root" THEN seen \cap {"model_usage"} ELSE {})
<1> SUFFICES ASSUME kind \in DOMAIN Shape
             PROVE  GoShapeError(kind, seen)
                      <=> seen # Shape[kind] \cup (IF kind = "root" THEN seen \cap {"model_usage"} ELSE {})
  BY DEF GoShapeError
<1> DEFINE shape == Shape[kind]
<1>1. IsFiniteSet(shape) /\ Cardinality(shape) \in Nat /\ Cardinality(seen) \in Nat
  BY TablesAssumption, FS_CardinalityType DEF TablesAssumption
<1>2. \A T \in SUBSET seen : Cardinality(T) = Cardinality(seen) => T = seen
  BY FS_Subset
<1>3. CASE kind # "root"
  <2>1. GoShapeError(kind, seen) <=> Cardinality(seen) # Cardinality(shape) \/ ~ (shape \subseteq seen)
    BY <1>1, <1>3 DEF GoShapeError, GoShape
  <2>2. GoShapeError(kind, seen) <=> seen # shape
    <3> HIDE DEF shape
    <3> QED BY <1>2, <2>1
  <2> QED BY <1>3, <2>2
<1>4. CASE kind = "root" /\ "model_usage" \notin seen
  <2>1. Cardinality(shape \cup {"model_usage"}) = Cardinality(shape) + 1
    BY <1>1, <1>4, FS_AddElement, TablesAssumption DEF TablesAssumption
  <2>2. GoShapeError(kind, seen) <=> Cardinality(seen) # Cardinality(shape) \/ ~ (shape \subseteq seen)
    BY <1>1, <1>4, <2>1, TablesAssumption DEF GoShapeError, GoShape, TablesAssumption
  <2>3. GoShapeError(kind, seen) <=> seen # shape
    <3> HIDE DEF shape
    <3> QED BY <1>2, <2>2
  <2> QED BY <1>4, <2>3
<1>5. CASE kind = "root" /\ "model_usage" \in seen
  <2> DEFINE full == shape \cup {"model_usage"}
  <2>1. GoShapeError(kind, seen) <=> Cardinality(seen) # Cardinality(full) \/ ~ (full \subseteq seen)
    <3>1. IsFiniteSet(full) /\ Cardinality(full) \in Nat
      BY <1>1, FS_AddElement, FS_CardinalityType
    <3>2. GoShapeError(kind, seen) <=> Cardinality(seen) # Cardinality(full) - 0 \/ ~ (full \subseteq seen)
      BY <1>5 DEF GoShapeError, GoShape
    <3> HIDE DEF full
    <3> QED BY <3>1, <3>2
  <2>2. GoShapeError(kind, seen) <=> seen # full
    <3> HIDE DEF full
    <3> QED BY <1>2, <2>1
  <2>3. seen \cap {"model_usage"} = {"model_usage"}
    BY <1>5
  <2> QED BY <1>5, <2>2, <2>3
<1> QED BY <1>3, <1>4, <1>5

(* A full object of models holds all that are allowed, and one too many    *)
(* makes a full one.                                                       *)
LEMMA FullModels ==
  ASSUME NEW seen, IsFiniteSet(seen)
  PROVE  /\ Cardinality(seen) >= Limit["models"] => Cardinality(seen \ Reserved) >= MaxModels
         /\ \A key : TooMany(seen \cup {key}) => Cardinality(seen \ Reserved) >= MaxModels
<1>1. /\ IsFiniteSet(Reserved) /\ Cardinality(Reserved) \in Nat /\ MaxModels \in Nat
      /\ Limit["models"] \in Nat /\ Limit["models"] >= MaxModels + Cardinality(Reserved)
  BY TablesAssumption, FS_CardinalityType DEF TablesAssumption
<1>2. IsFiniteSet(seen \ Reserved) /\ Cardinality(seen \ Reserved) \in Nat /\ Cardinality(seen) \in Nat
  BY FS_Difference, FS_CardinalityType
<1>3. Cardinality(seen \ Reserved) = Cardinality(seen) - Cardinality(seen \cap Reserved)
  BY FS_Difference
<1>4. Cardinality(seen \cap Reserved) \in Nat /\ Cardinality(seen \cap Reserved) <= Cardinality(Reserved)
  <2>1. seen \cap Reserved \in SUBSET Reserved
    OBVIOUS
  <2> QED BY <1>1, <2>1, FS_Subset, FS_CardinalityType
<1>5. ASSUME NEW key, TooMany(seen \cup {key}) PROVE Cardinality(seen \ Reserved) >= MaxModels
  <2>1. (seen \cup {key}) \ Reserved \in SUBSET ((seen \ Reserved) \cup {key})
    OBVIOUS
  <2>2. /\ IsFiniteSet((seen \ Reserved) \cup {key})
        /\ Cardinality((seen \ Reserved) \cup {key}) <= Cardinality(seen \ Reserved) + 1
        /\ Cardinality((seen \ Reserved) \cup {key}) \in Nat
    BY <1>2, FS_AddElement
  <2>3. /\ Cardinality((seen \cup {key}) \ Reserved) <= Cardinality((seen \ Reserved) \cup {key})
        /\ Cardinality((seen \cup {key}) \ Reserved) \in Nat
    BY <2>1, <2>2, FS_Subset, FS_CardinalityType
  <2> QED BY <1>1, <1>2, <1>5, <2>2, <2>3 DEF TooMany
<1>6. Cardinality(seen) >= Limit["models"] => Cardinality(seen \ Reserved) >= MaxModels
  BY <1>1, <1>2, <1>3, <1>4
<1> QED BY <1>5, <1>6

-----------------------------------------------------------------------------
(* The steps, side by side.                                                *)

\* What a step leaves of the record of a scan that goes on.
LEMMA OutKept ==
  ASSUME NEW s \in Scans
  PROVE  /\ \A reason : Refuse(s, reason).out = reason /\ Refuse(s, reason).top = s.top
                       /\ Refuse(s, reason).present = s.present /\ Refuse(s, reason).ill = s.ill
         /\ Enter(s).out = s.out /\ NextBin(s).out = s.out /\ EndBins(s).out = s.out
         /\ \A e : Leave(s, e).out = s.out
         /\ \A child : Expect(s, child).out = s.out
         /\ \A at : [s EXCEPT !.at = at].out = s.out
BY DEF Scans, Refuse, Enter, Leave, Expect, NextBin, EndBins

LEMMA PlaceKept ==
  ASSUME NEW s \in Scans
  PROVE  /\ Enter(s).at # "colon" /\ NextBin(s).at # "colon" /\ EndBins(s).at # "colon"
         /\ \A e : Leave(s, e).at # "colon"
         /\ \A child : Expect(s, child).at # "colon"
         /\ \A at : [s EXCEPT !.at = at].at = at
BY DEF Scans, Enter, Leave, Expect, NextBin, EndBins

(* Both languages refuse: their reasons may differ, but Go's is an excess  *)
(* of models only where Python has that one.                               *)
LEMMA BothRefuse ==
  ASSUME NEW p \in Scans, NEW g \in Scans, NEW why \in {"syntax", "structure", "model_count"},
         NEW reason \in {"structure", "model_count"},
         reason = "model_count" => why \in {"model_count", "syntax"}
  PROVE  SideBySide(Refuse(p, why), Refuse(g, reason))
BY OutKept DEF SideBySide, Agreed

LEMMA BothGoOn ==
  ASSUME NEW s, s.out = "reading", s.at # "colon"
  PROVE  SideBySide(s, s)
BY DEF SideBySide, InStep

(* A name is read.                                                         *)
LEMMA KeysAgree ==
  ASSUME NEW p, ScanInv(p), p.out = "reading", NEW t
  PROVE  SideBySide(PyKey(p, t), GoKey(p, t))
<1>1. p \in Scans /\ p.top \in Frames
  BY DEF ScanInv, Scans
<1>2. CASE t \notin Key \/ t \in p.top.seen
  <2>1. PyKey(p, t) = Refuse(p, "syntax") /\ GoKey(p, t) = Refuse(p, "structure")
    BY <1>2 DEF PyKey, GoKey
  <2> QED BY <1>1, <2>1, BothRefuse
<1>3. CASE t \in Key /\ t \notin p.top.seen
  <2> DEFINE f == [p.top EXCEPT !.seen = @ \cup {t}, !.key = t]
             q == [p EXCEPT !.at = "colon", !.top.key = t]
             e == [p EXCEPT !.at = "colon", !.top = f,
                            !.present = @ \/ (f.kind = "root" /\ t = "model_usage")]
  <2>1. PyKey(p, t) = q
    BY <1>3 DEF PyKey
  <2>2. /\ q.at = "colon" /\ q.out = "reading" /\ q.top.kind = p.top.kind /\ q.top.key = t
        /\ f.kind = p.top.kind /\ Ahead(q) = f
    BY <1>1 DEF Scans, Frames, Ahead
  <2>3. e = Entered(q)
    BY <1>1, <2>2 DEF Scans, Frames, Entered, UsageNamed
  <2>4. e.out = "reading"
    BY <1>1 DEF Scans
  <2>5. BadModel(q) <=> f.kind = "models" /\ (TooMany(f.seen) \/ t \notin Reserved \cup PublicId)
    BY <2>2 DEF BadModel
  <2>6. GoKey(p, t) = IF f.kind = "models" /\ TooMany(f.seen) THEN Refuse(p, "model_count")
                      ELSE IF f.kind = "models" /\ t \notin Reserved \cup PublicId THEN Refuse(p, "structure")
                      ELSE e
    BY <1>3 DEF GoKey
  <2> HIDE DEF f, q, e
  <2>7. CASE BadModel(q)
    <3>1. /\ GoKey(p, t).out # "reading"
          /\ GoKey(p, t).out = "structure" \/ (GoKey(p, t).out = "model_count" /\ TooMany(f.seen))
      BY <1>1, <2>5, <2>6, <2>7, OutKept
    <3> QED BY <2>1, <2>2, <2>7, <3>1 DEF SideBySide, Waiting
  <2>8. CASE ~BadModel(q)
    <3>1. GoKey(p, t) = e
      BY <2>5, <2>6, <2>8
    <3> QED BY <2>1, <2>2, <2>3, <2>4, <2>8, <3>1 DEF SideBySide, InStep
  <2> QED BY <2>7, <2>8
<1> QED BY <1>2, <1>3

(* An object ends or goes on.                                              *)
LEMMA MembersAgree ==
  ASSUME NEW s, ScanInv(s), s.out = "reading", s.at = "member", NEW t
  PROVE  SideBySide(PyMember(s, t), GoMember(s, t))
<1>1. s \in Scans /\ s.top.kind \in Kind /\ IsFiniteSet(s.top.seen)
  BY PlaceHasKind DEF ScanInv
<1>2. Limit[s.top.kind] = GoLimit(s.top.kind)
  BY <1>1, TablesAssumption DEF TablesAssumption
<1>3. CASE t = "}"
  <2> DEFINE pyError == /\ s.top.kind \in DOMAIN Shape
                        /\ s.top.seen # Shape[s.top.kind] \cup
                             (IF s.top.kind = "root" THEN s.top.seen \cap {"model_usage"} ELSE {})
             goError == GoShapeError(s.top.kind, s.top.seen)
  <2>1. pyError = goError
    <3>1. pyError \in BOOLEAN /\ goError \in BOOLEAN
      BY DEF GoShapeError
    <3>2. goError <=> pyError
      BY <1>1, ShapesAgree
    <3> QED BY <3>1, <3>2
  <2>2. PyMember(s, t) = Leave(s, pyError) /\ GoMember(s, t) = Leave(s, goError)
    BY <1>3 DEF PyMember, GoMember
  <2> HIDE DEF pyError, goError
  <2>3. Leave(s, pyError).out = "reading" /\ Leave(s, pyError).at # "colon"
    BY <1>1, OutKept, PlaceKept
  <2> QED BY <2>1, <2>2, <2>3, BothGoOn
<1>4. CASE t = "end"
  <2>1. PyMember(s, t) = Refuse(s, "syntax") /\ GoMember(s, t) = Refuse(s, "structure")
    BY <1>4 DEF PyMember, GoMember
  <2> QED BY <1>1, <2>1, BothRefuse
<1>5. CASE t = "]"
  <2>1. t \notin Key
    BY <1>5, NamesAssumption DEF NamesAssumption, Mark
  <2>2. GoMember(s, t) = Refuse(s, "structure")
    BY <1>5 DEF GoMember
  <2>3. PyMember(s, t) \in {Refuse(s, why) : why \in {"syntax", "structure", "model_count"}}
    BY <1>5, <2>1 DEF PyMember, PyKey
  <2> QED BY <1>1, <2>2, <2>3, BothRefuse
<1>6. CASE t \notin {"}", "end", "]"} /\ Cardinality(s.top.seen) >= Limit[s.top.kind]
  <2> DEFINE why == IF s.top.kind = "models" THEN "model_count" ELSE "structure"
  <2>1. PyMember(s, t) = Refuse(s, why) /\ GoMember(s, t) = Refuse(s, why)
    BY <1>2, <1>6 DEF PyMember, GoMember
  <2> QED BY <1>1, <2>1, BothRefuse
<1>7. CASE t \notin {"}", "end", "]"} /\ ~(Cardinality(s.top.seen) >= Limit[s.top.kind])
  <2>1. CASE s.top.seen = {}
    <3>1. PyMember(s, t) = PyKey(s, t) /\ GoMember(s, t) = GoKey(s, t)
      BY <1>2, <1>7, <2>1 DEF PyMember, GoMember
    <3> QED BY <3>1, KeysAgree
  <2>2. CASE s.top.seen # {} /\ t = ","
    <3> DEFINE e == [s EXCEPT !.at = "key"]
    <3>1. PyMember(s, t) = e /\ GoMember(s, t) = e
      BY <1>2, <1>7, <2>2 DEF PyMember, GoMember
    <3>2. e.out = "reading" /\ e.at # "colon"
      BY <1>1, OutKept, PlaceKept
    <3> QED BY <3>1, <3>2, BothGoOn
  <2>3. CASE s.top.seen # {} /\ t # ","
    <3>1. PyMember(s, t) = Refuse(s, "syntax") /\ GoMember(s, t) = Refuse(s, "structure")
      BY <1>2, <1>7, <2>3 DEF PyMember, GoMember
    <3> QED BY <1>1, <3>1, BothRefuse
  <2> QED BY <2>1, <2>2, <2>3
<1> QED BY <1>3, <1>4, <1>5, <1>6, <1>7

\* What Python finds behind a name.
LEMMA ColonCases ==
  ASSUME NEW p \in Scans, p.top \in Frames, NEW t
  PROVE  PyColon(p, t) = IF t # ":" THEN Refuse(p, "syntax")
                         ELSE IF p.top.kind = "models" /\ TooMany(Ahead(p).seen) THEN Refuse(p, "model_count")
                         ELSE IF p.top.kind = "models" /\ p.top.key \notin Reserved \cup PublicId
                              THEN Refuse(p, "structure")
                         ELSE Expect(Entered(p), Child(p.top.kind, p.top.key))
<1>1. Ahead(p).kind = p.top.kind
  BY DEF Ahead, Frames
<1> QED BY <1>1 DEF PyColon, Ahead, Entered, UsageNamed

(* The colon, where the scans come together again.                         *)
LEMMA ColonsAgree ==
  ASSUME NEW p, ScanInv(p), p.out = "reading", p.at = "colon", ~BadModel(p), NEW t
  PROVE  SideBySide(PyColon(p, t),
                    IF t = ":" THEN Expect(Entered(p), Child(Entered(p).top.kind, Entered(p).top.key))
                               ELSE Refuse(Entered(p), "structure"))
<1>1. p \in Scans /\ p.top \in Frames /\ Ahead(p) \in Frames
  <2>1. p \in Scans /\ p.top \in Frames
    BY DEF ScanInv, Scans
  <2>2. p.top.seen \cup {p.top.key} \in Names
    BY <2>1, FS_AddElement DEF Frames, Names
  <2> QED BY <2>1, <2>2 DEF Ahead, Frames
<1>2. /\ Entered(p) \in Scans /\ Entered(p).out = "reading"
      /\ Entered(p).top.kind = p.top.kind /\ Entered(p).top.key = p.top.key
  BY <1>1 DEF Entered, Scans, Ahead, Frames
<1>3. CASE t # ":"
  <2>1. PyColon(p, t) = Refuse(p, "syntax")
    BY <1>1, <1>3, ColonCases
  <2> QED BY <1>1, <1>2, <1>3, <2>1, BothRefuse
<1>4. CASE t = ":"
  <2> DEFINE e == Expect(Entered(p), Child(p.top.kind, p.top.key))
  <2>1. PyColon(p, t) = e
    BY <1>1, <1>4, ColonCases DEF BadModel
  <2>2. e.out = "reading" /\ e.at # "colon"
    BY <1>2, OutKept, PlaceKept
  <2> HIDE DEF e
  <2>3. SideBySide(e, e)
    BY <2>2, BothGoOn
  <2> QED BY <1>2, <1>4, <2>1, <2>3 DEF e
<1> QED BY <1>3, <1>4

(* One token, read by both.                                                *)
LEMMA ReadersAgree ==
  ASSUME NEW p, ScanInv(p), p.out = "reading", NEW g, ScanInv(g), g.out = "reading", InStep(p, g), NEW t
  PROVE  SideBySide(PyStep(p, t), GoStep(g, t))
<1>1. p \in Scans /\ g \in Scans /\ p.at \in Place
  BY DEF ScanInv, Scans
<1>2. CASE t = "space" /\ p.at # "done"
  <2>1. g.at = p.at
    BY <1>1 DEF InStep, Entered, Scans
  <2>2. PyStep(p, t) = p /\ GoStep(g, t) = g
    BY <1>2, <2>1 DEF PyStep, GoStep
  <2> QED BY <2>2 DEF SideBySide
<1>3. CASE ~(t = "space" /\ p.at # "done") /\ p.at = "colon"
  <2>1. g = Entered(p) /\ g.at = "colon" /\ ~BadModel(p)
    BY <1>1, <1>3 DEF InStep, Entered, Scans
  <2>2. PyStep(p, t) = PyColon(p, t)
    BY <1>3 DEF PyStep
  <2>3. GoStep(g, t) = IF t = ":" THEN Expect(g, Child(g.top.kind, g.top.key)) ELSE Refuse(g, "structure")
    BY <1>3, <2>1 DEF GoStep
  <2> QED BY <1>3, <2>1, <2>2, <2>3, ColonsAgree
<1>4. CASE ~(t = "space" /\ p.at # "done") /\ p.at # "colon"
  <2>1. g = p
    BY <1>4 DEF InStep
  <2> DEFINE go1 == GoStep(p, t)
             py1 == PyStep(p, t)
  <2> SUFFICES SideBySide(py1, go1)
    BY <2>1
  <2>2. CASE p.at = "member"
    <3>1. py1 = PyMember(p, t) /\ go1 = GoMember(p, t)
      BY <1>4, <2>2 DEF PyStep, GoStep
    <3> HIDE DEF py1, go1
    <3> QED BY <2>2, <3>1, MembersAgree
  <2>3. CASE p.at = "key"
    <3>1. py1 = PyKey(p, t) /\ go1 = GoKey(p, t)
      BY <1>4, <2>3 DEF PyStep, GoStep
    <3> HIDE DEF py1, go1
    <3> QED BY <3>1, KeysAgree
  <2>4. CASE p.at = "done"
    <3>1. \/ py1 = Refuse(p, "structure") /\ go1 = Refuse(p, "structure")
          \/ py1 = Refuse(p, "ok") /\ go1 = Refuse(p, "ok") /\ ~p.ill
      BY <1>4, <2>4 DEF PyStep, GoStep
    <3>2. ~p.ill => SideBySide(Refuse(p, "ok"), Refuse(p, "ok"))
      BY <1>1, OutKept DEF SideBySide, Agreed
    <3> HIDE DEF py1, go1
    <3> QED BY <1>1, <3>1, <3>2, BothRefuse
  <2>5. CASE p.at \in {"object", "scalar", "array", "comma", "close"}
    <3>1. \/ py1 = Start("digits")
          \/ /\ py1 \in {Refuse(p, "syntax"), Refuse(p, "structure")}
             /\ go1 = Refuse(p, "structure")
          \/ /\ py1 = go1
             /\ go1 \in {Enter(p), [p EXCEPT !.at = "member"], NextBin(p), EndBins(p)}
      BY <1>4, <2>5 DEF PyStep, GoStep
    <3> HIDE DEF py1, go1
    <3>2. CASE go1 \in {Enter(p), [p EXCEPT !.at = "member"], NextBin(p), EndBins(p)} /\ py1 = go1
      <4>1. go1.out = "reading" /\ go1.at # "colon"
        <5> DEFINE moved == [p EXCEPT !.at = "member"]
        <5>1. moved.out = "reading" /\ moved.at # "colon"
          BY <1>1, OutKept, PlaceKept
        <5> HIDE DEF moved
        <5>2. go1 \in {Enter(p), moved, NextBin(p), EndBins(p)}
          BY <3>2 DEF moved
        <5> QED BY <1>1, <5>1, <5>2, OutKept, PlaceKept
      <4> QED BY <3>2, <4>1, BothGoOn
    <3>3. CASE /\ py1 \in {Refuse(p, "syntax"), Refuse(p, "structure")}
               /\ go1 = Refuse(p, "structure")
      BY <1>1, <3>3, BothRefuse
    <3>4. CASE py1 = Start("digits")
      BY <3>4 DEF SideBySide, Start
    <3> QED BY <3>1, <3>2, <3>3, <3>4
  <2> QED BY <1>1, <1>4, <2>2, <2>3, <2>4, <2>5 DEF Place
<1> QED BY <1>2, <1>3, <1>4

LEMMA WaitingAgrees ==
  ASSUME NEW p, ScanInv(p), p.out = "reading", NEW g, g.out # "reading", Waiting(p, g), NEW t
  PROVE  SideBySide(PyStep(p, t), GoStep(g, t))
<1>1. p \in Scans /\ p.top \in Frames
  BY DEF ScanInv, Scans
<1>2. GoStep(g, t) = g
  BY DEF GoStep
<1>3. CASE t = "space"
  <2>1. PyStep(p, t) = p
    BY <1>3 DEF PyStep, Waiting
  <2> QED BY <1>2, <2>1 DEF SideBySide
<1>4. CASE t # "space"
  <2>1. PyStep(p, t) = PyColon(p, t)
    BY <1>4 DEF PyStep, Waiting
  <2>2. /\ PyColon(p, t).out \in {"syntax", "model_count", "structure"}
        /\ g.out = "model_count" => PyColon(p, t).out \in {"syntax", "model_count"}
    <3>1. BadModel(p) /\ (g.out = "model_count" => TooMany(Ahead(p).seen))
      BY DEF Waiting
    <3> QED BY <1>1, <3>1, ColonCases, OutKept DEF BadModel
  <2>3. g.out # "ok"
    BY DEF Waiting
  <2> QED BY <1>2, <2>1, <2>2, <2>3 DEF SideBySide, Agreed
<1> QED BY <1>3, <1>4

LEMMA SideBySideKept ==
  ASSUME NEW p, ScanInv(p), NEW g, ScanInv(g), SideBySide(p, g), NEW t
  PROVE  SideBySide(PyStep(p, t), GoStep(g, t))
<1>1. CASE p.out = "reading" /\ g.out = "reading" /\ InStep(p, g)
  BY <1>1, ReadersAgree
<1>2. CASE p.out = "reading" /\ g.out # "reading" /\ Waiting(p, g)
  BY <1>2, WaitingAgrees
<1>3. CASE p.out # "reading" /\ g.out # "reading" /\ Agreed(p, g)
  <2>1. PyStep(p, t) = p /\ GoStep(g, t) = g
    BY <1>3 DEF PyStep, GoStep
  <2> QED BY <1>3, <2>1 DEF SideBySide
<1>4. CASE p.out = "digits"
  <2>1. PyStep(p, t) = p
    BY <1>4 DEF PyStep
  <2> QED BY <1>4, <2>1 DEF SideBySide
<1> QED BY <1>1, <1>2, <1>3, <1>4 DEF SideBySide

-----------------------------------------------------------------------------
(* Each scan by itself: what it accepts and what it blames.                *)

LEMMA PyMemberOut ==
  ASSUME NEW s, ScanInv(s), s.out = "reading", s.at = "member", NEW t
  PROVE  /\ PyMember(s, t).out # "ok" /\ Blamed(PyMember(s, t))
         /\ t = "surrogate" => PyMember(s, t).out # "reading"
<1>1. s \in Scans /\ s.top \in Frames /\ IsFiniteSet(s.top.seen)
  BY PlaceHasKind DEF ScanInv, Scans
<1> DEFINE q == [s EXCEPT !.at = "colon", !.top.key = t]
           why == IF s.top.kind = "models" THEN "model_count" ELSE "structure"
           full == Cardinality(s.top.seen) >= Limit[s.top.kind]
<1>2. q.out = "reading" /\ [s EXCEPT !.at = "key"].out = "reading" /\ \A e : Leave(s, e).out = "reading"
  BY <1>1, OutKept DEF Scans
<1>3. full => Blamed(Refuse(s, why))
  <2>1. full /\ why = "model_count" => FullOfModels(s)
    BY <1>1, FullModels DEF FullOfModels
  <2>2. Refuse(s, why).out = why /\ Refuse(s, why).top = s.top
    BY <1>1, OutKept
  <2> HIDE DEF why, full
  <2> QED BY <2>1, <2>2 DEF Blamed, FullOfModels
<1>4. \/ t # "surrogate" /\ PyMember(s, t).out = "reading"
      \/ PyMember(s, t) = Refuse(s, "syntax")
      \/ full /\ PyMember(s, t) = Refuse(s, why)
  <2>1. t \in Key => t # "surrogate"
    BY NamesAssumption DEF NamesAssumption, Mark
  <2>2. PyKey(s, t) = Refuse(s, "syntax") \/ (PyKey(s, t) = q /\ t \in Key)
    BY DEF PyKey
  <2> HIDE DEF q
  <2> QED BY <1>2, <2>1, <2>2 DEF PyMember
<1>5. Refuse(s, "syntax").out = "syntax" /\ Refuse(s, why).out \in {"model_count", "structure"}
  BY <1>1, OutKept
<1> HIDE DEF why, full
<1> QED BY <1>3, <1>4, <1>5 DEF Blamed

LEMMA PyKeyOut ==
  ASSUME NEW s \in Scans, s.out = "reading", NEW t
  PROVE  /\ PyKey(s, t).out \in {"reading", "syntax"}
         /\ t = "surrogate" => PyKey(s, t).out # "reading"
<1>1. t \in Key => t # "surrogate"
  BY NamesAssumption DEF NamesAssumption, Mark
<1>2. [s EXCEPT !.at = "colon", !.top.key = t].out = "reading"
  BY DEF Scans
<1> QED BY <1>1, <1>2, OutKept DEF PyKey

LEMMA PyColonOut ==
  ASSUME NEW s, ScanInv(s), s.out = "reading", s.at = "colon", NEW t
  PROVE  /\ PyColon(s, t).out # "ok" /\ Blamed(PyColon(s, t))
         /\ t # ":" => PyColon(s, t).out # "reading"
<1>1. s \in Scans /\ s.top \in Frames /\ IsFiniteSet(s.top.seen) /\ Ahead(s) \in Frames
  <2>1. s \in Scans /\ s.top \in Frames
    BY DEF ScanInv, Scans
  <2>2. s.top.seen \cup {s.top.key} \in Names /\ IsFiniteSet(s.top.seen)
    BY <2>1, FS_AddElement DEF Frames, Names
  <2> QED BY <2>1, <2>2 DEF Ahead, Frames
<1>2. Entered(s) \in Scans /\ Entered(s).out = "reading" /\ Ahead(s).seen = s.top.seen \cup {s.top.key}
  BY <1>1 DEF Entered, Scans, Ahead, Frames
<1>3. Expect(Entered(s), Child(s.top.kind, s.top.key)).out = "reading"
  BY <1>2, OutKept
<1>4. s.top.kind = "models" /\ TooMany(Ahead(s).seen) => Blamed(Refuse(s, "model_count"))
  <2>1. s.top.kind = "models" /\ TooMany(Ahead(s).seen) => FullOfModels(s)
    BY <1>1, <1>2, FullModels DEF FullOfModels
  <2> QED BY <1>1, <2>1, OutKept DEF Blamed, FullOfModels
<1> QED BY <1>1, <1>3, <1>4, ColonCases, OutKept DEF Blamed

LEMMA PyStepOut ==
  ASSUME NEW s, ScanInv(s), Blamed(s), NEW t
  PROVE  /\ Blamed(PyStep(s, t))
         /\ s.out = "reading" /\ PyStep(s, t).out = "ok" => t = "end"
         /\ t = "surrogate" => PyStep(s, t).out # "reading"
<1>1. s \in Scans /\ s.at \in Place
  BY DEF ScanInv, Scans
<1> DEFINE Fine(q) == /\ q.out \in {"reading", "syntax", "structure"} 
                      /\ t = "surrogate" => q.out # "reading"
<1>2. CASE s.out # "reading"
  BY <1>2 DEF PyStep
<1>3. CASE s.out = "reading" /\ t = "space" /\ s.at # "done"
  BY <1>3 DEF PyStep
<1>4. CASE s.out = "reading" /\ ~(t = "space" /\ s.at # "done")
  <2>1. CASE s.at = "member"
    BY <1>4, <2>1, PyMemberOut DEF PyStep
  <2>2. CASE s.at = "colon"
    BY <1>4, <2>2, PyColonOut DEF PyStep
  <2>3. CASE s.at = "key"
    <3>1. PyStep(s, t) = PyKey(s, t)
      BY <1>4, <2>3 DEF PyStep
    <3> QED BY <1>1, <1>4, <3>1, PyKeyOut DEF Blamed
  <2>4. CASE s.at = "done"
    <3>1. \/ PyStep(s, t) = Refuse(s, "structure")
          \/ t = "end" /\ PyStep(s, t) = Refuse(s, "ok")
      BY <1>4, <2>4 DEF PyStep
    <3> QED BY <1>1, <3>1, OutKept DEF Blamed
  <2>5. CASE s.at \in {"object", "scalar", "array", "comma", "close"}
    <3> DEFINE moved == [s EXCEPT !.at = "member"]
               Going == {Enter(s), moved, NextBin(s), EndBins(s)}
    <3>1. t \in Key \cup {"scalar", "{", "[", ",", "]"} => t # "surrogate"
      BY NamesAssumption DEF NamesAssumption, Mark
    <3>0. Start("digits").out = "digits"
      BY DEF Start
    <3>2. \/ PyStep(s, t) \in {Refuse(s, "syntax"), Refuse(s, "structure"), Start("digits")}
          \/ PyStep(s, t) \in Going /\ t # "surrogate"
      BY <1>4, <2>5, <3>1 DEF PyStep
    <3>3. moved.out = "reading"
      BY <1>1, <1>4, OutKept
    <3> HIDE DEF moved
    <3>4. \A q \in Going : q.out = "reading"
      BY <1>1, <1>4, <3>3, OutKept
    <3> HIDE DEF Going
    <3> QED BY <1>1, <3>0, <3>2, <3>4, OutKept DEF Blamed
  <2> QED BY <1>1, <2>1, <2>2, <2>3, <2>4, <2>5 DEF Place
<1> QED BY <1>2, <1>3, <1>4

LEMMA GoKeyBlames ==
  ASSUME NEW s \in Scans, IsFiniteSet(s.top.seen), s.top \in Frames, s.out = "reading", NEW t
  PROVE  Blamed(GoKey(s, t))
<1> DEFINE f == [s.top EXCEPT !.seen = @ \cup {t}, !.key = t]
           e == [s EXCEPT !.at = "colon", !.top = f,
                          !.present = @ \/ (f.kind = "root" /\ t = "model_usage")]
<1>1. f.seen = s.top.seen \cup {t} /\ f.kind = s.top.kind
  BY DEF Frames
<1>2. e.out = "reading"
  BY DEF Scans
<1>3. GoKey(s, t) = IF t \notin Key \/ t \in s.top.seen THEN Refuse(s, "structure")
                    ELSE IF f.kind = "models" /\ TooMany(f.seen) THEN Refuse(s, "model_count")
                    ELSE IF f.kind = "models" /\ t \notin Reserved \cup PublicId THEN Refuse(s, "structure")
                    ELSE e
  BY DEF GoKey
<1>4. f.kind = "models" /\ TooMany(f.seen) => FullOfModels(s)
  BY <1>1, FullModels DEF FullOfModels
<1> HIDE DEF f, e
<1>5. Blamed(e) /\ Blamed(Refuse(s, "structure"))
  BY <1>2, OutKept DEF Blamed
<1>6. f.kind = "models" /\ TooMany(f.seen) => Blamed(Refuse(s, "model_count"))
  BY <1>4, OutKept DEF Blamed, FullOfModels
<1> QED BY <1>3, <1>5, <1>6

LEMMA GoStepBlames ==
  ASSUME NEW s, ScanInv(s), Blamed(s), NEW t
  PROVE  Blamed(GoStep(s, t))
<1>1. s \in Scans /\ s.at \in Place /\ s.top \in Frames
  BY DEF ScanInv, Scans
<1>2. CASE s.out # "reading" \/ (t = "space" /\ s.at # "done")
  BY <1>2 DEF GoStep
<1>3. CASE ~(s.out # "reading" \/ (t = "space" /\ s.at # "done"))
  <2>1. \A reason \in {"structure", "ok"} : Blamed(Refuse(s, reason))
    BY <1>1, OutKept DEF Blamed
  <2>2. \A at : Blamed([s EXCEPT !.at = at])
    BY <1>1, <1>3, OutKept DEF Blamed
  <2>3. CASE s.at = "member"
    <3>1. s.top.kind \in Kind /\ IsFiniteSet(s.top.seen)
      BY <2>3, PlaceHasKind
    <3>2. Limit[s.top.kind] = GoLimit(s.top.kind)
      BY <3>1, TablesAssumption DEF TablesAssumption
    <3> DEFINE full == Cardinality(s.top.seen) >= Limit[s.top.kind]
    <3>3. full /\ s.top.kind = "models" => Blamed(Refuse(s, "model_count"))
      <4>1. full /\ s.top.kind = "models" => FullOfModels(s)
        BY <3>1, FullModels DEF FullOfModels
      <4> HIDE DEF full
      <4> QED BY <1>1, <4>1, OutKept DEF Blamed, FullOfModels
    <3>4. \A e : Blamed(Leave(s, e))
      BY <1>1, <1>3, OutKept DEF Blamed
    <3>5. Blamed(GoKey(s, t))
      BY <1>1, <1>3, <3>1, GoKeyBlames
    <3>6. GoStep(s, t) = GoMember(s, t)
      BY <1>3, <2>3 DEF GoStep
    <3> QED BY <2>1, <2>2, <3>2, <3>3, <3>4, <3>5, <3>6 DEF GoMember
  <2>4. CASE s.at = "key"
    <3>1. GoStep(s, t) = GoKey(s, t)
      BY <1>3, <2>4 DEF GoStep
    <3> QED BY <1>1, <1>3, <2>4, <3>1, PlaceHasKind, GoKeyBlames
  <2>5. CASE s.at \in {"object", "colon", "scalar", "array", "comma", "close", "done"}
    <3> DEFINE moved == [s EXCEPT !.at = "member"]
               on == Expect(s, Child(s.top.kind, s.top.key))
    <3>1. Blamed(moved) /\ Blamed(on) /\ Blamed(Enter(s)) /\ Blamed(NextBin(s)) /\ Blamed(EndBins(s))
      BY <1>1, <1>3, <2>2, OutKept DEF Blamed
    <3>2. GoStep(s, t) \in {Refuse(s, "structure"), Refuse(s, "ok"), moved, on, Enter(s), NextBin(s), EndBins(s)}
      BY <1>3, <2>5 DEF GoStep
    <3> HIDE DEF moved, on
    <3> QED BY <2>1, <3>1, <3>2
  <2> QED BY <1>1, <2>3, <2>4, <2>5 DEF Place
<1> QED BY <1>2, <1>3

-----------------------------------------------------------------------------
(* The invariant, and what it says of the documents.                       *)

LEMMA SameInitially ==
  ASSUME IntakeInit, ScansInv
  PROVE  SameInv
<1>1. /\ py = Start("reading") /\ unicode \in {"good", "come"}
      /\ go = Start(IF unicode = "good" THEN "reading" ELSE "structure")
  BY DEF IntakeInit, JsonInit
<1>2. \A out : Start(out).out = out /\ Start(out).at = "object"
  BY DEF Start
<1>3. Blamed(py) /\ Blamed(go)
  BY <1>1, <1>2 DEF Blamed
<1>4. unicode = "good" => SideBySide(py, go)
  BY <1>1, <1>2, BothGoOn
<1>5. SurrogateInv
  BY <1>1, <1>2 DEF SurrogateInv
<1> QED BY <1>3, <1>4, <1>5 DEF SameInv

LEMMA SameRead ==
  ASSUME SameInv, NEW t, Read(t)
  PROVE  /\ Blamed(py)' /\ Blamed(go)'
         /\ (unicode = "good" => SideBySide(py, go))'
         /\ SurrogateInv'
<1>1. ScanInv(py) /\ ScanInv(go) /\ Blamed(py) /\ Blamed(go)
  BY DEF SameInv, ScansInv
<1>2. /\ py' = PyStep(py, t) /\ go' = GoStep(go, t)
      /\ unicode' = IF t = "surrogate" THEN "met" ELSE unicode
      /\ t = "surrogate" => unicode # "good"
      /\ t = "end" => unicode # "come"
  BY DEF Read
<1>3. Blamed(py)' /\ Blamed(go)'
  <2>1. Blamed(PyStep(py, t)) /\ Blamed(GoStep(go, t))
    BY <1>1, PyStepOut, GoStepBlames
  <2> QED BY <1>2, <2>1 DEF Blamed, FullOfModels
<1>4. ASSUME unicode' = "good" PROVE SideBySide(py, go)'
  <2>1. unicode = "good"
    BY <1>2, <1>4
  <2>2. SideBySide(PyStep(py, t), GoStep(go, t))
    BY <1>1, <2>1, SideBySideKept DEF SameInv
  <2> QED BY <1>2, <2>2 DEF SideBySide, InStep, Entered, Ahead, UsageNamed, BadModel, Waiting, Agreed
<1>5. ASSUME unicode' # "good"
      PROVE  go'.out = "structure" /\ py'.out # "ok" /\ (unicode' # "come" => py'.out # "reading")
  <2>1. /\ unicode # "good" /\ go.out = "structure" /\ py.out # "ok"
        /\ unicode # "come" => py.out # "reading"
    BY <1>2, <1>5 DEF SameInv, SurrogateInv
  <2>2. go'.out = "structure"
    BY <1>2, <2>1 DEF GoStep
  <2>3. py.out # "reading" => py' = py
    BY <1>2 DEF PyStep
  <2>4. /\ py.out = "reading" /\ py'.out = "ok" => t = "end"
        /\ t = "surrogate" => py'.out # "reading"
    BY <1>1, <1>2, PyStepOut
  <2> QED BY <1>2, <2>1, <2>2, <2>3, <2>4
<1> QED BY <1>3, <1>4, <1>5 DEF SurrogateInv

LEMMA SameReturned ==
  ASSUME SameInv, Scanned
  PROVE  /\ Blamed(py)' /\ Blamed(go)'
         /\ (unicode = "good" => SideBySide(py, go))'
         /\ SurrogateInv'
<1>1. /\ py' = Returned(py) /\ go' = Returned(go) /\ py.out # "reading" /\ go.out # "reading"
      /\ unicode' = IF "ok" \in {py.out, go.out} THEN "good" ELSE unicode
  BY DEF Scanned, Reading
<1>2. ASSUME NEW s
      PROVE  /\ Returned(s).out = s.out
             /\ s.out = "ok" => Returned(s).present = s.present /\ Returned(s).ill = FALSE
             /\ s.out # "ok" => Returned(s) = s
  BY DEF Returned, Start
<1>3. Blamed(py)' /\ Blamed(go)'
  <2>1. ASSUME NEW s, Blamed(s) PROVE Blamed(Returned(s))
    BY <1>2, <2>1 DEF Blamed
  <2> QED BY <1>1, <2>1 DEF SameInv, Blamed, FullOfModels
<1>4. ASSUME unicode = "good" PROVE SideBySide(py, go)'
  <2>1. py.out = "digits" \/ Agreed(py, go)
    BY <1>1, <1>4 DEF SameInv, SideBySide
  <2>2. py.out = "digits" \/ Agreed(Returned(py), Returned(go))
    BY <1>2, <2>1 DEF Agreed
  <2> QED BY <1>1, <1>2, <2>2 DEF SideBySide, Agreed
<1>5. ASSUME unicode # "good"
      PROVE  /\ py.out # "ok" /\ go.out = "structure"
             /\ unicode' = unicode /\ py' = py /\ go' = go
  BY <1>1, <1>2, <1>5 DEF SameInv, SurrogateInv
<1>6. unicode = "good" => unicode' = "good"
  BY <1>1
<1> QED BY <1>1, <1>3, <1>4, <1>5, <1>6 DEF SurrogateInv

LEMMA SameKept ==
  ASSUME SameInv, ScansInv', UNCHANGED <<py, go, unicode>>
  PROVE  SameInv'
BY DEF SameInv, ScansInv, SurrogateInv, Blamed, FullOfModels, SideBySide, InStep, Entered, Ahead,
       UsageNamed, BadModel, Waiting, Agreed

(* Whatever the text, the names and the limits: two scans that ended have  *)
(* accepted the same document and seen the same model usage in it, unless  *)
(* Python's met an integer too long for int(); none with a lone surrogate  *)
(* is accepted, and an excess of models is blamed only where as many as    *)
(* are allowed were read.                                                  *)
THEOREM SameScanCorrect == Spec => []SameScan
<1>1. IntakeInit /\ ScansInv => SameInv
  BY SameInitially
<1>2. ASSUME SameInv, ScansInv', [IntakeNext]_intakeVars PROVE SameInv'
  <2>1. CASE Scan
    BY <1>2, <2>1, SameRead DEF Scan, JsonNext, SameInv
  <2>2. CASE Scanned
    BY <1>2, <2>2, SameReturned DEF SameInv
  <2>3. ASSUME ReadEnvelope PROVE UNCHANGED <<py, go, unicode>>
    BY <2>3 DEF ReadEnvelope, Validated
  <2>4. ASSUME GrowPayload PROVE UNCHANGED <<py, go, unicode>>
    BY <2>4 DEF GrowPayload
  <2>5. ASSUME \E k \in Kinds : ReadPayload(k) PROVE UNCHANGED <<py, go, unicode>>
    BY <2>5 DEF ReadPayload
  <2>6. ASSUME UNCHANGED intakeVars PROVE UNCHANGED <<py, go, unicode>>
    BY <2>6 DEF intakeVars
  <2> QED BY <1>2, <2>1, <2>2, <2>3, <2>4, <2>5, <2>6, SameKept DEF IntakeNext
<1>3. SameInv => SameScan
  <2>1. SameInv /\ ~Reading /\ unicode = "good" => py.out = "digits" \/ Agreed(py, go)
    BY DEF SameInv, SideBySide, Reading
  <2>2. SameInv /\ unicode = "good" /\ py.out = "ok" => py.present = go.present /\ ~py.ill
    BY DEF SameInv, SideBySide, Agreed
  <2>3. SameInv /\ unicode = "good" /\ go.out = "model_count"
          => py.out \in {"reading", "model_count", "syntax", "digits"}
    BY DEF SameInv, SideBySide, Agreed
  <2>4. SameInv /\ unicode # "good" => py.out # "ok" /\ go.out = "structure"
    BY DEF SameInv, SurrogateInv
  <2>5. SameInv => Blamed(py) /\ Blamed(go)
    BY DEF SameInv
  <2> QED BY <2>1, <2>2, <2>3, <2>4, <2>5 DEF SameScan, Blamed, Agreed
<1> QED BY <1>1, <1>2, <1>3, ScansInvariant, PTL DEF Spec
-----------------------------------------------------------------------------
(* What is not beyond 64 bits fits Go's types.                             *)
LEMMA SignedFits ==
  ASSUME NEW d \in Facts, ~Beyond(d)
  PROVE  /\ \A n \in Signed(d) : n \in Int /\ n <= MaxInt
         /\ d.sequence \in Nat /\ d.counter \in Nat
<1>1. /\ d.version \in Int /\ d.sequence \in Int /\ d.counter \in Int /\ d.start \in Int
      /\ d.duration \in Int /\ d.from \in Int /\ d.to \in Int /\ d.emitted \in Int /\ MaxInt \in Nat
  BY DocumentAssumption DEF Facts, DocumentAssumption
<1>2. /\ \A n \in Signed(d) : ~(n > MaxInt)
      /\ ~(d.sequence < 0) /\ ~(d.counter < 0)
  BY DEF Beyond
<1>3. \A n \in Signed(d) : n \in Int
  BY <1>1 DEF Signed
<1> QED BY <1>1, <1>2, <1>3

(* The interval checks: Go's comes in an order in which no addition of     *)
(* 64-bit integers wraps around.                                           *)
LEMMA IntervalsAgree ==
  ASSUME NEW d \in Facts, ~Beyond(d)
  PROVE  /\ GoInterval(d) => {d.start, d.duration, d.from, d.to, d.emitted} \subseteq 0..MaxInt
         /\ {d.start, d.duration, d.from, d.to, d.emitted} \subseteq 0..MaxInt
              => (PyInterval(d) <=> GoInterval(d))
<1> DEFINE aligned == d.start % d.duration = 0
<1>1. /\ d.start \in Int /\ d.duration \in Int /\ d.from \in Int /\ d.to \in Int /\ d.emitted \in Int
      /\ d.start <= MaxInt /\ d.duration <= MaxInt /\ d.from <= MaxInt /\ d.to <= MaxInt /\ d.emitted <= MaxInt
      /\ MaxInt \in Nat /\ MaxDuration \in Nat
  <2>1. MaxInt \in Nat /\ MaxDuration \in Nat
    BY DocumentAssumption DEF DocumentAssumption
  <2>2. /\ d.start \in Int /\ d.duration \in Int /\ d.from \in Int /\ d.to \in Int /\ d.emitted \in Int
    BY DEF Facts
  <2>3. /\ ~(d.start > MaxInt) /\ ~(d.duration > MaxInt) /\ ~(d.from > MaxInt) /\ ~(d.to > MaxInt)
        /\ ~(d.emitted > MaxInt)
    BY <2>1, <2>2, SignedFits DEF Signed
  <2> QED BY <2>1, <2>2, <2>3
<1>2. d.start <= MaxInt - d.duration <=> d.start + d.duration <= MaxInt
  BY <1>1
<1>3. d.start + d.duration <= MaxInt => Wrap(d.start + d.duration) = d.start + d.duration
  BY <1>1 DEF Wrap
<1>4. PyInterval(d) <=> /\ 0 < d.duration /\ d.duration <= MaxDuration
                        /\ d.start + d.duration <= MaxInt
                        /\ aligned
                        /\ d.start <= d.from /\ d.from <= d.to /\ d.to <= d.start + d.duration
                        /\ d.emitted >= d.to
  BY DEF PyInterval
<1>5. GoInterval(d) <=> /\ d.duration > 0 /\ d.duration <= MaxDuration /\ d.start >= 0
                        /\ d.start <= MaxInt - d.duration
                        /\ aligned
                        /\ d.from >= d.start /\ d.to >= d.from
                        /\ d.to <= Wrap(d.start + d.duration)
                        /\ d.emitted >= d.to
  BY DEF GoInterval
<1> HIDE DEF aligned
<1> QED BY <1>1, <1>2, <1>3, <1>4, <1>5

(* Envelope._validate and Envelope.validate agree about every document of  *)
(* integers whose block both accept or neither, and give the same reason,  *)
(* unless an integer does not fit its type in Go: then neither accepts it. *)
THEOREM EnvelopeVerdicts ==
  ASSUME NEW d \in Facts, d.odd = {}, d.refusedBy \in {{}, {"py", "go"}}
  PROVE  IF Beyond(d) THEN PyEnvelope(d) # "ok" /\ GoEnvelope(d) # "ok"
         ELSE PyEnvelope(d) = GoEnvelope(d)
<1> DEFINE refused == d.refusedBy # {}
           small == Integers(d) \subseteq 0..MaxInt
           rest(interval, counted) ==
             IF d.version # 1 \/ d.sequence = 0 \/ ~d.identifiers \/ ~interval \/ ~counted THEN "summary"
             ELSE IF d.from = d.to /\ d.counter # 0 THEN "summary" ELSE "ok"
<1>1. PyEnvelope(d) = IF refused THEN "usage" ELSE IF ~small THEN "summary"
                      ELSE rest(PyInterval(d), d.counter \in 0..MaxInt)
  BY DEF PyEnvelope
<1>2. CASE Beyond(d)
  <2>1. GoEnvelope(d) # "ok"
    BY <1>2 DEF GoEnvelope, Misfit
  <2>2. small /\ d.counter \in 0..MaxInt => FALSE
    <3>1. MaxInt \in Nat
      BY DocumentAssumption DEF DocumentAssumption
    <3>2. ASSUME small, d.counter \in 0..MaxInt PROVE ~Beyond(d)
      <4>1. /\ \A n \in Signed(d) : n \in 0..MaxInt
            /\ d.sequence \in 0..MaxInt /\ d.counter \in 0..MaxInt
        BY <3>2 DEF Integers
      <4>2. \A n \in 0..MaxInt : ~(n < -(MaxInt + 1)) /\ ~(n > MaxInt) /\ ~(n < 0) /\ ~(n > 2 * MaxInt + 1)
        BY <3>1
      <4> QED BY <4>1, <4>2 DEF Beyond
    <3> QED BY <1>2, <3>2
  <2> QED BY <1>1, <1>2, <2>1, <2>2
<1>3. CASE ~Beyond(d)
  <2>1. GoEnvelope(d) = IF refused THEN "usage" ELSE IF d.sequence > MaxInt THEN "summary"
                        ELSE rest(GoInterval(d), ~(d.counter > MaxInt))
    BY <1>3 DEF GoEnvelope, Misfit
  <2>2. /\ d.sequence \in Nat /\ d.counter \in Nat /\ MaxInt \in Nat \ {0}
        /\ \A n \in Signed(d) : n \in Int /\ n <= MaxInt
    BY <1>3, SignedFits, DocumentAssumption DEF DocumentAssumption
  <2>3. d.counter \in 0..MaxInt <=> ~(d.counter > MaxInt)
    BY <2>2
  <2>4. small => ~(d.sequence > MaxInt) /\ (PyInterval(d) <=> GoInterval(d))
    <3>1. small => {d.start, d.duration, d.from, d.to, d.emitted} \subseteq 0..MaxInt
      BY DEF Integers, Signed
    <3>2. small => d.sequence \in 0..MaxInt
      BY DEF Integers
    <3> QED BY <1>3, <2>2, <3>1, <3>2, IntervalsAgree
  <2>5. ~small /\ d.version = 1 /\ GoInterval(d) => d.sequence > MaxInt
    <3>1. GoInterval(d) => {d.start, d.duration, d.from, d.to, d.emitted} \subseteq 0..MaxInt
      BY <1>3, IntervalsAgree
    <3>2. d.version = 1 => d.version \in 0..MaxInt
      BY <2>2
    <3>3. d.sequence > MaxInt \/ d.sequence \in 0..MaxInt
      BY <2>2
    <3> QED BY <3>1, <3>2, <3>3 DEF Integers, Signed
  <2> HIDE DEF refused, small
  <2> QED BY <1>1, <1>3, <2>1, <2>3, <2>4, <2>5
<1> QED BY <1>2, <1>3
-----------------------------------------------------------------------------
(* The two parsers of a message.                                           *)

\* What protobuf decodes has field numbers that both scans let pass.
LEMMA SameBounds ==
  ASSUME NEW data, NEW k, ProtobufAccepts(data)
  PROVE  PyBounded(data, k) <=> GoBounded(data, k)
<1>1. \A f : Passed(f, MaxValidNumber) => Passed(f, MaxTagNumber)
  <2>1. MaxValidNumber \in Nat /\ MaxTagNumber \in Nat /\ MaxValidNumber <= MaxTagNumber
    BY SMT DEF MaxValidNumber, MaxTagNumber
  <2> QED BY <2>1, SMT DEF Passed
<1>2. NoGroups(data, MaxValidNumber) /\ NoGroups(data, MaxTagNumber)
  <2>1. NoGroups(data, MaxValidNumber)
    BY DEF ProtobufAccepts
  <2> SUFFICES ASSUME NEW i \in DOMAIN data
               PROVE  /\ Passed(data[i], MaxTagNumber)
                      /\ IsHeader(data[i]) \/ IsBody(data[i]) =>
                           \A j \in DOMAIN data[i].body :
                             /\ Passed(data[i].body[j], MaxTagNumber)
                             /\ data[i].num \in {10, 11} /\ IsEntry(data[i].body[j]) =>
                                  \A n \in DOMAIN data[i].body[j].body : Passed(data[i].body[j].body[n], MaxTagNumber)
    BY <2>1, Zenon DEF NoGroups
  <2>2. /\ Passed(data[i], MaxValidNumber)
        /\ IsHeader(data[i]) \/ IsBody(data[i]) =>
             \A j \in DOMAIN data[i].body :
               /\ Passed(data[i].body[j], MaxValidNumber)
               /\ data[i].num \in {10, 11} /\ IsEntry(data[i].body[j]) =>
                    \A n \in DOMAIN data[i].body[j].body : Passed(data[i].body[j].body[n], MaxValidNumber)
    BY <2>1, Zenon DEF NoGroups
  <2> QED BY <1>1, <2>2, Zenon
<1> QED BY <1>2, SMT DEF PyBounded, GoBounded, Bounded

(* Python and Go accept the same bytes as a sketch of a kind and as a      *)
(* payload of a summary, as at most one kind, and refuse them for the same *)
(* reason, but for the order in which two faults of an HLL++ header are    *)
(* noticed; whatever the profiles, the caps and the message.               *)
THEOREM SameParse ==
  ASSUME NEW data, NEW k \in Kinds
  PROVE  /\ PyParse(data, k) # GoParse(data, k) =>
              k = HLLPP /\ PyParse(data, k) = "shape" /\ GoParse(data, k) = "keying"
         /\ PyPayload(data, k) = GoPayload(data, k)
         /\ \A n \in Kinds : PyParse(data, k) = "accepted" /\ PyParse(data, n) = "accepted" => n = k
<1> DEFINE m == Decoded(data)
           fits(n) == PyBounded(data, n) /\ ProtobufAccepts(data)
<1>1. GoBounded(data, k) /\ ProtobufAccepts(data) <=> fits(k)
  BY SameBounds
<1> HIDE DEF m, fits
<1>2. PyParse(data, k) =
        IF ~fits(k) THEN "wire"
        ELSE IF ~Present(m, k) \/ ~HeaderAccepted(m, k) \/ ~EarlyMode(m, k) THEN "wire"
        ELSE IF m.profile \notin DOMAIN Profiles[k] THEN "profile"
        ELSE IF ~ShapeAccepted(m, k) THEN "shape"
        ELSE IF ~KeyingAccepted(m) THEN "keying"
        ELSE IF ~BodyAccepted(m, k) THEN "wire" ELSE "accepted"
  BY DEF PyParse, m, fits
<1>3. GoParse(data, k) =
        IF ~fits(k) THEN "wire"
        ELSE IF ~Present(m, k) \/ ~HeaderAccepted(m, k) \/ ~EarlyMode(m, k) THEN "wire"
        ELSE IF m.profile \notin DOMAIN Profiles[k] THEN "profile"
        ELSE IF k = HLLPP /\ ~KeyingAccepted(m) THEN "keying"
        ELSE IF ~ShapeAccepted(m, k) THEN "shape"
        ELSE IF ~KeyingAccepted(m) THEN "keying"
        ELSE IF ~BodyAccepted(m, k) THEN "wire" ELSE "accepted"
  <2>1. GoParse(data, k) =
          IF ~GoBounded(data, k) \/ ~ProtobufAccepts(data) THEN "wire"
          ELSE IF ~Present(m, k) \/ ~HeaderAccepted(m, k) \/ ~EarlyMode(m, k) THEN "wire"
          ELSE IF m.profile \notin DOMAIN Profiles[k] THEN "profile"
          ELSE IF k = HLLPP /\ ~KeyingAccepted(m) THEN "keying"
          ELSE IF ~ShapeAccepted(m, k) THEN "shape"
          ELSE IF ~KeyingAccepted(m) THEN "keying"
          ELSE IF ~BodyAccepted(m, k) THEN "wire" ELSE "accepted"
    BY DEF GoParse, m
  <2> QED BY <1>1, <2>1
<1>4. PyParse(data, k) # GoParse(data, k) =>
        k = HLLPP /\ PyParse(data, k) = "shape" /\ GoParse(data, k) = "keying"
  BY <1>2, <1>3
<1>5. PyPayload(data, k) = GoPayload(data, k)
  <2>1. PyParse(data, k) = "accepted" <=> GoParse(data, k) = "accepted"
    BY <1>4
  <2>2. PyPayload(data, k) \in BOOLEAN /\ GoPayload(data, k) \in BOOLEAN
    BY DEF PyPayload, GoPayload
  <2>3. PyPayload(data, k) <=> GoPayload(data, k)
    BY <2>1 DEF PyPayload, GoPayload
  <2> QED BY <2>2, <2>3
<1>6. ASSUME NEW n \in Kinds, PyParse(data, n) = "accepted" PROVE m.body = 9 + n
  BY <1>6 DEF PyParse, Present, BodyOf, m
<1>7. ASSUME NEW n \in Kinds, PyParse(data, k) = "accepted", PyParse(data, n) = "accepted" PROVE n = k
  BY <1>6, <1>7 DEF Kinds
<1> QED BY <1>4, <1>5, <1>7

(* In every state of the intake, of every message that was built up.       *)
THEOREM SameDecisionCorrect == Spec => []SameDecision
<1>1. SameDecision
  <2> DEFINE accepted == {k \in Kinds : PyParse(wire, k) = "accepted"}
  <2>1. \A k, n \in Kinds : PyParse(wire, k) = "accepted" /\ PyParse(wire, n) = "accepted" => n = k
    BY SameParse
  <2>2. accepted = {} \/ \E k : accepted = {k}
    BY <2>1
  <2> HIDE DEF accepted
  <2>3. Cardinality(accepted) <= 1
    BY <2>2, FS_EmptySet, FS_Singleton
  <2> USE DEF accepted
  <2>4. \A k \in Kinds :
          /\ PyParse(wire, k) # GoParse(wire, k) =>
               k = HLLPP /\ PyParse(wire, k) = "shape" /\ GoParse(wire, k) = "keying"
          /\ PyPayload(wire, k) = GoPayload(wire, k)
    BY SameParse
  <2> QED BY <2>3, <2>4 DEF SameDecision
<1> QED BY <1>1, PTL

-----------------------------------------------------------------------------
(* The whole intake.                                                       *)

\* The verdicts so far, after the scan and after the envelope.
ScannedInv ==
  /\ stage = "scan" => verdict = [py |-> "ok", go |-> "ok"]
  /\ stage = "envelope" =>
       /\ verdict = [py |-> py.out, go |-> "ok"] /\ py.out \in {"ok", "digits"} /\ go.out = "ok"
JudgedInv ==
  stage = "payload" =>
    /\ verdict.py # "accepted" /\ verdict.go # "accepted"
    /\ facts.canonical => (verdict.py = "ok" <=> verdict.go = "ok")
    /\ verdict.py = "ok" => facts.sound /\ py.out = "ok" /\ py.present = facts.usage
    /\ (verdict.go \in UsageReason) # (verdict.py \in UsageReason) => ~facts.plain
IntakeInv == ScannedInv /\ JudgedInv /\ SameIntake

LEMMA EnvelopeJudged ==
  ASSUME NEW d \in Document
  PROVE  /\ PyEnvelope(d) # "accepted" /\ GoEnvelope(d) # "accepted"
         /\ d.canonical => (PyEnvelope(d) = "ok" <=> GoEnvelope(d) = "ok")
         /\ PyEnvelope(d) = "ok" => d.odd = {} /\ Integers(d) \subseteq 0..MaxInt /\ PyInterval(d)
         /\ (GoEnvelope(d) \in UsageReason) # (PyEnvelope(d) \in UsageReason) => d.odd # {} \/ Beyond(d)
<1>1. d \in Facts /\ (d.canonical => d.odd = {}) /\ (d.odd = {} => d.refusedBy \in {{}, {"py", "go"}})
  <2>1. /\ d \in Facts /\ (d.odd # {} => ~d.canonical)
        /\ d.odd \cap {"wrong_type", "null"} = {} => d.refusedBy \in {{}, {"py", "go"}}
    BY DocumentAssumption DEF DocumentAssumption
  <2> QED BY <2>1
<1>2. d.canonical => (PyEnvelope(d) = "ok" <=> GoEnvelope(d) = "ok")
  BY <1>1, EnvelopeVerdicts
<1>3. /\ PyEnvelope(d) # "accepted" /\ GoEnvelope(d) # "accepted"
      /\ PyEnvelope(d) = "ok" => d.odd = {} /\ Integers(d) \subseteq 0..MaxInt /\ PyInterval(d)
  BY DEF PyEnvelope, GoEnvelope
<1>4. d.odd = {} /\ ~Beyond(d) => PyEnvelope(d) = GoEnvelope(d)
  BY <1>1, EnvelopeVerdicts
<1> QED BY <1>2, <1>3, <1>4

LEMMA IntakeScanned ==
  ASSUME ScansInv, SameScan, stage = "scan", verdict = [py |-> "ok", go |-> "ok"], Scanned
  PROVE  ScannedInv' /\ JudgedInv' /\ SameIntake'
<1>1. /\ ~Reading
      /\ verdict' = [py |-> py.out, go |-> go.out] /\ py' = Returned(py) /\ go' = Returned(go)
      /\ stage' = IF "ok" \in {py.out, go.out} THEN "envelope" ELSE "read"
  BY DEF Scanned
<1>2. (py.out = "ok" => go.out = "ok") /\ (go.out = "ok" => py.out \in {"ok", "digits"})
  BY <1>1 DEF SameScan
<1>3. CASE go.out = "ok"
  <2>1. stage' = "envelope" /\ verdict' = [py |-> py.out, go |-> "ok"]
    BY <1>1, <1>3
  <2>2. py'.out = py.out /\ go'.out = "ok"
    BY <1>1, <1>3 DEF Returned, Start
  <2> QED BY <1>2, <1>3, <2>1, <2>2 DEF ScannedInv, JudgedInv, SameIntake
<1>4. CASE go.out # "ok"
  <2>1. stage' = "read"
    BY <1>1, <1>2, <1>4
  <2>2. verdict'.py = py.out /\ verdict'.go = go.out
    BY <1>1
  <2>3. py.out \notin {"accepted", "range", "usage"} /\ go.out \notin {"accepted", "range", "usage"}
    BY DEF ScansInv, ScanInv, Scans, Reasons, Outcome
  <2> QED BY <2>1, <2>2, <2>3 DEF ScannedInv, JudgedInv, SameIntake, Accepted, UsageReason
<1> QED BY <1>3, <1>4

LEMMA IntakeEnvelope ==
  ASSUME ScannedInv, stage = "envelope", NEW d \in Document, Validated(d)
  PROVE  ScannedInv' /\ JudgedInv' /\ SameIntake'
<1>1. /\ stage = "envelope" /\ verdict.py = py.out /\ verdict.go = "ok" /\ py.out \in {"ok", "digits"}
      /\ verdict.py = "ok" => d.present = py.present
      /\ verdict.py = "digits" => Misfit(d)
      /\ facts' = Kept(d) /\ UNCHANGED <<py, go, wire>>
      /\ stage' = IF "ok" \in {verdict'.py, verdict'.go} THEN "payload" ELSE "read"
      /\ verdict' = [py |-> IF verdict.py = "ok" THEN PyEnvelope(d) ELSE verdict.py,
                     go |-> IF verdict.go = "ok" THEN GoEnvelope(d) ELSE verdict.go]
  BY DEF Validated, ScannedInv
<1>2. /\ verdict'.py = IF py.out = "ok" THEN PyEnvelope(d) ELSE "digits"
      /\ verdict'.go = GoEnvelope(d)
  BY <1>1
<1>3. /\ facts'.canonical = d.canonical /\ facts'.usage = d.present
      /\ facts'.plain = (d.odd = {} /\ ~Beyond(d))
      /\ d.odd = {} /\ Integers(d) \subseteq 0..MaxInt /\ PyInterval(d) => facts'.sound
  BY <1>1 DEF Kept
<1>4. Misfit(d) => GoEnvelope(d) # "ok" /\ ~(d.odd = {} /\ ~Beyond(d))
  BY DEF Misfit, GoEnvelope
<1>5. /\ verdict'.py # "accepted" /\ verdict'.go # "accepted"
      /\ facts'.canonical => (verdict'.py = "ok" <=> verdict'.go = "ok")
      /\ verdict'.py = "ok" => facts'.sound /\ py.out = "ok"
      /\ (verdict'.go \in UsageReason) # (verdict'.py \in UsageReason) => ~facts'.plain
  BY <1>1, <1>2, <1>3, <1>4, EnvelopeJudged DEF UsageReason
<1>6. verdict'.py = "ok" => py'.out = "ok" /\ py'.present = facts'.usage
  BY <1>1, <1>3, <1>5
<1>7. ScannedInv'
  BY <1>1 DEF ScannedInv
<1>8. JudgedInv'
  BY <1>5, <1>6 DEF JudgedInv, UsageReason
<1>9. SameIntake'
  BY <1>5 DEF SameIntake, Accepted, UsageReason
<1> QED BY <1>7, <1>8, <1>9

LEMMA IntakePayload ==
  ASSUME JudgedInv, NEW k \in Kinds, ReadPayload(k)
  PROVE  ScannedInv' /\ JudgedInv' /\ SameIntake'
<1> DEFINE good == PyPayload(wire, k)
           empty == facts.zeroLength => EmptyState(State(Decoded(wire), k))
<1>1. /\ stage = "payload" /\ stage' = "read" /\ UNCHANGED <<facts, py, go, wire>>
      /\ verdict' = [py |-> Judged(verdict.py, PyPayload(wire, k), k), go |-> Judged(verdict.go, GoPayload(wire, k), k)]
  BY DEF ReadPayload
<1>2. /\ verdict'.py = Judged(verdict.py, good, k)
      /\ verdict'.go = Judged(verdict.go, good, k)
  BY <1>1, SameParse
<1>3. \A v : Judged(v, good, k) = IF v # "ok" THEN v
                                  ELSE IF good /\ empty /\ facts.canonical THEN "accepted" ELSE "summary"
  BY DEF Judged
<1>4. /\ verdict.py # "accepted" /\ verdict.go # "accepted"
      /\ facts.canonical => (verdict.py = "ok" <=> verdict.go = "ok")
      /\ verdict.py = "ok" => facts.sound /\ py.out = "ok" /\ py.present = facts.usage
      /\ (verdict.go \in UsageReason) # (verdict.py \in UsageReason) => ~facts.plain
  BY <1>1 DEF JudgedInv
<1>5. ASSUME good, empty, NEW n \in Kinds, PyPayload(wire, n), facts.zeroLength
      PROVE  EmptyState(State(Decoded(wire), n))
  <2>1. n = k
    BY <1>5, SameParse DEF PyPayload
  <2> QED BY <1>5, <2>1
<1> HIDE DEF good, empty
<1>6. verdict'.py = "accepted" <=> verdict.py = "ok" /\ good /\ empty /\ facts.canonical
  BY <1>2, <1>3, <1>4
<1>7. verdict'.go = "accepted" <=> verdict.go = "ok" /\ good /\ empty /\ facts.canonical
  BY <1>2, <1>3, <1>4
<1>8. (verdict'.py = "accepted") = (verdict'.go = "accepted")
  BY <1>4, <1>6, <1>7
<1>9. (verdict'.go \in UsageReason) # (verdict'.py \in UsageReason) => ~facts.plain
  <2>1. /\ verdict'.go \in UsageReason <=> verdict.go \in UsageReason
        /\ verdict'.py \in UsageReason <=> verdict.py \in UsageReason
    BY <1>2, <1>3 DEF UsageReason
  <2> QED BY <1>4, <2>1
<1>10. verdict'.py = "accepted" => HasModelUsage(py) = (IF facts.usage THEN "present" ELSE "absent")
  BY <1>4, <1>6 DEF HasModelUsage
<1>11. ScannedInv' /\ JudgedInv'
  BY <1>1 DEF ScannedInv, JudgedInv
<1>12. verdict'.py = "accepted" =>
         \A n \in Kinds : PyPayload(wire, n) /\ facts.zeroLength => EmptyState(State(Decoded(wire), n))
  BY <1>5, <1>6
<1>13. wire' = wire /\ facts' = facts /\ py' = py
  BY <1>1
<1>14. SameIntake'
  <2>1. verdict'.py = "accepted" => facts.sound /\ facts.canonical
    BY <1>4, <1>6
  <2>2. \A n \in Kinds : /\ PyPayload(wire, n)' = PyPayload(wire, n)
                         /\ EmptyState(State(Decoded(wire), n))' = EmptyState(State(Decoded(wire), n))
    BY <1>13
  <2> QED BY <1>8, <1>9, <1>10, <1>12, <1>13, <2>1, <2>2 DEF SameIntake, Accepted, HasModelUsage, UsageReason
<1> QED BY <1>11, <1>14

LEMMA IntakeKept ==
  ASSUME IntakeInv, UNCHANGED <<stage, facts, verdict>>, stage # "scan" => py' = py /\ go' = go,
         stage = "read" => wire' = wire
  PROVE  IntakeInv'
<1>1. ScannedInv' /\ JudgedInv'
  BY DEF IntakeInv, ScannedInv, JudgedInv, UsageReason
<1>2. SameIntake'
  <2>1. CASE stage # "read"
    BY <2>1 DEF SameIntake
  <2>2. CASE stage = "read"
    <3>1. wire' = wire /\ py' = py
      BY <2>2
    <3>2. \A n \in Kinds : /\ PyPayload(wire, n)' = PyPayload(wire, n)
                           /\ EmptyState(State(Decoded(wire), n))' = EmptyState(State(Decoded(wire), n))
      BY <3>1
    <3> QED BY <3>1, <3>2 DEF IntakeInv, SameIntake, Accepted, HasModelUsage, UsageReason
  <2> QED BY <2>1, <2>2
<1> QED BY <1>1, <1>2 DEF IntakeInv

(* Whatever the document, its text and its payload, and whatever the       *)
(* tables and the width of the integers: Envelope.parse and Parse accept   *)
(* the same documents, what they accept is what SameIntake says it is, and *)
(* they lay the same failures to the model usage, but for documents with a *)
(* value that is odd or that does not fit its type in Go.                  *)
THEOREM SameIntakeCorrect == Spec => []SameIntake
<1>1. IntakeInit => IntakeInv
  BY DEF IntakeInit, IntakeInv, ScannedInv, JudgedInv, SameIntake
<1>2. ASSUME IntakeInv, ScansInv, SameScan, [IntakeNext]_intakeVars PROVE IntakeInv'
  <2>1. CASE Scan
    <3>1. UNCHANGED <<stage, facts, verdict>> /\ stage = "scan"
      BY <2>1 DEF Scan
    <3> QED BY <1>2, <3>1, IntakeKept
  <2>2. CASE Scanned
    <3>1. stage = "scan" /\ verdict = [py |-> "ok", go |-> "ok"]
      BY <1>2, <2>2 DEF Scanned, IntakeInv, ScannedInv
    <3> QED BY <1>2, <2>2, <3>1, IntakeScanned DEF IntakeInv
  <2>3. CASE ReadEnvelope
    <3>1. PICK d \in Document : stage = "envelope" /\ Validated(d)
      BY <2>3 DEF ReadEnvelope
    <3> QED BY <1>2, <3>1, IntakeEnvelope DEF IntakeInv
  <2>4. CASE GrowPayload
    <3>1. UNCHANGED <<stage, facts, verdict, py, go>> /\ stage = "payload"
      BY <2>4 DEF GrowPayload
    <3> QED BY <1>2, <3>1, IntakeKept
  <2>5. ASSUME NEW k \in Kinds, ReadPayload(k) PROVE IntakeInv'
    BY <1>2, <2>5, IntakePayload DEF IntakeInv
  <2>6. CASE UNCHANGED intakeVars
    <3>1. UNCHANGED <<stage, facts, verdict, py, go, wire>>
      BY <2>6 DEF intakeVars
    <3> QED BY <1>2, <3>1, IntakeKept
  <2> QED BY <1>2, <2>1, <2>2, <2>3, <2>4, <2>5, <2>6 DEF IntakeNext
<1>3. IntakeInv => SameIntake
  BY DEF IntakeInv
<1> QED BY <1>1, <1>2, <1>3, ScansInvariant, SameScanCorrect, PTL DEF Spec

-----------------------------------------------------------------------------
(* Combining summaries. *)

(* What validating, selecting and adding up may report.                    *)
Errors == {"none", "invalid", "unexpected", "window", "contract", "conflict", "regressed",
           "overflow", "merge"}
(* Payloads, and the values the folds of the two combines go through, over *)
(* documents in D.                                                         *)
Payloads(D) == {d.sketch : d \in D}
Sums(D) == [error : Errors, count : Int, sketch : Seq(Payloads(D)), weight : Int,
            cache : Seq(Payloads(D)), mine : BOOLEAN]
Chosen(D) == [error : Errors, selected : Seq(D)]
Passes(D) == [error : Errors, summed : Sums(D), selected : Seq(D)]
Walks     == [end : Int, overlap : BOOLEAN, gap : BOOLEAN]

(* The last member of a sequence, and those before it.                     *)
LEMMA FrontIs ==
  ASSUME NEW D, NEW s \in Seq(D), s # <<>>
  PROVE  /\ Len(s) \in Nat \ {0} /\ Last(s) \in D /\ Last(s) = s[Len(s)]
         /\ Front(s) \in Seq(D) /\ Len(Front(s)) = Len(s) - 1
         /\ \A i \in 1 .. Len(s) - 1 : Front(s)[i] = s[i]
<1>1. Len(s) \in Nat \ {0}
  OBVIOUS
<1>2. Front(s) = [i \in 1 .. Len(s) - 1 |-> s[i]]
  BY <1>1 DEF Front
<1> QED BY <1>1, <1>2 DEF Last

(* Selecting from documents in D gives documents in D, and one of the      *)
(* errors.                                                                 *)
LEMMA SelectedType ==
  ASSUME NEW D, NEW s \in Seq(D), NEW d \in D
  PROVE  Selected(s, d) \in Seq(D) /\ SelectionError(s, d) \in Errors
<1>1. Selected(s, d) \in Seq(D)
  <2>1. CASE s # <<>> /\ SameEpoch(Last(s), d)
    BY <2>1, FrontIs DEF Selected
  <2>2. CASE ~ (s # <<>> /\ SameEpoch(Last(s), d))
    BY <2>2 DEF Selected
  <2> QED BY <2>1, <2>2
<1>2. SelectionError(s, d) \in Errors
  BY DEF SelectionError, Errors
<1> QED BY <1>1, <1>2

(* Adding a document to a sum gives a sum.                                 *)
LEMMA AddedType ==
  ASSUME NEW D, NEW acc \in Sums(D), NEW d, d.count \in Int, d.sketch.weight \in Int,
         NEW payload \in Seq(Payloads(D))
  PROVE  Added(acc, d, payload) \in Sums(D)
<1>1. Merged(acc, payload) \in Seq(Payloads(D))
  BY DEF Merged, Sums
<1>2. /\ acc.error \in Errors /\ acc.count \in Int /\ acc.weight \in Int
      /\ acc.sketch \in Seq(Payloads(D))
  BY DEF Sums
<1>3. "overflow" \in Errors /\ "merge" \in Errors
  BY DEF Errors
<1> HIDE DEF Payloads, Errors
<1>4. /\ [acc EXCEPT !.error = "overflow"] \in Sums(D)
      /\ [acc EXCEPT !.error = "merge"] \in Sums(D)
  BY <1>3 DEF Sums
<1>5. [acc EXCEPT !.count = @ + d.count, !.weight = @ + d.sketch.weight,
                  !.sketch = Merged(acc, payload)] \in Sums(D)
  <2> DEFINE c == acc.count + d.count
             w == acc.weight + d.sketch.weight
             k == Merged(acc, payload)
  <2>1. c \in Int /\ w \in Int /\ k \in Seq(Payloads(D))
    BY <1>1, <1>2
  <2>2. SUFFICES [acc EXCEPT !.count = c, !.weight = w, !.sketch = k] \in Sums(D)
    BY DEF c, w, k
  <2> HIDE DEF c, w, k
  <2>3. [acc EXCEPT !.count = c] \in Sums(D)
    BY <2>1 DEF Sums
  <2>4. [[acc EXCEPT !.count = c] EXCEPT !.weight = w] \in Sums(D)
    BY <2>1, <2>3 DEF Sums
  <2>5. [[[acc EXCEPT !.count = c] EXCEPT !.weight = w] EXCEPT !.sketch = k] \in Sums(D)
    BY <2>1, <2>4 DEF Sums
  <2> QED BY <2>5
<1> QED BY <1>4, <1>5 DEF Added

(* The first error of a scan is an error.                                  *)
LEMMA ScanType ==
  ASSUME NEW e \in Errors, NEW d PROVE First(e, ScanError(d)) \in Errors
BY DEF First, ScanError, Ok, Errors

(* A step of the selection in Python stays among its values.               *)
LEMMA SelectType ==
  ASSUME NEW D, NEW st \in Chosen(D), NEW d \in D PROVE PySelect(st, d) \in Chosen(D)
<1>1. st.error \in Errors /\ st.selected \in Seq(D)
  BY DEF Chosen
<1>2. Selected(st.selected, d) \in Seq(D) /\ SelectionError(st.selected, d) \in Errors
  BY <1>1, SelectedType
<1> QED BY <1>1, <1>2 DEF PySelect, First, Chosen

(* A step of adding up in Python stays among the sums.                     *)
LEMMA PyAddType ==
  ASSUME NEW D, \A d \in D : Numbered(d), NEW acc \in Sums(D), NEW d \in D
  PROVE  PyAdd(acc, d) \in Sums(D)
<1>1. d.count \in Int /\ d.sketch.weight \in Int /\ <<d.sketch>> \in Seq(Payloads(D))
      /\ acc.sketch \in Seq(Payloads(D))
  BY DEF Numbered, Payloads, Sums
<1>2. Added(acc, d, <<d.sketch>>) \in Sums(D) /\ Added(acc, d, acc.sketch) \in Sums(D)
  BY <1>1, AddedType
<1> DEFINE payload == IF acc.mine THEN acc.sketch ELSE <<d.sketch>>
           sum == Added(acc, d, payload)
           after == Forgotten(sum, d)
<1>3. sum \in Sums(D)
  BY <1>2
<1> HIDE DEF Payloads, sum
<1>4. after \in Sums(D)
  <2>1. <<>> \in Seq(Payloads(D))
    OBVIOUS
  <2> HIDE DEF Errors
  <2> QED BY <1>3, <2>1 DEF Forgotten, Sums
<1>5. [after EXCEPT !.mine = @ \/ acc.sketch = <<>>] \in Sums(D)
  <2> HIDE DEF after
  <2> QED BY <1>4 DEF Sums
<1>6. CASE Cached(acc, d)
  BY <1>5, <1>6 DEF PyAdd, sum
<1>7. CASE ~ Cached(acc, d)
  BY <1>2, <1>7 DEF PyAdd
<1> QED BY <1>6, <1>7

(* Go, adding up the document held back, stays among the sums.             *)
LEMMA AddLastType ==
  ASSUME NEW D, \A d \in D : Numbered(d), NEW st \in Passes(D), st.selected # <<>>
  PROVE  AddLast(st) \in Sums(D)
<1>1. st.summed \in Sums(D) /\ Last(st.selected) \in D
  BY FrontIs DEF Passes
<1> DEFINE d == Last(st.selected)
<1>2. d.count \in Int /\ d.sketch.weight \in Int /\ <<d.sketch>> \in Seq(Payloads(D))
  BY <1>1 DEF Numbered, Payloads
<1> QED BY <1>1, <1>2, AddedType DEF AddLast

(* A step of the pass in Go stays among its values.                        *)
LEMMA PassStepType ==
  ASSUME NEW D, \A d \in D : Numbered(d), NEW st \in Passes(D), NEW d \in D
  PROVE  PassStep(st, d) \in Passes(D)
<1>1. st.error \in Errors /\ st.summed \in Sums(D) /\ st.selected \in Seq(D)
  BY DEF Passes
<1>2. Selected(st.selected, d) \in Seq(D) /\ SelectionError(st.selected, d) \in Errors
  BY <1>1, SelectedType
<1>3. EpochEnds(st, d) => AddLast(st) \in Sums(D)
  BY AddLastType DEF EpochEnds
<1>4. First(st.error, PassError(st, d)) \in Errors
  BY <1>1, <1>2 DEF First, PassError, ScanError, Errors
<1> HIDE DEF Sums
<1> QED BY <1>1, <1>2, <1>3, <1>4 DEF PassStep, Passes

(* A step of a walk over the parts of a producer stays among its values.   *)
LEMMA WalkedType ==
  ASSUME NEW d, Numbered(d), NEW w \in Walks PROVE Walked(w, d) \in Walks
BY DEF Walked, Walks, Numbered

(* Folds from the left, as the sequence of their values.                   *)
SelectSteps(f, base, seq) ==
  f[0] = base /\ \A k \in 1 .. Len(seq) : f[k] = PySelect(f[k - 1], seq[k])
AddSteps(f, base, seq) ==
  f[0] = base /\ \A k \in 1 .. Len(seq) : f[k] = PyAdd(f[k - 1], seq[k])
PassSteps(f, base, seq) ==
  f[0] = base /\ \A k \in 1 .. Len(seq) : f[k] = PassStep(f[k - 1], seq[k])

(* Validation in Python is the last of its steps.                          *)
LEMMA ScanFold ==
  ASSUME NEW D,  NEW seq \in Seq(D), NEW base \in Errors
  PROVE  \E f \in [0 .. Len(seq) -> Errors] :
           /\ FoldLeft(LAMBDA e, d : First(e, ScanError(d)), base, seq) = f[Len(seq)]
           /\ f[0] = base
           /\ \A k \in 1 .. Len(seq) : f[k] = First(f[k - 1], ScanError(seq[k]))
<1> DEFINE n == Len(seq)
           X == Errors
           step == [z \in X \X (1 .. n) |-> First(z[1], ScanError(seq[z[2]]))]
           IsFold(g) == g = [s \in SUBSET (1 .. n) |->
                               IF s = {} THEN base ELSE First(g[s \ {Max(s)}], ScanError(seq[Max(s)]))]
           chosen == CHOOSE g : IsFold(g)
<1>0. n \in Nat /\ DOMAIN seq = 1 .. n /\ base \in X
  OBVIOUS
<1>1. ASSUME NEW w \in X, NEW i \in 1 .. n
      PROVE  First(w, ScanError(seq[i])) \in X /\ step[<<w, i>>] = First(w, ScanError(seq[i]))
  <2>1. seq[i] \in D
    BY <1>0
  <2>2. First(w, ScanError(seq[i])) \in X
    BY <2>1, ScanType
  <2> HIDE DEF X
  <2> QED BY <2>2
<1> HIDE DEF X
<1>2. step \in [X \X (1 .. n) -> X]
  BY <1>1
<1> HIDE DEF step
<1>3. ASSUME NEW s \in SUBSET (1 .. n), s # {} PROVE Max(s) \in 1 .. n /\ s \ {Max(s)} \in SUBSET (1 .. n)
  BY <1>0, <1>3, MaxOfPart
<1>4. \E g : IsFold(g)
  <2>1. PICK g \in [SUBSET (1 .. n) -> X] : Folded(g, base, step, n)
    BY <1>0, <1>2, FoldExists
  <2>2. ASSUME NEW s \in SUBSET (1 .. n)
        PROVE  g[s] = IF s = {} THEN base ELSE First(g[s \ {Max(s)}], ScanError(seq[Max(s)]))
    BY <1>1, <1>3, <2>1 DEF Folded, Rest
  <2>3. IsFold(g)
    BY <2>2
  <2> QED BY <2>3
<1>5. IsFold(chosen)
  BY <1>4
<1>6. FoldLeft(LAMBDA e, d : First(e, ScanError(d)), base, seq) = chosen[1 .. n]
  BY <1>0 DEF FoldLeft, MapThenFoldSet
<1> HIDE DEF chosen
<1>7. Follows(chosen, X, base, step, n)
  <2>1. chosen[{}] = base
    BY <1>5
  <2>2. ASSUME NEW s \in SUBSET (1 .. n), s # {}, chosen[Rest(s)] \in X
        PROVE  chosen[s] = step[<<chosen[Rest(s)], Max(s)>>]
    BY <1>1, <1>3, <1>5, <2>2 DEF Rest
  <2> QED BY <2>1, <2>2 DEF Follows
<1>8. PICK f \in [0 .. n -> X] : Steps(f, base, step, n) /\ chosen[1 .. n] = f[n]
  <2> HIDE DEF IsFold, n
  <2>1. \E f \in [0 .. n -> X] : Unrolled(f, X, base, step, n)
    BY <1>0, <1>2, FoldSteps
  <2> QED BY <1>7, <2>1 DEF Unrolled
<1>9. ASSUME NEW k \in 1 .. n PROVE f[k] = First(f[k - 1], ScanError(seq[k]))
  <2>1. f[k - 1] \in X
    BY <1>0
  <2> QED BY <1>1, <1>8, <2>1 DEF Steps
<1> QED BY <1>6, <1>8, <1>9 DEF Steps, X

(* Selection in Python is the last of its steps.                           *)
LEMMA SelectFold ==
  ASSUME NEW D,  NEW seq \in Seq(D), NEW base \in Chosen(D)
  PROVE  \E f \in [0 .. Len(seq) -> Chosen(D)] :
           /\ FoldLeft(PySelect, base, seq) = f[Len(seq)]
           /\ SelectSteps(f, base, seq)
<1> DEFINE n == Len(seq)
           X == Chosen(D)
           step == [z \in X \X (1 .. n) |-> PySelect(z[1], seq[z[2]])]
           IsFold(g) == g = [s \in SUBSET (1 .. n) |->
                               IF s = {} THEN base ELSE PySelect(g[s \ {Max(s)}], seq[Max(s)])]
           chosen == CHOOSE g : IsFold(g)
<1>0. n \in Nat /\ DOMAIN seq = 1 .. n /\ base \in X
  OBVIOUS
<1>1. ASSUME NEW w \in X, NEW i \in 1 .. n
      PROVE  PySelect(w, seq[i]) \in X /\ step[<<w, i>>] = PySelect(w, seq[i])
  <2>1. seq[i] \in D
    BY <1>0
  <2>2. PySelect(w, seq[i]) \in X
    BY <2>1, SelectType
  <2> HIDE DEF X
  <2> QED BY <2>2
<1> HIDE DEF X
<1>2. step \in [X \X (1 .. n) -> X]
  BY <1>1
<1> HIDE DEF step
<1>3. ASSUME NEW s \in SUBSET (1 .. n), s # {} PROVE Max(s) \in 1 .. n /\ s \ {Max(s)} \in SUBSET (1 .. n)
  BY <1>0, <1>3, MaxOfPart
<1>4. \E g : IsFold(g)
  <2>1. PICK g \in [SUBSET (1 .. n) -> X] : Folded(g, base, step, n)
    BY <1>0, <1>2, FoldExists
  <2>2. ASSUME NEW s \in SUBSET (1 .. n)
        PROVE  g[s] = IF s = {} THEN base ELSE PySelect(g[s \ {Max(s)}], seq[Max(s)])
    BY <1>1, <1>3, <2>1 DEF Folded, Rest
  <2>3. IsFold(g)
    BY <2>2
  <2> QED BY <2>3
<1>5. IsFold(chosen)
  BY <1>4
<1>6. FoldLeft(PySelect, base, seq) = chosen[1 .. n]
  BY <1>0 DEF FoldLeft, MapThenFoldSet
<1> HIDE DEF chosen
<1>7. Follows(chosen, X, base, step, n)
  <2>1. chosen[{}] = base
    BY <1>5
  <2>2. ASSUME NEW s \in SUBSET (1 .. n), s # {}, chosen[Rest(s)] \in X
        PROVE  chosen[s] = step[<<chosen[Rest(s)], Max(s)>>]
    BY <1>1, <1>3, <1>5, <2>2 DEF Rest
  <2> QED BY <2>1, <2>2 DEF Follows
<1>8. PICK f \in [0 .. n -> X] : Steps(f, base, step, n) /\ chosen[1 .. n] = f[n]
  <2> HIDE DEF IsFold, n
  <2>1. \E f \in [0 .. n -> X] : Unrolled(f, X, base, step, n)
    BY <1>0, <1>2, FoldSteps
  <2> QED BY <1>7, <2>1 DEF Unrolled
<1>9. ASSUME NEW k \in 1 .. n PROVE f[k] = PySelect(f[k - 1], seq[k])
  <2>1. f[k - 1] \in X
    BY <1>0
  <2> QED BY <1>1, <1>8, <2>1 DEF Steps
<1> QED BY <1>6, <1>8, <1>9 DEF Steps, X, SelectSteps

(* Adding up in Python is the last of its steps.                           *)
LEMMA AddFold ==
  ASSUME NEW D, \A d \in D : Numbered(d), NEW seq \in Seq(D), NEW base \in Sums(D)
  PROVE  \E f \in [0 .. Len(seq) -> Sums(D)] :
           /\ FoldLeft(PyAdd, base, seq) = f[Len(seq)]
           /\ AddSteps(f, base, seq)
<1> DEFINE n == Len(seq)
           X == Sums(D)
           step == [z \in X \X (1 .. n) |-> PyAdd(z[1], seq[z[2]])]
           IsFold(g) == g = [s \in SUBSET (1 .. n) |->
                               IF s = {} THEN base ELSE PyAdd(g[s \ {Max(s)}], seq[Max(s)])]
           chosen == CHOOSE g : IsFold(g)
<1>0. n \in Nat /\ DOMAIN seq = 1 .. n /\ base \in X
  OBVIOUS
<1>1. ASSUME NEW w \in X, NEW i \in 1 .. n
      PROVE  PyAdd(w, seq[i]) \in X /\ step[<<w, i>>] = PyAdd(w, seq[i])
  <2>1. seq[i] \in D
    BY <1>0
  <2>2. PyAdd(w, seq[i]) \in X
    BY <2>1, PyAddType
  <2> HIDE DEF X
  <2> QED BY <2>2
<1> HIDE DEF X
<1>2. step \in [X \X (1 .. n) -> X]
  BY <1>1
<1> HIDE DEF step
<1>3. ASSUME NEW s \in SUBSET (1 .. n), s # {} PROVE Max(s) \in 1 .. n /\ s \ {Max(s)} \in SUBSET (1 .. n)
  BY <1>0, <1>3, MaxOfPart
<1>4. \E g : IsFold(g)
  <2>1. PICK g \in [SUBSET (1 .. n) -> X] : Folded(g, base, step, n)
    BY <1>0, <1>2, FoldExists
  <2>2. ASSUME NEW s \in SUBSET (1 .. n)
        PROVE  g[s] = IF s = {} THEN base ELSE PyAdd(g[s \ {Max(s)}], seq[Max(s)])
    BY <1>1, <1>3, <2>1 DEF Folded, Rest
  <2>3. IsFold(g)
    BY <2>2
  <2> QED BY <2>3
<1>5. IsFold(chosen)
  BY <1>4
<1>6. FoldLeft(PyAdd, base, seq) = chosen[1 .. n]
  BY <1>0 DEF FoldLeft, MapThenFoldSet
<1> HIDE DEF chosen
<1>7. Follows(chosen, X, base, step, n)
  <2>1. chosen[{}] = base
    BY <1>5
  <2>2. ASSUME NEW s \in SUBSET (1 .. n), s # {}, chosen[Rest(s)] \in X
        PROVE  chosen[s] = step[<<chosen[Rest(s)], Max(s)>>]
    BY <1>1, <1>3, <1>5, <2>2 DEF Rest
  <2> QED BY <2>1, <2>2 DEF Follows
<1>8. PICK f \in [0 .. n -> X] : Steps(f, base, step, n) /\ chosen[1 .. n] = f[n]
  <2> HIDE DEF IsFold, n
  <2>1. \E f \in [0 .. n -> X] : Unrolled(f, X, base, step, n)
    BY <1>0, <1>2, FoldSteps
  <2> QED BY <1>7, <2>1 DEF Unrolled
<1>9. ASSUME NEW k \in 1 .. n PROVE f[k] = PyAdd(f[k - 1], seq[k])
  <2>1. f[k - 1] \in X
    BY <1>0
  <2> QED BY <1>1, <1>8, <2>1 DEF Steps
<1> QED BY <1>6, <1>8, <1>9 DEF Steps, X, AddSteps

(* The pass in Go is the last of its steps.                                *)
LEMMA PassFold ==
  ASSUME NEW D, \A d \in D : Numbered(d), NEW seq \in Seq(D), NEW base \in Passes(D)
  PROVE  \E f \in [0 .. Len(seq) -> Passes(D)] :
           /\ FoldLeft(PassStep, base, seq) = f[Len(seq)]
           /\ PassSteps(f, base, seq)
<1> DEFINE n == Len(seq)
           X == Passes(D)
           step == [z \in X \X (1 .. n) |-> PassStep(z[1], seq[z[2]])]
           IsFold(g) == g = [s \in SUBSET (1 .. n) |->
                               IF s = {} THEN base ELSE PassStep(g[s \ {Max(s)}], seq[Max(s)])]
           chosen == CHOOSE g : IsFold(g)
<1>0. n \in Nat /\ DOMAIN seq = 1 .. n /\ base \in X
  OBVIOUS
<1>1. ASSUME NEW w \in X, NEW i \in 1 .. n
      PROVE  PassStep(w, seq[i]) \in X /\ step[<<w, i>>] = PassStep(w, seq[i])
  <2>1. seq[i] \in D
    BY <1>0
  <2>2. PassStep(w, seq[i]) \in X
    BY <2>1, PassStepType
  <2> HIDE DEF X
  <2> QED BY <2>2
<1> HIDE DEF X
<1>2. step \in [X \X (1 .. n) -> X]
  BY <1>1
<1> HIDE DEF step
<1>3. ASSUME NEW s \in SUBSET (1 .. n), s # {} PROVE Max(s) \in 1 .. n /\ s \ {Max(s)} \in SUBSET (1 .. n)
  BY <1>0, <1>3, MaxOfPart
<1>4. \E g : IsFold(g)
  <2>1. PICK g \in [SUBSET (1 .. n) -> X] : Folded(g, base, step, n)
    BY <1>0, <1>2, FoldExists
  <2>2. ASSUME NEW s \in SUBSET (1 .. n)
        PROVE  g[s] = IF s = {} THEN base ELSE PassStep(g[s \ {Max(s)}], seq[Max(s)])
    BY <1>1, <1>3, <2>1 DEF Folded, Rest
  <2>3. IsFold(g)
    BY <2>2
  <2> QED BY <2>3
<1>5. IsFold(chosen)
  BY <1>4
<1>6. FoldLeft(PassStep, base, seq) = chosen[1 .. n]
  BY <1>0 DEF FoldLeft, MapThenFoldSet
<1> HIDE DEF chosen
<1>7. Follows(chosen, X, base, step, n)
  <2>1. chosen[{}] = base
    BY <1>5
  <2>2. ASSUME NEW s \in SUBSET (1 .. n), s # {}, chosen[Rest(s)] \in X
        PROVE  chosen[s] = step[<<chosen[Rest(s)], Max(s)>>]
    BY <1>1, <1>3, <1>5, <2>2 DEF Rest
  <2> QED BY <2>1, <2>2 DEF Follows
<1>8. PICK f \in [0 .. n -> X] : Steps(f, base, step, n) /\ chosen[1 .. n] = f[n]
  <2> HIDE DEF IsFold, n
  <2>1. \E f \in [0 .. n -> X] : Unrolled(f, X, base, step, n)
    BY <1>0, <1>2, FoldSteps
  <2> QED BY <1>7, <2>1 DEF Unrolled
<1>9. ASSUME NEW k \in 1 .. n PROVE f[k] = PassStep(f[k - 1], seq[k])
  <2>1. f[k - 1] \in X
    BY <1>0
  <2> QED BY <1>1, <1>8, <2>1 DEF Steps
<1> QED BY <1>6, <1>8, <1>9 DEF Steps, X, PassSteps

(* A walk is the last of its steps.                                        *)
LEMMA WalkFold ==
  ASSUME NEW D, \A d \in D : Numbered(d), NEW seq \in Seq(D), NEW base \in Walks
  PROVE  \E f \in [0 .. Len(seq) -> Walks] :
           /\ FoldLeft(Walked, base, seq) = f[Len(seq)]
           /\ f[0] = base
           /\ \A k \in 1 .. Len(seq) : f[k] = Walked(f[k - 1], seq[k])
<1> DEFINE n == Len(seq)
           X == Walks
           step == [z \in X \X (1 .. n) |-> Walked(z[1], seq[z[2]])]
           IsFold(g) == g = [s \in SUBSET (1 .. n) |->
                               IF s = {} THEN base ELSE Walked(g[s \ {Max(s)}], seq[Max(s)])]
           chosen == CHOOSE g : IsFold(g)
<1>0. n \in Nat /\ DOMAIN seq = 1 .. n /\ base \in X
  OBVIOUS
<1>1. ASSUME NEW w \in X, NEW i \in 1 .. n
      PROVE  Walked(w, seq[i]) \in X /\ step[<<w, i>>] = Walked(w, seq[i])
  <2>1. seq[i] \in D
    BY <1>0
  <2>2. Walked(w, seq[i]) \in X
    BY <2>1, WalkedType
  <2> HIDE DEF X
  <2> QED BY <2>2
<1> HIDE DEF X
<1>2. step \in [X \X (1 .. n) -> X]
  BY <1>1
<1> HIDE DEF step
<1>3. ASSUME NEW s \in SUBSET (1 .. n), s # {} PROVE Max(s) \in 1 .. n /\ s \ {Max(s)} \in SUBSET (1 .. n)
  BY <1>0, <1>3, MaxOfPart
<1>4. \E g : IsFold(g)
  <2>1. PICK g \in [SUBSET (1 .. n) -> X] : Folded(g, base, step, n)
    BY <1>0, <1>2, FoldExists
  <2>2. ASSUME NEW s \in SUBSET (1 .. n)
        PROVE  g[s] = IF s = {} THEN base ELSE Walked(g[s \ {Max(s)}], seq[Max(s)])
    BY <1>1, <1>3, <2>1 DEF Folded, Rest
  <2>3. IsFold(g)
    BY <2>2
  <2> QED BY <2>3
<1>5. IsFold(chosen)
  BY <1>4
<1>6. FoldLeft(Walked, base, seq) = chosen[1 .. n]
  BY <1>0 DEF FoldLeft, MapThenFoldSet
<1> HIDE DEF chosen
<1>7. Follows(chosen, X, base, step, n)
  <2>1. chosen[{}] = base
    BY <1>5
  <2>2. ASSUME NEW s \in SUBSET (1 .. n), s # {}, chosen[Rest(s)] \in X
        PROVE  chosen[s] = step[<<chosen[Rest(s)], Max(s)>>]
    BY <1>1, <1>3, <1>5, <2>2 DEF Rest
  <2> QED BY <2>1, <2>2 DEF Follows
<1>8. PICK f \in [0 .. n -> X] : Steps(f, base, step, n) /\ chosen[1 .. n] = f[n]
  <2> HIDE DEF IsFold, n
  <2>1. \E f \in [0 .. n -> X] : Unrolled(f, X, base, step, n)
    BY <1>0, <1>2, FoldSteps
  <2> QED BY <1>7, <2>1 DEF Unrolled
<1>9. ASSUME NEW k \in 1 .. n PROVE f[k] = Walked(f[k - 1], seq[k])
  <2>1. f[k - 1] \in X
    BY <1>0
  <2> QED BY <1>1, <1>8, <2>1 DEF Steps
<1> QED BY <1>6, <1>8, <1>9 DEF Steps, X

(* R orders I: it is total and transitive.  Two of I may each be as early  *)
(* as the other.                                                           *)
Orders(R, I) ==
  /\ \A a, b \in I : <<a, b>> \in R \/ <<b, a>> \in R
  /\ \A a, b, c \in I : <<a, b>> \in R /\ <<b, c>> \in R => <<a, c>> \in R

(* A part of a finite set that R orders has a last member.                 *)
LEMMA HasLast ==
  ASSUME NEW I, IsFiniteSet(I), NEW R, Orders(R, I), NEW J \in SUBSET I, J # {}
  PROVE  \E m \in J : \A a \in J : <<a, m>> \in R
<1> DEFINE G == {T \in SUBSET I : T # {} => \E m \in T : \A a \in T : <<a, m>> \in R}
<1>1. {} \in G
  OBVIOUS
<1>2. ASSUME NEW T \in SUBSET I, NEW x \in I \ T, T \in G PROVE T \cup {x} \in G
  <2>1. CASE T = {}
    BY <2>1 DEF Orders
  <2>2. CASE T # {}
    <3>1. PICK m \in T : \A a \in T : <<a, m>> \in R
      BY <1>2, <2>2
    <3>2. CASE <<x, m>> \in R
      BY <3>1, <3>2
    <3>3. CASE <<m, x>> \in R
      <4>1. \A a \in T \cup {x} : <<a, x>> \in R
        BY <3>1, <3>3 DEF Orders
      <4> QED BY <4>1
    <3> QED BY <3>1, <3>2, <3>3 DEF Orders
  <2> QED BY <2>1, <2>2
<1>3. J \in G
  <2> HIDE DEF G
  <2> QED BY <1>1, <1>2, SubsetInduction
<1> QED BY <1>3

(* p lists J without repetition, in an order R allows.                     *)
Arranges(p, J, R) ==
  /\ p \in [1 .. Cardinality(J) -> J]
  /\ \A i, j \in 1 .. Cardinality(J) : i < j => p[i] # p[j] /\ <<p[i], p[j]>> \in R

(* A finite set that R orders can be listed in that order.                 *)
LEMMA ArrangementExists ==
  ASSUME NEW I, IsFiniteSet(I), NEW R, Orders(R, I)
  PROVE  \E p : Arranges(p, I, R)
<1> DEFINE G == {T \in SUBSET I : \E p : Arranges(p, T, R)}
<1>1. ASSUME NEW T \in SUBSET I, \A U \in SUBSET T : U # T => U \in G PROVE T \in G
  <2>1. CASE T = {}
    <3>1. Cardinality({}) = 0 /\ 1 .. 0 = {}
      BY FS_EmptySet
    <3>2. Arranges([i \in {} |-> i], {}, R)
      BY <3>1 DEF Arranges
    <3> QED BY <2>1, <3>2
  <2>2. CASE T # {}
    <3>1. PICK m \in T : \A a \in T : <<a, m>> \in R
      BY <2>2, HasLast
    <3> DEFINE U == T \ {m}
               n == Cardinality(U)
    <3>2. IsFiniteSet(T) /\ n \in Nat /\ Cardinality(T) = n + 1
      <4>1. IsFiniteSet(T)
        BY FS_Subset
      <4>2. IsFiniteSet(U) /\ n = Cardinality(T) - 1 /\ Cardinality(T) \in Nat /\ n \in Nat
        BY <4>1, FS_RemoveElement, FS_CardinalityType
      <4> HIDE DEF n, U
      <4> QED BY <4>1, <4>2
    <3>3. PICK p : Arranges(p, U, R)
      BY <1>1
    <3>4. p \in [1 .. n -> U] /\ \A i, j \in 1 .. n : i < j => p[i] # p[j] /\ <<p[i], p[j]>> \in R
      BY <3>3 DEF Arranges
    <3> DEFINE q == [i \in 1 .. n + 1 |-> IF i = n + 1 THEN m ELSE p[i]]
    <3> HIDE DEF n
    <3>5. q \in [1 .. n + 1 -> T]
      BY <3>2, <3>4
    <3>6. ASSUME NEW i \in 1 .. n + 1, NEW j \in 1 .. n + 1, i < j
          PROVE  q[i] # q[j] /\ <<q[i], q[j]>> \in R
      <4>1. i \in 1 .. n /\ q[i] = p[i] /\ p[i] \in U
        BY <3>2, <3>4, <3>6
      <4>2. CASE j = n + 1
        BY <3>1, <4>1, <4>2
      <4>3. CASE j # n + 1
        BY <3>2, <3>4, <3>6, <4>1, <4>3
      <4> QED BY <4>2, <4>3
    <3>7. Arranges(q, T, R)
      <4> HIDE DEF q
      <4> QED BY <3>2, <3>5, <3>6 DEF Arranges
    <3> QED BY <3>7
  <2> QED BY <2>1, <2>2
<1>2. I \in G
  <2> HIDE DEF G
  <2> QED BY <1>1, StrongSubsetInduction
<1> QED BY <1>2

(* A list without repetition that is as long as a finite set has all of    *)
(* it.                                                                     *)
LEMMA ArrangementFills ==
  ASSUME NEW I, IsFiniteSet(I), NEW p \in [1 .. Cardinality(I) -> I],
         \A i, j \in 1 .. Cardinality(I) : i < j => p[i] # p[j]
  PROVE  \A a \in I : \E i \in 1 .. Cardinality(I) : p[i] = a
<1> DEFINE n == Cardinality(I)
<1>0. n \in Nat
  BY FS_CardinalityType
<1>1. Cardinality(1 .. n) = n
  BY <1>0, FS_Interval
<1>2. p \in Injection(1 .. n, I)
  <2>1. ASSUME NEW i \in 1 .. n, NEW j \in 1 .. n, p[i] = p[j] PROVE i = j
    <3>1. i < j \/ j < i \/ i = j
      BY <1>0
    <3> QED BY <2>1, <3>1
  <2>2. p \in [1 .. n -> I] /\ DOMAIN p = 1 .. n
    OBVIOUS
  <2> HIDE DEF n
  <2> QED BY <2>1, <2>2 DEF Injection, IsInjective
<1>3. p \in Surjection(1 .. n, I)
  <2> HIDE DEF n
  <2> QED BY <1>1, <1>2, FS_Injection DEF n
<1> QED BY <1>3 DEF Surjection

-----------------------------------------------------------------------------
(* The two orders of documents. *)

(* Not coming after in producer, epoch and sequence orders the documents.  *)
LEMMA BeforeOrders ==
  ASSUME NEW D, \A d \in D : Numbered(d)
  PROVE  /\ \A c, d \in D : ~ Before(d, c) \/ ~ Before(c, d)
         /\ \A c, d, e \in D : ~ Before(d, c) /\ ~ Before(e, d) => ~ Before(e, c)
BY DEF Before, Numbered

(* Not coming after in the observed interval and epoch orders the          *)
(* documents.                                                              *)
LEMMA EarlierOrders ==
  ASSUME NEW D, \A d \in D : Numbered(d)
  PROVE  /\ \A c, d \in D : ~ Earlier(d, c) \/ ~ Earlier(c, d)
         /\ \A c, d, e \in D : ~ Earlier(d, c) /\ ~ Earlier(e, d) => ~ Earlier(e, c)
BY DEF Earlier, Numbered

(* What sorting gives: the same documents, none after one that comes later. *)
LEMMA InOrderIs ==
  ASSUME NEW D, \A d \in D : Numbered(d), NEW s \in Seq(D)
  PROVE  /\ InOrder(s) \in Seq(D) /\ Len(InOrder(s)) = Len(s)
         /\ \A i, j \in 1 .. Len(s) : i < j => ~ Before(InOrder(s)[j], InOrder(s)[i])
         /\ ToSet(InOrder(s)) = ToSet(s)
<1> DEFINE I == DOMAIN s
           n == Cardinality(I)
           R == {z \in I \X I : ~ Before(s[z[2]], s[z[1]])}
           Good(p) == \A i, j \in DOMAIN p : i < j => p[i] # p[j] /\ ~ Before(s[p[j]], s[p[i]])
           order == CHOOSE p \in [1 .. n -> I] : Good(p)
           t == [i \in 1 .. n |-> s[order[i]]]
<1>1. I = 1 .. Len(s) /\ Len(s) \in Nat /\ IsFiniteSet(I) /\ n = Len(s)
  <2>1. I = 1 .. Len(s) /\ Len(s) \in Nat
    OBVIOUS
  <2> QED BY <2>1, FS_Interval
<1>2. \A i \in I : s[i] \in D
  OBVIOUS
<1>3. Orders(R, I)
  <2>1. \A a, b \in I : ~ Before(s[b], s[a]) \/ ~ Before(s[a], s[b])
    BY <1>2, BeforeOrders
  <2>2. \A a, b, c \in I : ~ Before(s[b], s[a]) /\ ~ Before(s[c], s[b]) => ~ Before(s[c], s[a])
    BY <1>2, BeforeOrders
  <2> QED BY <2>1, <2>2 DEF Orders
<1>4. \E p \in [1 .. n -> I] : Good(p)
  <2> HIDE DEF I, n
  <2>1. PICK p : Arranges(p, I, R)
    <3> HIDE DEF R
    <3> QED BY <1>1, <1>3, ArrangementExists
  <2>2. p \in [1 .. n -> I] /\ \A i, j \in 1 .. n : i < j => p[i] # p[j] /\ <<p[i], p[j]>> \in R
    BY <2>1 DEF Arranges, n
  <2>3. Good(p)
    BY <2>2
  <2> QED BY <2>2, <2>3
<1>5. order \in [1 .. n -> I] /\ Good(order)
  <2> HIDE DEF Good
  <2> QED BY <1>4
<1>6. InOrder(s) = t
  BY DEF InOrder, Sorted
<1> HIDE DEF order
<1>7. t \in Seq(D) /\ Len(t) = Len(s)
  <2> HIDE DEF n, I
  <2> QED BY <1>1, <1>2, <1>5
<1>8. \A i, j \in 1 .. Len(s) : i < j => ~ Before(t[j], t[i])
  <2> HIDE DEF n, I
  <2> QED BY <1>1, <1>5
<1>9. ToSet(t) = ToSet(s)
  <2>1. ASSUME NEW a \in I PROVE \E i \in 1 .. n : order[i] = a
    <3>1. \A i, j \in 1 .. n : i < j => order[i] # order[j]
      BY <1>5
    <3>2. order \in [1 .. Cardinality(I) -> I] /\ a \in I /\ IsFiniteSet(I)
      BY <1>1, <1>5
    <3>3. \A i, j \in 1 .. Cardinality(I) : i < j => order[i] # order[j]
      BY <3>1
    <3> HIDE DEF I
    <3>4. \A b \in I : \E i \in 1 .. Cardinality(I) : order[i] = b
      BY <3>2, <3>3, ArrangementFills
    <3> QED BY <3>2, <3>4
  <2>2. DOMAIN t = 1 .. n /\ \A i \in 1 .. n : t[i] = s[order[i]] /\ order[i] \in I
    BY <1>5
  <2> HIDE DEF t, n
  <2> QED BY <2>1, <2>2 DEF ToSet
<1> HIDE DEF t
<1> QED BY <1>6, <1>7, <1>8, <1>9

(* The parts of a producer: its documents, none after one that is later,   *)
(* none twice unless one was selected twice.                               *)
LEMMA PartsIs ==
  ASSUME NEW D, \A d \in D : Numbered(d), NEW s \in Seq(D), NEW q
  PROVE  /\ Parts(s, q) \in Seq(D)
         /\ \A i, j \in 1 .. Len(Parts(s, q)) : i < j => ~ Earlier(Parts(s, q)[j], Parts(s, q)[i])
         /\ ToSet(Parts(s, q)) = {d \in ToSet(s) : d.producer = q}
         /\ (\A i, j \in DOMAIN s : i < j => s[i] # s[j]) =>
              \A i, j \in 1 .. Len(Parts(s, q)) : i < j => Parts(s, q)[i] # Parts(s, q)[j]
<1> DEFINE I == {i \in DOMAIN s : s[i].producer = q}
           n == Cardinality(I)
           R == {z \in I \X I : ~ Earlier(s[z[2]], s[z[1]])}
           Good(p) == \A i, j \in DOMAIN p : i < j => p[i] # p[j] /\ ~ Earlier(s[p[j]], s[p[i]])
           order == CHOOSE p \in [1 .. n -> I] : Good(p)
           t == [i \in 1 .. n |-> s[order[i]]]
<1>1. I \subseteq 1 .. Len(s) /\ Len(s) \in Nat /\ IsFiniteSet(I) /\ n \in Nat
  <2>1. I \subseteq 1 .. Len(s) /\ Len(s) \in Nat
    OBVIOUS
  <2>2. IsFiniteSet(1 .. Len(s))
    BY <2>1, FS_Interval
  <2> HIDE DEF I
  <2> QED BY <2>1, <2>2, FS_Subset, FS_CardinalityType
<1>2. \A i \in I : s[i] \in D
  OBVIOUS
<1>3. Orders(R, I)
  <2>1. \A a, b \in I : ~ Earlier(s[b], s[a]) \/ ~ Earlier(s[a], s[b])
    BY <1>2, EarlierOrders
  <2>2. \A a, b, c \in I : ~ Earlier(s[b], s[a]) /\ ~ Earlier(s[c], s[b]) => ~ Earlier(s[c], s[a])
    BY <1>2, EarlierOrders
  <2> QED BY <2>1, <2>2 DEF Orders
<1>4. \E p \in [1 .. n -> I] : Good(p)
  <2> HIDE DEF I, n
  <2>1. PICK p : Arranges(p, I, R)
    <3> HIDE DEF R
    <3> QED BY <1>1, <1>3, ArrangementExists
  <2>2. p \in [1 .. n -> I] /\ \A i, j \in 1 .. n : i < j => p[i] # p[j] /\ <<p[i], p[j]>> \in R
    BY <2>1 DEF Arranges, n
  <2>3. Good(p)
    BY <2>2
  <2> QED BY <2>2, <2>3
<1>5. order \in [1 .. n -> I] /\ Good(order)
  <2> HIDE DEF Good
  <2> QED BY <1>4
<1>6. Parts(s, q) = t
  BY DEF Parts, Sorted
<1> HIDE DEF order
<1>7. t \in Seq(D) /\ Len(t) = n
  <2>1. \A i \in 1 .. n : s[order[i]] \in D
    <3> HIDE DEF n, I, Good
    <3> QED BY <1>2, <1>5
  <2> HIDE DEF n, I, Good
  <2> QED BY <1>1, <2>1
<1>8. \A i, j \in 1 .. n : i < j => ~ Earlier(t[j], t[i])
  <2> HIDE DEF n, I
  <2> QED BY <1>1, <1>5
<1>9. ToSet(t) = {d \in ToSet(s) : d.producer = q}
  <2>1. ASSUME NEW a \in I PROVE \E i \in 1 .. n : order[i] = a
    <3>1. \A i, j \in 1 .. n : i < j => order[i] # order[j]
      BY <1>5
    <3>2. order \in [1 .. Cardinality(I) -> I] /\ a \in I /\ IsFiniteSet(I)
      BY <1>1, <1>5
    <3>3. \A i, j \in 1 .. Cardinality(I) : i < j => order[i] # order[j]
      BY <3>1
    <3> HIDE DEF I
    <3>4. \A b \in I : \E i \in 1 .. Cardinality(I) : order[i] = b
      BY <3>2, <3>3, ArrangementFills
    <3> QED BY <3>2, <3>4
  <2>2. DOMAIN t = 1 .. n /\ \A i \in 1 .. n : t[i] = s[order[i]] /\ order[i] \in I
    BY <1>5
  <2> HIDE DEF t, n
  <2> QED BY <2>1, <2>2 DEF ToSet
<1>10. ASSUME \A i, j \in DOMAIN s : i < j => s[i] # s[j], NEW i \in 1 .. n, NEW j \in 1 .. n, i < j
       PROVE  t[i] # t[j]
  <2>1. order[i] \in DOMAIN s /\ order[j] \in DOMAIN s /\ order[i] # order[j]
    <3>1. order[i] \in I /\ order[j] \in I /\ order[i] # order[j]
      <4> HIDE DEF I, n
      <4> QED BY <1>5, <1>10
    <3> QED BY <3>1
  <2>2. t[i] = s[order[i]] /\ t[j] = s[order[j]]
    <3> HIDE DEF n
    <3> QED OBVIOUS
  <2>3. order[i] < order[j] \/ order[j] < order[i]
    BY <2>1
  <2> QED BY <1>10, <2>1, <2>2, <2>3
<1> HIDE DEF t, n
<1> QED BY <1>6, <1>7, <1>8, <1>9, <1>10

(* What selection asks of the documents P together, without regard to      *)
(* order.                                                                  *)
Consistent(P) ==
  /\ \A c, d \in P : c.window = d.window /\ c.contract = d.contract
  /\ \A c, d \in P : SameEpoch(c, d) =>
       /\ c.sequence = d.sequence => c = d
       /\ c.sequence < d.sequence =>
            c.start = d.start /\ c.end <= d.end /\ c.count <= d.count

(* The order of producer epochs.                                           *)
Precedes(c, d) == c.producer < d.producer \/ (c.producer = d.producer /\ c.epoch < d.epoch)

(* L lists the latest documents of P in order, and ends with the last of P.*)
Lists(L, P) ==
  /\ ToSet(L) = Latest(P)
  /\ \A i, j \in 1 .. Len(L) : i < j => Precedes(L[i], L[j])
  /\ L = <<>> <=> P = {}
  /\ L # <<>> => Last(L) \in P /\ \A c \in P : ~ Before(Last(L), c)

(* The errors of validation and selection.                                 *)
SelectionErrors == {"none", "invalid", "unexpected", "window", "contract", "conflict", "regressed"}

(* Usable documents are those that scan, each for itself, and are          *)
(* consistent together.                                                    *)
LEMMA UsableIs ==
  ASSUME NEW P
  PROVE  Usable(P) <=> (\A d \in P : Ok(ScanError(d))) /\ Consistent(P)
BY DEF Usable, Consistent, Ok, ScanError

(* The latest documents are of distinct epochs, one of each.               *)
LEMMA LatestOfEpoch ==
  ASSUME NEW D, \A d \in D : Numbered(d), NEW P \in SUBSET D, Consistent(P),
         NEW c \in Latest(P), NEW d \in Latest(P), SameEpoch(c, d)
  PROVE  c = d
BY DEF Latest, Consistent, SameEpoch, Numbered

(* The last of the documents in order is the latest of its epoch, and no   *)
(* other epoch goes on with a document that comes after it.                *)
LEMMA Sandwiched ==
  ASSUME NEW c, NEW b, NEW d, Numbered(b), Numbered(c), Numbered(d),
         ~ Before(b, c), ~ Before(d, b), SameEpoch(c, d)
  PROVE  SameEpoch(b, d) /\ c.sequence <= b.sequence /\ b.sequence <= d.sequence
BY DEF Before, SameEpoch, Numbered

(* A part of consistent documents is consistent.                           *)
LEMMA ConsistentSubset ==
  ASSUME NEW P, NEW Q \in SUBSET P, Consistent(P) PROVE Consistent(Q)
BY DEF Consistent

(* With documents taken in order, looking at the first and the last        *)
(* selected decides whether the next is consistent with all of them.       *)
LEMMA SelectionDecides ==
  ASSUME NEW D, \A d \in D : Numbered(d), NEW P \in SUBSET D, NEW L \in Seq(D),
         Lists(L, P), Consistent(P), NEW d \in D, \A c \in P : ~ Before(d, c)
  PROVE  /\ Ok(SelectionError(L, d)) <=> Consistent(P \cup {d})
         /\ SelectionError(L, d) \in SelectionErrors
<1>1. CASE L = <<>>
  <2>1. P = {}
    BY <1>1 DEF Lists
  <2>2. Consistent(P \cup {d})
    BY <2>1 DEF Consistent, Numbered
  <2> QED BY <1>1, <2>2 DEF SelectionError, Ok, SelectionErrors
<1>2. CASE L # <<>>
  <2> DEFINE b == Last(L)
             h == Head(L)
  <2>1. b \in P /\ \A c \in P : ~ Before(b, c)
    BY <1>2 DEF Lists
  <2>2. h \in P
    <3>1. h \in ToSet(L)
      BY <1>2 DEF ToSet
    <3> QED BY <3>1 DEF Lists, Latest
  <2>3. SelectionError(L, d) =
          IF d.window # h.window THEN "window"
          ELSE IF d.contract # h.contract THEN "contract"
          ELSE IF ~ SameEpoch(b, d) \/ b = d THEN "none"
          ELSE IF b.sequence = d.sequence THEN "conflict"
          ELSE IF Regressed(b, d) THEN "regressed" ELSE "none"
    BY <1>2 DEF SelectionError
  <2>4. \A c \in P : Numbered(c)
    OBVIOUS
  <2>5. Numbered(d)
    OBVIOUS
  <2> HIDE DEF b, h
  <2>6. SelectionError(L, d) \in SelectionErrors
    BY <2>3 DEF SelectionErrors
  <2>7. CASE d.window # h.window \/ d.contract # h.contract
    <3>1. ~ Consistent(P \cup {d})
      BY <2>2, <2>7 DEF Consistent
    <3> QED BY <2>3, <2>6, <2>7, <3>1 DEF Ok
  <2>8. CASE d.window = h.window /\ d.contract = h.contract
    <3>1. \A c, e \in P \cup {d} : c.window = e.window /\ c.contract = e.contract
      BY <2>2, <2>8 DEF Consistent
    <3>2. ASSUME NEW c \in P, SameEpoch(c, d)
          PROVE  SameEpoch(b, d) /\ c.sequence <= b.sequence /\ b.sequence <= d.sequence /\ SameEpoch(c, b)
      <4>1. SameEpoch(b, d) /\ c.sequence <= b.sequence /\ b.sequence <= d.sequence
        BY <2>1, <2>4, <2>5, <3>2, Sandwiched
      <4> QED BY <3>2, <4>1 DEF SameEpoch
    <3>3. CASE ~ SameEpoch(b, d)
      <4>1. \A c \in P : ~ SameEpoch(c, d) /\ ~ SameEpoch(d, c)
        BY <3>2, <3>3 DEF SameEpoch
      <4>2. Consistent(P \cup {d})
        BY <2>5, <3>1, <4>1 DEF Consistent, Numbered
      <4> QED BY <2>3, <2>6, <2>8, <3>3, <4>2 DEF Ok
    <3>4. CASE SameEpoch(b, d) /\ b = d
      <4>1. P \cup {d} = P
        BY <2>1, <3>4
      <4> QED BY <2>3, <2>6, <2>8, <3>4, <4>1 DEF Ok
    <3>5. CASE SameEpoch(b, d) /\ b # d /\ b.sequence = d.sequence
      <4>1. ~ Consistent(P \cup {d})
        BY <2>1, <3>5 DEF Consistent
      <4> QED BY <2>3, <2>6, <2>8, <3>5, <4>1 DEF Ok
    <3>6. CASE SameEpoch(b, d) /\ b # d /\ b.sequence # d.sequence
      <4>1. b.sequence < d.sequence
        BY <2>1, <2>4, <2>5, <3>2, <3>6 DEF Numbered
      <4>2. CASE Regressed(b, d)
        <5>1. ~ (b.start = d.start /\ b.end <= d.end /\ b.count <= d.count)
          BY <2>1, <2>4, <2>5, <4>2 DEF Regressed, Numbered
        <5>2. ~ Consistent(P \cup {d})
          BY <2>1, <3>6, <4>1, <5>1 DEF Consistent
        <5> QED BY <2>3, <2>6, <2>8, <3>6, <4>2, <5>2 DEF Ok
      <4>3. CASE ~ Regressed(b, d)
        <5>1. b.start = d.start /\ b.end <= d.end /\ b.count <= d.count
          BY <2>1, <2>4, <2>5, <4>3 DEF Regressed, Numbered
        <5>2. ASSUME NEW c \in P, SameEpoch(c, d)
              PROVE  c.sequence < d.sequence /\ c.start = d.start /\ c.end <= d.end /\ c.count <= d.count
          <6>1. c.sequence <= b.sequence /\ SameEpoch(c, b)
            BY <3>2, <5>2
          <6>2. c = b \/ (c.start = b.start /\ c.end <= b.end /\ c.count <= b.count)
            BY <2>1, <2>4, <6>1 DEF Consistent, Numbered
          <6> QED BY <2>1, <2>4, <2>5, <4>1, <5>1, <6>1, <6>2 DEF Numbered
        <5>3. Consistent(P \cup {d})
          <6>1. ASSUME NEW c \in P \cup {d}, NEW e \in P \cup {d}, SameEpoch(c, e)
                PROVE  /\ c.sequence = e.sequence => c = e
                       /\ c.sequence < e.sequence =>
                            c.start = e.start /\ c.end <= e.end /\ c.count <= e.count
            <7>1. CASE c \in P /\ e \in P
              BY <6>1, <7>1 DEF Consistent
            <7>2. CASE c \in P /\ e = d
              BY <2>4, <2>5, <5>2, <6>1, <7>2 DEF Numbered
            <7>3. CASE c = d /\ e \in P
              <8>1. SameEpoch(e, d)
                BY <6>1, <7>3 DEF SameEpoch
              <8> QED BY <2>4, <2>5, <5>2, <7>3, <8>1 DEF Numbered
            <7>4. CASE c = d /\ e = d
              BY <2>5, <7>4 DEF Numbered
            <7> QED BY <7>1, <7>2, <7>3, <7>4
          <6> QED BY <3>1, <6>1 DEF Consistent
        <5> QED BY <2>3, <2>6, <2>8, <3>6, <4>3, <5>3 DEF Ok
      <4> QED BY <4>2, <4>3
    <3> QED BY <3>3, <3>4, <3>5, <3>6
  <2> QED BY <2>7, <2>8
<1> QED BY <1>1, <1>2

(* Selecting the next document keeps the list of latest documents.         *)
LEMMA SelectionContinues ==
  ASSUME NEW D, \A d \in D : Numbered(d), NEW P \in SUBSET D, NEW L \in Seq(D),
         Lists(L, P), NEW d \in D, Consistent(P \cup {d}), \A c \in P : ~ Before(d, c)
  PROVE  Selected(L, d) \in Seq(D) /\ Lists(Selected(L, d), P \cup {d})
<1> DEFINE M == Selected(L, d)
           Q == P \cup {d}
<1>0. M \in Seq(D) /\ Consistent(P)
  BY SelectedType, ConsistentSubset
<1>1. d \in Q /\ \A c \in Q : ~ Before(d, c)
  BY DEF Before, Numbered
<1>2. CASE L # <<>> /\ SameEpoch(Last(L), d)
  <2> DEFINE b == Last(L)
             n == Len(L)
  <2>1. b \in P /\ \A c \in P : ~ Before(b, c)
    BY <1>2 DEF Lists
  <2>2. /\ n \in Nat \ {0} /\ b = L[n] /\ Front(L) \in Seq(D) /\ Len(Front(L)) = n - 1
        /\ \A i \in 1 .. n - 1 : Front(L)[i] = L[i]
    BY <1>2, FrontIs
  <2>3. M = Append(Front(L), d)
    BY <1>2 DEF Selected
  <2> HIDE DEF b, n
  <2>4. Len(M) = n /\ M[n] = d /\ (\A i \in 1 .. n - 1 : M[i] = L[i]) /\ M # <<>> /\ Last(M) = d
    <3>1. Len(M) = n /\ M[n] = d /\ (\A i \in 1 .. n - 1 : M[i] = L[i])
      BY <2>2, <2>3
    <3>2. M # <<>>
      BY <1>0, <2>2, <3>1
    <3> HIDE DEF M
    <3> QED BY <3>1, <3>2 DEF Last
  <2>5. \A i, j \in 1 .. n : i < j => Precedes(L[i], L[j])
    BY DEF Lists, n
  <2>6. ASSUME NEW i \in 1 .. n, NEW j \in 1 .. n, i < j PROVE Precedes(M[i], M[j])
    <3> HIDE DEF M
    <3>1. i \in 1 .. n - 1 /\ M[i] = L[i] /\ Precedes(L[i], L[j])
      BY <2>2, <2>4, <2>5, <2>6
    <3>2. CASE j = n
      <4>1. Precedes(L[i], b)
        BY <2>2, <3>1, <3>2
      <4>2. Precedes(L[i], d)
        BY <1>2, <4>1 DEF Precedes, SameEpoch, b
      <4> QED BY <2>4, <3>1, <3>2, <4>2
    <3>3. CASE j # n
      BY <2>2, <2>4, <3>1, <3>3
    <3> QED BY <3>2, <3>3
  <2>7. ToSet(M) = Latest(Q)
    <3>1. b.sequence <= d.sequence
      <4>1. SameEpoch(b, d) /\ Numbered(b) /\ Numbered(d)
        BY <1>2, <2>1 DEF b
      <4> QED BY <2>1, <4>1, Sandwiched
    <3>2. d \in Latest(Q)
      <4>1. ASSUME NEW c \in Q, SameEpoch(c, d) PROVE c.sequence <= d.sequence
        <5>1. CASE c \in P
          <6>1. Numbered(b) /\ Numbered(c) /\ Numbered(d)
            BY <2>1, <5>1
          <6>2. ~ Before(b, c) /\ ~ Before(d, b)
            BY <2>1, <5>1
          <6>3. c.sequence <= b.sequence
            BY <4>1, <6>1, <6>2, Sandwiched
          <6>4. b.sequence \in Int /\ c.sequence \in Int /\ d.sequence \in Int
            BY <6>1 DEF Numbered
          <6> QED BY <3>1, <6>3, <6>4
        <5>2. CASE c = d
          <6>1. d.sequence \in Int
            BY DEF Numbered
          <6> QED BY <5>2, <6>1
        <5> QED BY <5>1, <5>2
      <4> QED BY <1>1, <4>1 DEF Latest, SameEpoch
    <3>3. ASSUME NEW e \in ToSet(M) PROVE e \in Latest(Q)
      <4> HIDE DEF M
      <4>1. PICK i \in 1 .. n : e = M[i]
        BY <1>0, <2>2, <2>4 DEF ToSet
      <4>2. CASE i = n
        BY <2>4, <3>2, <4>1, <4>2
      <4>3. CASE i # n
        <5>1. e = L[i] /\ i \in 1 .. n - 1
          BY <2>2, <2>4, <4>1, <4>3
        <5>2. e \in Latest(P)
          BY <5>1, <2>2 DEF Lists, ToSet, n
        <5>3. Precedes(e, b)
          BY <2>2, <2>5, <5>1
        <5>4. ~ SameEpoch(e, d)
          BY <1>2, <5>2, <5>3, <2>1 DEF SameEpoch, Precedes, b, Latest, Numbered
        <5> QED BY <5>2, <5>4 DEF Latest, SameEpoch
      <4> QED BY <4>2, <4>3
    <3>4. ASSUME NEW e \in Latest(Q) PROVE e \in ToSet(M)
      <4> HIDE DEF M
      <4>1. CASE e = d
        <5>1. n \in DOMAIN M /\ M[n] = d
          BY <1>0, <2>2, <2>4
        <5> QED BY <4>1, <5>1 DEF ToSet
      <4>2. CASE e # d
        <5>1. e \in P /\ e \in Latest(P)
          BY <3>4, <4>2 DEF Latest
        <5>2. ~ SameEpoch(e, d)
          <6>1. SUFFICES ASSUME SameEpoch(e, d) PROVE FALSE
            OBVIOUS
          <6>2. SameEpoch(d, e)
            BY <6>1 DEF SameEpoch
          <6>3. d \in Latest(Q) /\ e \in Latest(Q) /\ Q \in SUBSET D
            BY <3>2, <3>4
          <6>4. e = d
            BY <6>1, <6>3, LatestOfEpoch
          <6> QED BY <4>2, <6>4
        <5>3. PICK i \in 1 .. n : e = L[i]
          BY <2>2, <5>1 DEF Lists, ToSet, n
        <5>4. i # n
          BY <1>2, <2>2, <5>2, <5>3 DEF b
        <5>5. e = M[i] /\ i \in DOMAIN M
          BY <1>0, <2>2, <2>4, <5>3, <5>4
        <5> QED BY <5>5 DEF ToSet
      <4> QED BY <4>1, <4>2
    <3> QED BY <3>3, <3>4
  <2>8. Lists(M, Q)
    <3> HIDE DEF M
    <3> QED BY <1>1, <2>4, <2>6, <2>7 DEF Lists
  <2> QED BY <1>0, <2>8
<1>3. CASE ~ (L # <<>> /\ SameEpoch(Last(L), d))
  <2> DEFINE n == Len(L)
  <2>1. M = Append(L, d)
    BY <1>3 DEF Selected
  <2>2. n \in Nat /\ Len(M) = n + 1 /\ M[n + 1] = d /\ (\A i \in 1 .. n : M[i] = L[i]) /\ M # <<>>
        /\ Last(M) = d
    <3>1. n \in Nat /\ Len(M) = n + 1 /\ M[n + 1] = d /\ (\A i \in 1 .. n : M[i] = L[i])
      BY <2>1
    <3>2. M # <<>>
      BY <1>0, <3>1
    <3> HIDE DEF M
    <3> QED BY <3>1, <3>2 DEF Last
  <2>3. \A c \in P : ~ SameEpoch(c, d)
    <3>1. SUFFICES ASSUME NEW c \in P, SameEpoch(c, d) PROVE FALSE
      OBVIOUS
    <3>2. L # <<>> /\ Last(L) \in P /\ ~ Before(Last(L), c)
      BY <3>1 DEF Lists
    <3>3. SameEpoch(Last(L), d)
      <4>1. Numbered(Last(L)) /\ Numbered(c) /\ Numbered(d) /\ ~ Before(d, Last(L))
        BY <3>2
      <4> QED BY <3>1, <3>2, <4>1, Sandwiched
    <3> QED BY <1>3, <3>2, <3>3
  <2>4. ASSUME NEW i \in 1 .. n PROVE L[i] \in P /\ Precedes(L[i], d)
    <3>1. L[i] \in P
      BY DEF Lists, ToSet, Latest
    <3>2. ~ Before(d, L[i]) /\ ~ SameEpoch(L[i], d)
      BY <2>3, <3>1
    <3> QED BY <3>1, <3>2 DEF Before, SameEpoch, Precedes, Numbered
  <2>5. ASSUME NEW i \in 1 .. n + 1, NEW j \in 1 .. n + 1, i < j PROVE Precedes(M[i], M[j])
    <3> HIDE DEF M
    <3>1. i \in 1 .. n
      BY <2>2, <2>5
    <3>2. CASE j = n + 1
      BY <2>2, <2>4, <3>1, <3>2
    <3>3. CASE j # n + 1
      <4>1. j \in 1 .. n
        BY <2>2, <3>3
      <4> QED BY <2>2, <2>5, <3>1, <4>1 DEF Lists
    <3> QED BY <3>2, <3>3
  <2>6. ToSet(M) = Latest(Q)
    <3>1. Latest(Q) = Latest(P) \cup {d}
      BY <2>3 DEF Latest, SameEpoch, Numbered
    <3>2. ToSet(M) = ToSet(L) \cup {d}
      <4>1. DOMAIN M = 1 .. n + 1 /\ DOMAIN L = 1 .. n
        BY <1>0, <2>2
      <4> HIDE DEF M, n
      <4>2. \A i \in 1 .. n + 1 : M[i] \in ToSet(L) \cup {d}
        BY <2>2, <4>1 DEF ToSet
      <4>3. \A e \in ToSet(L) : \E i \in 1 .. n + 1 : M[i] = e
        BY <2>2, <4>1 DEF ToSet
      <4>4. \A e \in ToSet(M) : e \in ToSet(L) \cup {d}
        BY <4>1, <4>2 DEF ToSet
      <4>5. \A e \in ToSet(L) \cup {d} : e \in ToSet(M)
        BY <2>2, <4>1, <4>3 DEF ToSet
      <4> QED BY <4>4, <4>5
    <3> QED BY <3>1, <3>2 DEF Lists
  <2>7. Lists(M, Q)
    <3> HIDE DEF M
    <3> QED BY <1>1, <2>2, <2>5, <2>6 DEF Lists
  <2> QED BY <1>0, <2>7
<1> QED BY <1>2, <1>3

(* The first k documents of s.                                             *)
Prefix(s, k) == {s[i] : i \in 1 .. k}

(* No document comes after one that follows it.                            *)
InSequence(s) == \A i, j \in 1 .. Len(s) : i < j => ~ Before(s[j], s[i])

(* The first documents grow one by one to all of them.                     *)
LEMMA PrefixIs ==
  ASSUME NEW D, NEW s \in Seq(D)
  PROVE  /\ Prefix(s, 0) = {} /\ Prefix(s, Len(s)) = ToSet(s)
         /\ \A k \in 0 .. Len(s) : Prefix(s, k) \in SUBSET D
         /\ \A k \in 1 .. Len(s) : s[k] \in D /\ Prefix(s, k) = Prefix(s, k - 1) \cup {s[k]}
<1>1. Len(s) \in Nat /\ DOMAIN s = 1 .. Len(s) /\ \A i \in 1 .. Len(s) : s[i] \in D
  OBVIOUS
<1>2. Prefix(s, 0) = {}
  BY DEF Prefix
<1>3. Prefix(s, Len(s)) = ToSet(s)
  BY <1>1 DEF Prefix, ToSet
<1>4. ASSUME NEW k \in 0 .. Len(s) PROVE Prefix(s, k) \in SUBSET D
  BY <1>1 DEF Prefix
<1>5. ASSUME NEW k \in 1 .. Len(s) PROVE s[k] \in D /\ Prefix(s, k) = Prefix(s, k - 1) \cup {s[k]}
  <2>1. 1 .. k = (1 .. (k - 1)) \cup {k}
    BY <1>1
  <2> QED BY <1>1, <2>1 DEF Prefix
<1> QED BY <1>2, <1>3, <1>4, <1>5

(* In a sequence in order the next document is before none that was read.  *)
LEMMA PrefixNotAfter ==
  ASSUME NEW D, NEW s \in Seq(D), InSequence(s), NEW k \in 1 .. Len(s), NEW c \in Prefix(s, k - 1)
  PROVE  ~ Before(s[k], c)
BY DEF InSequence, Prefix

(* Python's selection over documents in order.                             *)
PySelects(f, s) ==
  /\ f[0] = [error |-> "none", selected |-> <<>>]
  /\ \A k \in 1 .. Len(s) : f[k] = PySelect(f[k - 1], s[k])

(* Python goes on exactly as long as the documents read are consistent,    *)
(* and then has selected the latest of them.                               *)
LEMMA PySelectionMeans ==
  ASSUME NEW D, \A d \in D : Numbered(d), NEW s \in Seq(D), InSequence(s),
         NEW f \in [0 .. Len(s) -> Chosen(D)], PySelects(f, s), NEW k \in 0 .. Len(s)
  PROVE  /\ Ok(f[k].error) <=> Consistent(Prefix(s, k))
         /\ f[k].error \in SelectionErrors /\ f[k].selected \in Seq(D)
         /\ Ok(f[k].error) => Lists(f[k].selected, Prefix(s, k))
<1> DEFINE Good(i) == /\ Ok(f[i].error) <=> Consistent(Prefix(s, i))
                      /\ f[i].error \in SelectionErrors /\ f[i].selected \in Seq(D)
                      /\ Ok(f[i].error) => Lists(f[i].selected, Prefix(s, i))
           G == {i \in Nat : i <= Len(s) => Good(i)}
<1>1. 0 \in G
  <2>1. f[0].error = "none" /\ f[0].selected = <<>>
    BY DEF PySelects
  <2>2. Consistent({}) /\ Lists(<<>>, {})
    BY DEF Consistent, Lists, Latest, ToSet
  <2>3. Prefix(s, 0) = {} /\ <<>> \in Seq(D) /\ "none" \in SelectionErrors /\ Ok("none")
    BY PrefixIs DEF SelectionErrors, Ok
  <2> QED BY <2>1, <2>2, <2>3
<1>2. ASSUME NEW i \in Nat, i \in G PROVE i + 1 \in G
  <2>1. SUFFICES ASSUME i + 1 <= Len(s) PROVE Good(i + 1)
    OBVIOUS
  <2>2. Good(i) /\ i + 1 \in 1 .. Len(s) /\ (i + 1) - 1 = i /\ i \in 0 .. Len(s)
    BY <1>2, <2>1
  <2> DEFINE d == s[i + 1]
             L == f[i].selected
             P == Prefix(s, i)
             Q == Prefix(s, i + 1)
  <2>3. d \in D /\ P \in SUBSET D /\ Q = P \cup {d} /\ L \in Seq(D)
    BY <2>2, PrefixIs
  <2>4. \A c \in P : ~ Before(d, c)
    BY <2>2, PrefixNotAfter
  <2>5. f[i + 1] = PySelect(f[i], d)
    BY <2>2 DEF PySelects
  <2> DEFINE e == First(f[i].error, SelectionError(L, d))
  <2>6. f[i + 1].error = e /\ f[i + 1].selected = IF Ok(e) THEN Selected(L, d) ELSE L
    BY <2>5 DEF PySelect
  <2> HIDE DEF d, L, P, Q
  <2>7. CASE Ok(f[i].error)
    <3>1. Consistent(P) /\ Lists(L, P)
      BY <2>2, <2>7 DEF P, L
    <3>2. e = SelectionError(L, d)
      BY <2>7 DEF First
    <3>3. (Ok(e) <=> Consistent(Q)) /\ e \in SelectionErrors
      BY <2>3, <2>4, <3>1, <3>2, SelectionDecides
    <3>4. Selected(L, d) \in Seq(D)
      BY <2>3, SelectedType
    <3>5. Ok(e) => Lists(Selected(L, d), Q)
      BY <2>3, <2>4, <3>1, <3>3, SelectionContinues
    <3> HIDE DEF e
    <3> QED BY <2>3, <2>6, <3>3, <3>4, <3>5 DEF Q
  <2>8. CASE ~ Ok(f[i].error)
    <3>1. e = f[i].error
      BY <2>8 DEF First
    <3>2. ~ Consistent(P) /\ e \in SelectionErrors
      BY <2>2, <2>8, <3>1 DEF P
    <3>3. ~ Consistent(Q)
      <4>1. P \in SUBSET Q
        BY <2>3
      <4> QED BY <3>2, <4>1, ConsistentSubset
    <3> QED BY <2>3, <2>6, <2>8, <3>1, <3>2, <3>3 DEF Q
  <2> QED BY <2>7, <2>8
<1>3. k \in G
  <2> HIDE DEF G
  <2> QED BY <1>1, <1>2, NatSetInduction
<1> QED BY <1>3

-----------------------------------------------------------------------------
(* Adding up the documents of L one by one.                                *)
Run(f, L, k) ==
  /\ f[0] = NothingAdded(<<>>)
  /\ \A j \in 1 .. k : f[j] = Added(f[j - 1], L[j], <<L[j].sketch>>)

(* What Go has added up when it has selected L: all but the last.          *)
HeldBack(acc, L) ==
  IF L = <<>> THEN acc = NothingAdded(<<>>)
  ELSE \E f : Run(f, L, Len(L) - 1) /\ acc = f[Len(L) - 1]

(* A step of the pass keeps it so.                                         *)
LEMMA HeldBackContinues ==
  ASSUME NEW D, NEW st, st.selected \in Seq(D), NEW d \in D, HeldBack(st.summed, st.selected)
  PROVE  HeldBack(IF EpochEnds(st, d) THEN AddLast(st) ELSE st.summed, Selected(st.selected, d))
<1> DEFINE L == st.selected
           M == Selected(L, d)
           n == Len(L)
           acc == IF EpochEnds(st, d) THEN AddLast(st) ELSE st.summed
<1>0. M \in Seq(D) /\ n \in Nat
  BY SelectedType
<1>1. CASE L = <<>>
  <2>1. M = Append(L, d) /\ acc = NothingAdded(<<>>)
    BY <1>1 DEF Selected, EpochEnds, HeldBack
  <2>2. Len(M) = 1 /\ M # <<>>
    <3>1. Len(<<>>) = 0
      OBVIOUS
    <3>2. Len(M) = Len(L) + 1
      BY <2>1
    <3>3. Len(M) = 1
      BY <1>1, <3>1, <3>2
    <3>4. M # <<>>
      <4>1. 1 \in DOMAIN M
        BY <1>0, <3>3
      <4>2. 1 \notin DOMAIN <<>>
        OBVIOUS
      <4> HIDE DEF M
      <4> QED BY <4>1, <4>2, Zenon
    <3> QED BY <3>3, <3>4
  <2>3. Run([j \in 0 .. 0 |-> NothingAdded(<<>>)], M, 0)
    BY DEF Run
  <2>4. 0 \in 0 .. 0
    OBVIOUS
  <2> HIDE DEF M, acc
  <2>5. HeldBack(acc, M)
    BY <2>1, <2>2, <2>3, <2>4 DEF HeldBack
  <2> QED BY <2>5 DEF acc, M
<1>2. CASE L # <<>> /\ SameEpoch(Last(L), d)
  <2>1. n # 0 /\ Front(L) \in Seq(D) /\ Len(Front(L)) = n - 1 /\ \A i \in 1 .. n - 1 : Front(L)[i] = L[i]
    BY <1>0, <1>2, FrontIs
  <2>2. M = Append(Front(L), d) /\ acc = st.summed
    BY <1>2 DEF Selected, EpochEnds
  <2>3. Len(M) = n /\ M # <<>> /\ \A i \in 1 .. n - 1 : M[i] = L[i]
    BY <1>0, <2>1, <2>2
  <2>4. PICK f : Run(f, L, n - 1) /\ acc = f[n - 1]
    BY <1>2, <2>2 DEF HeldBack
  <2> HIDE DEF M, acc, L, n
  <2>5. Run(f, M, n - 1)
    BY <2>3, <2>4 DEF Run
  <2>6. HeldBack(acc, M)
    BY <2>3, <2>4, <2>5 DEF HeldBack
  <2> QED BY <2>6 DEF acc, M, L
<1>3. CASE L # <<>> /\ ~ SameEpoch(Last(L), d)
  <2>1. n # 0 /\ n \in Nat /\ Last(L) = L[n]
    BY <1>0, <1>3, FrontIs
  <2>2. M = Append(L, d) /\ acc = AddLast(st)
    BY <1>3 DEF Selected, EpochEnds
  <2>3. Len(M) = n + 1 /\ M # <<>> /\ \A i \in 1 .. n : M[i] = L[i]
    BY <1>0, <2>1, <2>2
  <2>4. PICK f : Run(f, L, n - 1) /\ st.summed = f[n - 1]
    BY <1>3 DEF HeldBack
  <2>5. acc = Added(f[n - 1], L[n], <<L[n].sketch>>)
    BY <2>1, <2>2, <2>4 DEF AddLast
  <2> HIDE DEF M, acc, L, n
  <2> DEFINE h == [j \in 0 .. n |-> IF j = n THEN acc ELSE f[j]]
  <2>6. Run(h, M, n)
    <3>1. h[0] = NothingAdded(<<>>)
      BY <2>1, <2>4 DEF Run
    <3>2. ASSUME NEW j \in 1 .. n PROVE h[j] = Added(h[j - 1], M[j], <<M[j].sketch>>)
      <4>1. h[j - 1] = f[j - 1] /\ M[j] = L[j]
        BY <2>1, <2>3
      <4>2. CASE j = n
        BY <2>1, <2>5, <4>1, <4>2
      <4>3. CASE j # n
        <5>1. j \in 1 .. n - 1 /\ h[j] = f[j]
          BY <2>1, <4>3
        <5> HIDE DEF h
        <5> QED BY <2>4, <4>1, <5>1 DEF Run
      <4> QED BY <4>2, <4>3
    <3> HIDE DEF h
    <3> QED BY <3>1, <3>2 DEF Run
  <2>7. h[n] = acc /\ (n + 1) - 1 = n
    BY <2>1
  <2> HIDE DEF h
  <2>8. HeldBack(acc, M)
    BY <2>3, <2>6, <2>7 DEF HeldBack
  <2> QED BY <2>8 DEF acc, M, L
<1> QED BY <1>1, <1>2, <1>3

(* The pass of Go over documents in order.                                 *)
GoPasses(g, s) ==
  /\ g[0] = [error |-> "none", summed |-> NothingAdded(<<>>), selected |-> <<>>]
  /\ \A k \in 1 .. Len(s) : g[k] = PassStep(g[k - 1], s[k])

(* Every document is valid and of an expected producer.                    *)
AllScan(P) == \A d \in P : Ok(ScanError(d))

(* Go goes as far as Python selects, over documents that scan.             *)
LEMMA GoPassMeans ==
  ASSUME NEW D, \A d \in D : Numbered(d), NEW s \in Seq(D), InSequence(s),
         NEW f \in [0 .. Len(s) -> Chosen(D)], PySelects(f, s),
         NEW g \in [0 .. Len(s) -> Passes(D)], GoPasses(g, s), NEW k \in 0 .. Len(s)
  PROVE  /\ Ok(g[k].error) <=> AllScan(Prefix(s, k)) /\ Ok(f[k].error)
         /\ g[k].error \in SelectionErrors
         /\ Ok(g[k].error) => g[k].selected = f[k].selected /\ HeldBack(g[k].summed, g[k].selected)
<1> DEFINE Good(i) == /\ Ok(g[i].error) <=> AllScan(Prefix(s, i)) /\ Ok(f[i].error)
                      /\ g[i].error \in SelectionErrors
                      /\ Ok(g[i].error) =>
                           g[i].selected = f[i].selected /\ HeldBack(g[i].summed, g[i].selected)
           G == {i \in Nat : i <= Len(s) => Good(i)}
<1>1. 0 \in G
  <2>1. f[0].error = "none" /\ f[0].selected = <<>>
    BY DEF PySelects
  <2>2. g[0].error = "none" /\ g[0].selected = <<>> /\ g[0].summed = NothingAdded(<<>>)
    BY DEF GoPasses
  <2>3. AllScan(Prefix(s, 0)) /\ "none" \in SelectionErrors /\ Ok("none")
    BY PrefixIs DEF SelectionErrors, Ok, AllScan
  <2>4. HeldBack(g[0].summed, g[0].selected)
    BY <2>2 DEF HeldBack
  <2> QED BY <2>1, <2>2, <2>3, <2>4
<1>2. ASSUME NEW i \in Nat, i \in G PROVE i + 1 \in G
  <2>1. SUFFICES ASSUME i + 1 <= Len(s) PROVE Good(i + 1)
    OBVIOUS
  <2>2. Good(i) /\ i + 1 \in 1 .. Len(s) /\ (i + 1) - 1 = i /\ i \in 0 .. Len(s)
    BY <1>2, <2>1
  <2> DEFINE d == s[i + 1]
             L == g[i].selected
             P == Prefix(s, i)
             Q == Prefix(s, i + 1)
             e == First(g[i].error, PassError(g[i], d))
             e2 == First(f[i].error, SelectionError(f[i].selected, d))
  <2>3. d \in D /\ P \in SUBSET D /\ Q = P \cup {d} /\ L \in Seq(D)
    <3>1. d \in D /\ P \in SUBSET D /\ Q = P \cup {d}
      BY <2>2, PrefixIs
    <3>2. g[i] \in Passes(D)
      BY <2>2
    <3> QED BY <3>1, <3>2 DEF Passes
  <2>4. f[i + 1].error = e2 /\ f[i + 1].selected = IF Ok(e2) THEN Selected(f[i].selected, d) ELSE f[i].selected
    <3>1. f[i + 1] = PySelect(f[i], d)
      BY <2>2 DEF PySelects
    <3> QED BY <3>1 DEF PySelect
  <2>5. g[i + 1] = PassStep(g[i], d)
    BY <2>2 DEF GoPasses
  <2>6. /\ g[i + 1].error = e
        /\ Ok(e) => /\ g[i + 1].selected = Selected(L, d)
                    /\ g[i + 1].summed = IF EpochEnds(g[i], d) THEN AddLast(g[i]) ELSE g[i].summed
    <3>1. g[i] \in Passes(D)
      BY <2>2
    <3>2. CASE Ok(e)
      BY <2>5, <3>2 DEF PassStep
    <3>3. CASE ~ Ok(e)
      BY <2>5, <3>1, <3>3 DEF PassStep, Passes
    <3> QED BY <3>2, <3>3
  <2> HIDE DEF d, L, P, Q
  <2>7. AllScan(Q) <=> AllScan(P) /\ Ok(ScanError(d))
    BY <2>3 DEF AllScan
  <2>8. CASE Ok(g[i].error)
    <3>1. AllScan(P) /\ Ok(f[i].error) /\ L = f[i].selected /\ HeldBack(g[i].summed, L)
      BY <2>2, <2>8 DEF P, L
    <3>2. e = First(ScanError(d), SelectionError(L, d)) /\ e2 = SelectionError(L, d)
      BY <2>8, <3>1 DEF First, PassError, L
    <3>3. Ok(e) <=> Ok(ScanError(d)) /\ Ok(e2)
      BY <3>2 DEF First, Ok
    <3>4. e \in SelectionErrors
      <4>1. ScanError(d) \in SelectionErrors
        BY DEF ScanError, SelectionErrors
      <4>2. SelectionError(L, d) \in SelectionErrors
        BY DEF SelectionError, SelectionErrors
      <4> QED BY <3>2, <4>1, <4>2 DEF First
    <3>5. HeldBack(IF EpochEnds(g[i], d) THEN AddLast(g[i]) ELSE g[i].summed, Selected(L, d))
      BY <2>3, <3>1, HeldBackContinues DEF L
    <3> HIDE DEF e, e2
    <3>6. Ok(e) => g[i + 1].selected = f[i + 1].selected /\ HeldBack(g[i + 1].summed, g[i + 1].selected)
      BY <2>4, <2>6, <3>1, <3>3, <3>5
    <3> QED BY <2>4, <2>6, <2>7, <3>1, <3>3, <3>4, <3>6 DEF Q
  <2>9. CASE ~ Ok(g[i].error)
    <3>1. e = g[i].error
      BY <2>9 DEF First
    <3>2. ~ AllScan(P) \/ ~ Ok(f[i].error)
      BY <2>2, <2>9 DEF P
    <3>3. ~ Ok(f[i].error) => e2 = f[i].error
      BY DEF First
    <3> HIDE DEF e, e2
    <3> QED BY <2>2, <2>4, <2>6, <2>7, <2>9, <3>1, <3>2, <3>3 DEF Q
  <2> QED BY <2>8, <2>9
<1>3. k \in G
  <2> HIDE DEF G
  <2> QED BY <1>1, <1>2, NatSetInduction
<1> QED BY <1>3

(* Two sums agree in all but the states Python has at hand.                *)
Agree(acc, run) ==
  /\ acc.error = run.error /\ acc.count = run.count
  /\ acc.weight = run.weight /\ acc.sketch = run.sketch

(* The states Python has at hand make no difference to what it adds up.    *)
LEMMA PyAddAgrees ==
  ASSUME NEW D, NEW acc \in Sums(D), NEW run \in Sums(D), NEW d,
         Agree(acc, run), acc.mine => acc.cache = <<>>
  PROVE  /\ Agree(PyAdd(acc, d), Added(run, d, <<d.sketch>>))
         /\ PyAdd(acc, d).mine => PyAdd(acc, d).cache = <<>>
<1> DEFINE p == <<d.sketch>>
           a == Added(acc, d, p)
<1>1. Agree(a, Added(run, d, p)) /\ a.mine = acc.mine /\ a.cache = acc.cache
  <2>1. Merged(acc, p) = Merged(run, p)
    BY DEF Merged, Agree
  <2> HIDE DEF p
  <2>2. CASE ~ Ok(acc.error)
    BY <2>2 DEF Added, Agree
  <2>3. CASE Ok(acc.error) /\ acc.count + d.count > MAX_INT
    BY <2>3 DEF Added, Agree, Sums
  <2>4. CASE Ok(acc.error) /\ ~ (acc.count + d.count > MAX_INT) /\ acc.weight + d.sketch.weight > MAX_INT
    BY <2>4 DEF Added, Agree, Sums
  <2>5. CASE /\ Ok(acc.error) /\ ~ (acc.count + d.count > MAX_INT)
             /\ ~ (acc.weight + d.sketch.weight > MAX_INT)
    BY <2>1, <2>5 DEF Added, Agree, Sums
  <2> QED BY <2>2, <2>3, <2>4, <2>5
<1>2. CASE ~ Cached(acc, d)
  BY <1>1, <1>2 DEF PyAdd
<1>3. CASE Cached(acc, d)
  <2>1. acc.mine = FALSE
    BY <1>3 DEF Cached, Sums
  <2> DEFINE after == Forgotten(a, d)
  <2>2. PyAdd(acc, d) = [after EXCEPT !.mine = @ \/ acc.sketch = <<>>]
    BY <1>3, <2>1 DEF PyAdd
  <2>3. /\ DOMAIN a = DOMAIN acc
        /\ DOMAIN acc = {"error", "count", "sketch", "weight", "cache", "mine"}
    BY DEF Added, Sums
  <2>4. /\ after.error = a.error /\ after.count = a.count /\ after.weight = a.weight
        /\ after.sketch = a.sketch /\ after.cache = <<>> /\ DOMAIN after = DOMAIN a
    BY <2>3 DEF Forgotten
  <2> HIDE DEF after, a
  <2>5. Agree(PyAdd(acc, d), a) /\ PyAdd(acc, d).cache = <<>>
    BY <2>2, <2>3, <2>4 DEF Agree
  <2> QED BY <1>1, <2>5 DEF Agree
<1> QED BY <1>2, <1>3

(* Adding up counters and weights over sets of documents, one by one.      *)
LEMMA CountIs ==
  ASSUME NEW D, \A d \in D : d.count \in Nat /\ d.sketch.weight \in Nat,
         NEW A \in SUBSET D, IsFiniteSet(A)
  PROVE  /\ Count(A) \in Nat /\ Weight(A) \in Nat
         /\ Count({}) = 0 /\ Weight({}) = 0
         /\ \A d \in D \ A : Count(A \cup {d}) = Count(A) + d.count
                          /\ Weight(A \cup {d}) = Weight(A) + d.sketch.weight
<1> DEFINE c == [d \in D |-> d.count]
           w == [d \in D |-> d.sketch.weight]
<1>1. ASSUME NEW B \in SUBSET D, IsFiniteSet(B)
      PROVE  Count(B) = SumFunctionOnSet(c, B) /\ Weight(B) = SumFunctionOnSet(w, B)
  <2> DEFINE cb == [d \in B |-> d.count]
             wb == [d \in B |-> d.sketch.weight]
  <2>1. Count(B) = SumFunctionOnSet(cb, B) /\ Weight(B) = SumFunctionOnSet(wb, B)
    BY DEF Count, Weight, SumFunction, FoldFunction, SumFunctionOnSet
  <2>2. \A d \in B : c[d] = cb[d] /\ w[d] = wb[d]
    OBVIOUS
  <2> HIDE DEF c, w, cb, wb
  <2> QED BY <1>1, <2>1, <2>2, SumEqual
<1>2. \A d \in D : c[d] = d.count /\ w[d] = d.sketch.weight /\ c[d] \in Nat /\ w[d] \in Nat
  OBVIOUS
<1> HIDE DEF c, w
<1>3. Count(A) \in Nat /\ Weight(A) \in Nat
  BY <1>1, <1>2, SumNat
<1>4. Count({}) = 0 /\ Weight({}) = 0
  BY <1>1, SumEmpty, FS_EmptySet
<1>5. ASSUME NEW d \in D \ A
      PROVE  Count(A \cup {d}) = Count(A) + d.count /\ Weight(A \cup {d}) = Weight(A) + d.sketch.weight
  <2>1. IsFiniteSet(A \cup {d}) /\ A \cup {d} \in SUBSET D
    BY FS_AddElement
  <2>2. \A x \in A \cup {d} : c[x] \in Int /\ w[x] \in Int
    BY <1>2
  <2>3. SumFunctionOnSet(c, A \cup {d}) = c[d] + SumFunctionOnSet(c, A)
    BY <2>2, SumAdd
  <2>4. SumFunctionOnSet(w, A \cup {d}) = w[d] + SumFunctionOnSet(w, A)
    BY <2>2, SumAdd
  <2>5. Count(A \cup {d}) = d.count + Count(A) /\ Weight(A \cup {d}) = d.sketch.weight + Weight(A)
    BY <1>1, <1>2, <2>1, <2>3, <2>4
  <2> QED BY <1>2, <1>3, <2>5
<1> QED BY <1>3, <1>4, <1>5

(* The first documents of a sequence are finitely many.                    *)
LEMMA PrefixFinite ==
  ASSUME NEW D, NEW s \in Seq(D), NEW k \in 0 .. Len(s) PROVE IsFiniteSet(Prefix(s, k))
<1> DEFINE G == {i \in Nat : i <= Len(s) => IsFiniteSet(Prefix(s, i))}
<1>1. 0 \in G
  <2>1. Prefix(s, 0) = {}
    BY PrefixIs
  <2> QED BY <2>1, FS_EmptySet
<1>2. ASSUME NEW i \in Nat, i \in G PROVE i + 1 \in G
  <2>1. SUFFICES ASSUME i + 1 <= Len(s) PROVE IsFiniteSet(Prefix(s, i + 1))
    OBVIOUS
  <2>2. IsFiniteSet(Prefix(s, i)) /\ i + 1 \in 1 .. Len(s) /\ (i + 1) - 1 = i
    BY <1>2, <2>1
  <2>3. Prefix(s, i + 1) = Prefix(s, i) \cup {s[i + 1]}
    BY <2>2, PrefixIs
  <2> QED BY <2>2, <2>3, FS_AddElement
<1>3. k \in G
  <2> HIDE DEF G
  <2> QED BY <1>1, <1>2, NatSetInduction
<1> QED BY <1>3

(* Of the first k documents, those whose payloads are merged: the full     *)
(* ones and the first.                                                     *)
Merging(L, k) == {d \in Prefix(L, k) : d.sketch.weight # 0 \/ d = L[1]}

(* Documents with counters that are no less than 0.                        *)
Adding(D) == \A d \in D : Numbered(d) /\ d.count \in Nat

(* What adding up the first k documents of L gives.                        *)
Tallied(acc, L, k) ==
  LET A == Prefix(L, k)
  IN /\ Ok(acc.error) <=> Fits(A)
     /\ acc.error \in {"none", "overflow", "merge"}
     /\ Ok(acc.error) => /\ acc.count = Count(A) /\ acc.weight = Weight(A)
                         /\ Len(acc.sketch) = Cardinality(Merging(L, k))
                         /\ acc.sketch = <<>> <=> k = 0

(* Adding up stops at an overflow exactly if the total does not fit,       *)
(* whatever the order: nothing that is added is less than 0.               *)
LEMMA RunTallies ==
  ASSUME NEW D, Adding(D), NEW L \in Seq(D),
         \A i, j \in 1 .. Len(L) : i < j => L[i] # L[j],
         NEW n \in 0 .. Len(L), NEW f, Run(f, L, n), NEW k \in 0 .. n
  PROVE  f[k] \in Sums(D) /\ Tallied(f[k], L, k)
<1> DEFINE G == {i \in Nat : i <= n => f[i] \in Sums(D) /\ Tallied(f[i], L, i)}
<1>0. \A d \in D : d.count \in Nat /\ d.sketch.weight \in Nat
  BY DEF Adding, Numbered
<1>1. 0 \in G
  <2>1. f[0] = NothingAdded(<<>>)
    BY DEF Run
  <2>2. f[0] \in Sums(D)
    BY <2>1 DEF NothingAdded, Sums, Errors
  <2>3. Prefix(L, 0) = {} /\ Merging(L, 0) = {}
    BY PrefixIs DEF Merging
  <2>4. Count({}) = 0 /\ Weight({}) = 0 /\ Cardinality({}) = 0
    BY <1>0, CountIs, FS_EmptySet
  <2>5. Fits({})
    BY <2>4, LimitAssumption DEF Fits
  <2>6. Tallied(f[0], L, 0)
    <3>1. f[0].error = "none" /\ f[0].count = 0 /\ f[0].weight = 0 /\ f[0].sketch = <<>> /\ Ok("none")
      BY <2>1 DEF NothingAdded, Ok
    <3>2. Len(<<>>) = 0
      OBVIOUS
    <3> QED BY <2>3, <2>4, <2>5, <3>1, <3>2 DEF Tallied
  <2> QED BY <2>2, <2>6
<1>2. ASSUME NEW i \in Nat, i \in G PROVE i + 1 \in G
  <2>1. SUFFICES ASSUME i + 1 <= n PROVE f[i + 1] \in Sums(D) /\ Tallied(f[i + 1], L, i + 1)
    OBVIOUS
  <2> DEFINE d == L[i + 1]
             A == Prefix(L, i)
             B == Prefix(L, i + 1)
             p == <<d.sketch>>
             acc == f[i]
  <2>2. /\ acc \in Sums(D) /\ Tallied(acc, L, i) /\ i + 1 \in 1 .. n /\ (i + 1) - 1 = i
        /\ i + 1 \in 1 .. Len(L) /\ i \in 0 .. Len(L)
    BY <1>2, <2>1
  <2>3. d \in D /\ A \in SUBSET D /\ B = A \cup {d} /\ IsFiniteSet(A) /\ IsFiniteSet(B) /\ B \in SUBSET D
    <3>1. d \in D /\ A \in SUBSET D /\ B = A \cup {d}
      BY <2>2, PrefixIs
    <3>2. IsFiniteSet(A)
      BY <2>2, PrefixFinite
    <3>3. IsFiniteSet(B)
      <4> HIDE DEF A, B, d
      <4> QED BY <3>1, <3>2, FS_AddElement
    <3> QED BY <3>1, <3>2, <3>3
  <2>4. d \notin A
    <3>1. ASSUME NEW j \in 1 .. i PROVE L[j] # d
      <4>1. j \in 1 .. Len(L) /\ i + 1 \in 1 .. Len(L) /\ j < i + 1
        BY <2>2
      <4> QED BY <4>1
    <3> QED BY <3>1 DEF Prefix
  <2>5. f[i + 1] = Added(acc, d, p)
    BY <2>2 DEF Run
  <2>6. d.count \in Nat /\ d.sketch.weight \in Nat /\ p \in Seq(Payloads(D))
    BY <1>0, <2>3 DEF Payloads
  <2>7. f[i + 1] \in Sums(D)
    <3> HIDE DEF d, p, acc
    <3> QED BY <2>2, <2>5, <2>6, AddedType
  <2>8. /\ Count(A) \in Nat /\ Weight(A) \in Nat /\ Count(B) = Count(A) + d.count
        /\ Weight(B) = Weight(A) + d.sketch.weight
    <3> HIDE DEF d, A, B
    <3> QED BY <1>0, <2>3, <2>4, CountIs
  <2>9. /\ Ok(acc.error) <=> Fits(A)
        /\ acc.error \in {"none", "overflow", "merge"}
        /\ Ok(acc.error) => /\ acc.count = Count(A) /\ acc.weight = Weight(A)
                            /\ Len(acc.sketch) = Cardinality(Merging(L, i))
                            /\ acc.sketch = <<>> <=> i = 0
    BY <2>2 DEF Tallied
  <2> HIDE DEF A, B
  <2>10. CASE ~ Ok(acc.error)
    <3>1. f[i + 1] = acc
      BY <2>5, <2>10 DEF Added
    <3>2. ~ Fits(B)
      BY <2>6, <2>8, <2>9, <2>10, LimitAssumption DEF Fits
    <3> QED BY <2>7, <2>9, <2>10, <3>1, <3>2 DEF Tallied, B
  <2>11. CASE Ok(acc.error) /\ ~ Fits(B)
    <3>1. f[i + 1].error = "overflow" \/ f[i + 1].error = "merge"
      <4>1. acc.count + d.count > MAX_INT \/ acc.weight + d.sketch.weight > MAX_INT
        <5> HIDE DEF acc, d
        <5> QED BY <2>6, <2>8, <2>9, <2>11, LimitAssumption DEF Fits
      <4> QED BY <2>2, <2>5, <2>11, <4>1 DEF Added, Sums
    <3> QED BY <2>7, <2>11, <3>1 DEF Tallied, Ok, B
  <2>12. CASE Ok(acc.error) /\ Fits(B)
    <3>1. ~ (acc.count + d.count > MAX_INT) /\ ~ (acc.weight + d.sketch.weight > MAX_INT)
      <4> HIDE DEF acc, d
      <4> QED BY <2>6, <2>8, <2>9, <2>12, LimitAssumption DEF Fits
    <3>2. /\ f[i + 1].error = acc.error /\ f[i + 1].count = acc.count + d.count
          /\ f[i + 1].weight = acc.weight + d.sketch.weight /\ f[i + 1].sketch = Merged(acc, p)
      BY <2>2, <2>5, <2>12, <3>1 DEF Added, Sums
    <3>3. \A j \in DOMAIN p : p[j].weight = d.sketch.weight
      OBVIOUS
    <3>4. Merged(acc, p) = IF i # 0 /\ d.sketch.weight = 0 THEN acc.sketch ELSE acc.sketch \o p
      <4>1. (\A j \in DOMAIN p : p[j].weight = 0) <=> d.sketch.weight = 0
        OBVIOUS
      <4> QED BY <2>9, <2>12, <4>1 DEF Merged
    <3>5. Merging(L, i + 1) = IF i # 0 /\ d.sketch.weight = 0 THEN Merging(L, i) ELSE Merging(L, i) \cup {d}
      <4>1. Merging(L, i + 1) = {e \in A \cup {d} : e.sketch.weight # 0 \/ e = L[1]}
        BY <2>3 DEF Merging, B
      <4>2. Merging(L, i) = {e \in A : e.sketch.weight # 0 \/ e = L[1]}
        BY DEF Merging, A
      <4>3. CASE i = 0
        <5>1. d = L[1]
          BY <4>3
        <5> QED BY <4>1, <4>2, <4>3, <5>1
      <4>4. CASE i # 0
        <5>1. L[1] # d
          <6>1. 1 < i + 1 /\ 1 \in 1 .. Len(L)
            BY <2>2, <4>4
          <6> QED BY <2>2, <6>1
        <5> QED BY <4>1, <4>2, <4>4, <5>1
      <4> QED BY <4>3, <4>4
    <3>6. IsFiniteSet(Merging(L, i)) /\ d \notin Merging(L, i)
      <4>1. Merging(L, i) \in SUBSET A
        BY DEF Merging, A
      <4> QED BY <2>3, <2>4, <4>1, FS_Subset
    <3>7. Cardinality(Merging(L, i) \cup {d}) = Cardinality(Merging(L, i)) + 1
      <4> HIDE DEF d
      <4> QED BY <3>6, FS_AddElement
    <3>8. /\ acc.sketch \in Seq(Payloads(D)) /\ Len(acc.sketch \o p) = Len(acc.sketch) + 1
          /\ acc.sketch \o p # <<>>
      <4>1. acc.sketch \in Seq(Payloads(D))
        BY <2>2 DEF Sums
      <4>2. Len(acc.sketch \o p) = Len(acc.sketch) + 1 /\ acc.sketch \o p \in Seq(Payloads(D))
        BY <2>6, <4>1
      <4>3. 1 \in DOMAIN (acc.sketch \o p) /\ 1 \notin DOMAIN <<>>
        BY <4>1, <4>2
      <4>4. acc.sketch \o p # <<>>
        BY <4>3, Zenon
      <4> QED BY <4>1, <4>2, <4>4
    <3>9. Len(f[i + 1].sketch) = Cardinality(Merging(L, i + 1)) /\ f[i + 1].sketch # <<>>
      <4> HIDE DEF d, p, acc
      <4> QED BY <2>9, <2>12, <3>2, <3>4, <3>5, <3>7, <3>8
    <3> HIDE DEF acc, d
    <3>10. f[i + 1].count = Count(B) /\ f[i + 1].weight = Weight(B) /\ f[i + 1].error = acc.error /\ i + 1 # 0
      BY <2>8, <2>9, <2>12, <3>2
    <3> QED BY <2>7, <2>9, <2>12, <3>9, <3>10 DEF Tallied, B
  <2> QED BY <2>10, <2>11, <2>12
<1>3. k \in G
  <2> HIDE DEF G
  <2> QED BY <1>1, <1>2, NatSetInduction
<1> QED BY <1>3

(* A document of the window that begins at w.                              *)
Within(d, w) ==
  Numbered(d) /\ d.window = w /\ w <= d.start /\ d.start <= d.end /\ d.end <= w + Duration

(* The observed intervals of two documents share no instant.               *)
Apart(c, d) == c.end <= d.start \/ d.end <= c.start

(* Instant t was observed.                                                 *)
During(d, t) == d.start <= t /\ t < d.end

(* What a walk over the first k parts of a producer has found.             *)
WalkedTo(h, K, w, k) ==
  /\ h[k].end \in Int /\ w <= h[k].end /\ h[k].end <= w + Duration
  /\ h[k].end = IF k = 0 THEN w ELSE K[k].end
  /\ h[k].overlap => \E i, j \in 1 .. k : i < j /\ ~ Apart(K[i], K[j])
  /\ ~ h[k].overlap =>
       /\ \A i \in 1 .. k : K[i].end <= h[k].end
       /\ \A i, j \in 1 .. k : i < j => K[i].end <= K[j].start
       /\ ~ h[k].gap => \A t \in Int : (\E i \in 1 .. k : During(K[i], t)) <=> w <= t /\ t < h[k].end
       /\ h[k].gap   => \E t \in Int : w <= t /\ t < h[k].end /\ \A i \in 1 .. k : ~ During(K[i], t)

(* A further part keeps that true.                                         *)
LEMMA WalkStep ==
  ASSUME NEW D, NEW w \in Int, \A d \in D : Within(d, w), NEW K \in Seq(D),
         \A i, j \in 1 .. Len(K) : i < j => ~ Earlier(K[j], K[i]),
         NEW h \in [0 .. Len(K) -> Walks],
         \A k \in 1 .. Len(K) : h[k] = Walked(h[k - 1], K[k]),
         NEW k \in Nat, k + 1 <= Len(K), WalkedTo(h, K, w, k)
  PROVE  WalkedTo(h, K, w, k + 1)
<1> DEFINE d == K[k + 1]
           a == h[k]
           b == h[k + 1]
<1>0. Duration \in Nat
  BY DurationAssumption
<1>1. k + 1 \in 1 .. Len(K) /\ (k + 1) - 1 = k /\ k \in 0 .. Len(K) /\ d \in D
  OBVIOUS
<1>2. /\ a.end \in Int /\ w <= a.end /\ a.end <= w + Duration
      /\ a.end = IF k = 0 THEN w ELSE K[k].end
      /\ a.overlap => \E i, j \in 1 .. k : i < j /\ ~ Apart(K[i], K[j])
      /\ ~ a.overlap =>
           /\ \A i \in 1 .. k : K[i].end <= a.end
           /\ \A i, j \in 1 .. k : i < j => K[i].end <= K[j].start
           /\ ~ a.gap => \A t \in Int : (\E i \in 1 .. k : During(K[i], t)) <=> w <= t /\ t < a.end
           /\ a.gap   => \E t \in Int : w <= t /\ t < a.end /\ \A i \in 1 .. k : ~ During(K[i], t)
  BY DEF WalkedTo
<1>3. b = Walked(a, d)
  BY <1>1
<1>4. /\ b.end = d.end /\ (b.overlap <=> a.overlap \/ d.start < a.end)
      /\ (b.gap <=> a.gap \/ d.start # a.end)
      /\ a.overlap \in BOOLEAN /\ a.gap \in BOOLEAN /\ b.overlap \in BOOLEAN /\ b.gap \in BOOLEAN
  <2>1. a \in Walks /\ b \in Walks
    BY <1>1
  <2> HIDE DEF a, b
  <2> QED BY <1>3, <2>1 DEF Walked, Walks
<1>5. d.start \in Int /\ d.end \in Int /\ w <= d.start /\ d.start <= d.end /\ d.end <= w + Duration
  BY <1>1 DEF Within, Numbered
<1>6. \A i \in 1 .. k : K[i] \in D /\ K[i].start \in Int /\ K[i].end \in Int /\ K[i].start <= K[i].end
  BY <1>1 DEF Within, Numbered
<1>7. \A i \in 1 .. k + 1 : i \in 1 .. k \/ i = k + 1
  BY <1>1
<1>8. \A i \in 1 .. k : i \in 1 .. k + 1 /\ i < k + 1
  BY <1>1
<1>9. b.end \in Int /\ w <= b.end /\ b.end <= w + Duration /\ b.end = K[k + 1].end
  BY <1>0, <1>4, <1>5
<1> HIDE DEF a, b, d
<1>10. ASSUME b.overlap PROVE \E i, j \in 1 .. k + 1 : i < j /\ ~ Apart(K[i], K[j])
  <2>1. CASE a.overlap
    BY <1>2, <1>8, <2>1
  <2>2. CASE d.start < a.end
    <3>1. k # 0 /\ k \in 1 .. k /\ a.end = K[k].end
      BY <1>2, <1>5, <2>2
    <3>2. ~ Earlier(d, K[k])
      <4>1. k \in 1 .. Len(K) /\ k < k + 1
        BY <1>1, <3>1
      <4> QED BY <1>1, <4>1 DEF d
    <3>3. ~ Apart(K[k], d)
      <4>1. K[k].start \in Int /\ K[k].end \in Int /\ K[k].start <= K[k].end
        BY <1>6, <3>1
      <4>2. ~ (d.start < K[k].start) /\ ~ (d.start = K[k].start /\ d.end < K[k].end)
        BY <3>2 DEF Earlier
      <4> QED BY <1>5, <2>2, <3>1, <4>1, <4>2 DEF Apart
    <3>4. k \in 1 .. k + 1 /\ k + 1 \in 1 .. k + 1 /\ k < k + 1
      BY <3>1
    <3> QED BY <3>3, <3>4 DEF d
  <2> QED BY <1>4, <1>10, <2>1, <2>2
<1>11. ASSUME ~ b.overlap
       PROVE  /\ \A i \in 1 .. k + 1 : K[i].end <= b.end
              /\ \A i, j \in 1 .. k + 1 : i < j => K[i].end <= K[j].start
              /\ ~ b.gap => \A t \in Int : (\E i \in 1 .. k + 1 : During(K[i], t)) <=> w <= t /\ t < b.end
              /\ b.gap   => \E t \in Int : w <= t /\ t < b.end /\ \A i \in 1 .. k + 1 : ~ During(K[i], t)
  <2>1. ~ a.overlap /\ a.end <= d.start
    BY <1>2, <1>4, <1>5, <1>11
  <2>2. ASSUME NEW i \in 1 .. k PROVE K[i].end <= d.start /\ K[i].end <= d.end
    <3>1. K[i].end <= a.end
      BY <1>2, <2>1
    <3> QED BY <1>2, <1>5, <1>6, <2>1, <3>1
  <2>3. \A i \in 1 .. k + 1 : K[i].end <= b.end
    <3>1. d.end <= b.end
      BY <1>4, <1>5
    <3> QED BY <1>4, <1>7, <2>2, <3>1 DEF d
  <2>4. ASSUME NEW i \in 1 .. k + 1, NEW j \in 1 .. k + 1, i < j PROVE K[i].end <= K[j].start
    <3>1. i \in 1 .. k
      BY <2>4
    <3>2. CASE j \in 1 .. k
      BY <1>2, <2>1, <2>4, <3>1, <3>2
    <3>3. CASE j = k + 1
      BY <2>2, <3>1, <3>3 DEF d
    <3> QED BY <1>7, <3>2, <3>3
  <2>5. \A t : (\E i \in 1 .. k + 1 : During(K[i], t)) <=> (\E i \in 1 .. k : During(K[i], t)) \/ During(d, t)
    <3>1. k + 1 \in 1 .. k + 1
      OBVIOUS
    <3> QED BY <1>7, <1>8, <3>1 DEF d
  <2>6. ASSUME ~ b.gap, NEW t \in Int
        PROVE (\E i \in 1 .. k + 1 : During(K[i], t)) <=> w <= t /\ t < b.end
    <3>1. ~ a.gap /\ d.start = a.end
      BY <1>4, <2>6
    <3>2. (\E i \in 1 .. k : During(K[i], t)) <=> w <= t /\ t < a.end
      BY <1>2, <2>1, <3>1
    <3>3. During(d, t) <=> a.end <= t /\ t < b.end
      BY <1>4, <3>1 DEF During
    <3>4. a.end <= b.end
      BY <1>4, <1>5, <3>1
    <3> QED BY <1>2, <1>9, <2>5, <3>2, <3>3, <3>4
  <2>7. ASSUME b.gap
        PROVE  \E t \in Int : w <= t /\ t < b.end /\ \A i \in 1 .. k + 1 : ~ During(K[i], t)
    <3>1. CASE a.gap
      <4>1. PICK t \in Int : w <= t /\ t < a.end /\ \A i \in 1 .. k : ~ During(K[i], t)
        BY <1>2, <2>1, <3>1
      <4>2. ~ During(d, t) /\ t < b.end
        BY <1>2, <1>4, <1>5, <2>1, <4>1 DEF During
      <4> QED BY <2>5, <4>1, <4>2
    <3>2. CASE ~ a.gap
      <4>1. a.end < d.start
        BY <1>2, <1>4, <1>5, <2>1, <2>7, <3>2
      <4>2. w <= a.end /\ a.end < b.end /\ ~ During(d, a.end)
        BY <1>2, <1>4, <1>5, <4>1 DEF During
      <4>3. ASSUME NEW i \in 1 .. k PROVE ~ During(K[i], a.end)
        <5>1. K[i].end <= a.end
          BY <1>2, <2>1
        <5> QED BY <1>2, <1>6, <5>1 DEF During
      <4> QED BY <1>2, <2>5, <4>2, <4>3
    <3> QED BY <3>1, <3>2
  <2> QED BY <2>3, <2>4, <2>6, <2>7
<1>12. b.end = IF k + 1 = 0 THEN w ELSE K[k + 1].end
  BY <1>9
<1> QED BY <1>9, <1>10, <1>11, <1>12 DEF WalkedTo, b

(* All that was observed.                                                  *)
Instants(S) == UNION {d.start .. d.end - 1 : d \in S}

(* A walk finds an overlap if two parts share an instant, and if none do,  *)
(* a gap if an instant of the window was not observed.                     *)
LEMMA WalkMeans ==
  ASSUME NEW D, NEW w \in Int, \A d \in D : Within(d, w), NEW K \in Seq(D), K # <<>>,
         \A i, j \in 1 .. Len(K) : i < j => ~ Earlier(K[j], K[i]) /\ K[i] # K[j]
  PROVE  /\ Walk(K) \in Walks
         /\ ~ Walk(K).overlap <=> \A c, d \in ToSet(K) : c # d => Apart(c, d)
         /\ ~ Walk(K).overlap =>
              ((Walk(K).gap \/ Walk(K).end # w + Duration)
                 <=> Instants(ToSet(K)) # w .. w + Duration - 1)
<1> DEFINE n == Len(K)
           base == [end |-> Head(K).window, overlap |-> FALSE, gap |-> FALSE]
           S == ToSet(K)
<1>0. n \in Nat /\ n # 0 /\ DOMAIN K = 1 .. n /\ Head(K) = K[1] /\ Duration \in Nat
      /\ \A i \in 1 .. n : K[i] \in D
  BY DurationAssumption
<1>1. base \in Walks /\ base.end = w /\ ~ base.overlap /\ ~ base.gap
  BY <1>0 DEF Walks, Within
<1> HIDE DEF base
<1>2. \A d \in D : Numbered(d)
  BY DEF Within
<1>3. PICK h \in [0 .. n -> Walks] :
        /\ FoldLeft(Walked, base, K) = h[n]
        /\ h[0] = base
        /\ \A k \in 1 .. n : h[k] = Walked(h[k - 1], K[k])
  BY <1>1, <1>2, WalkFold
<1> DEFINE a == h[n]
<1>4. Walk(K) = a
  BY <1>3 DEF Walk, base
<1>5. WalkedTo(h, K, w, n)
  <2> DEFINE G == {k \in Nat : k <= n => WalkedTo(h, K, w, k)}
  <2>1. 0 \in G
    <3>1. \A t \in Int : ~ (w <= t /\ t < w)
      OBVIOUS
    <3>2. WalkedTo(h, K, w, 0)
      BY <1>0, <1>1, <1>3, <3>1 DEF WalkedTo
    <3> QED BY <3>2
  <2>2. ASSUME NEW k \in Nat, k \in G PROVE k + 1 \in G
    <3>1. SUFFICES ASSUME k + 1 <= n PROVE WalkedTo(h, K, w, k + 1)
      OBVIOUS
    <3>2. WalkedTo(h, K, w, k)
      BY <1>0, <2>2, <3>1
    <3> QED BY <1>3, <3>1, <3>2, WalkStep
  <2>3. n \in G
    <3> HIDE DEF G
    <3> QED BY <1>0, <2>1, <2>2, NatSetInduction
  <2> QED BY <1>0, <2>3
<1>6. /\ a.end \in Int /\ w <= a.end /\ a.end <= w + Duration
      /\ a.overlap => \E i, j \in 1 .. n : i < j /\ ~ Apart(K[i], K[j])
      /\ ~ a.overlap =>
           /\ \A i, j \in 1 .. n : i < j => K[i].end <= K[j].start
           /\ ~ a.gap => \A t \in Int : (\E i \in 1 .. n : During(K[i], t)) <=> w <= t /\ t < a.end
           /\ a.gap   => \E t \in Int : w <= t /\ t < a.end /\ \A i \in 1 .. n : ~ During(K[i], t)
  BY <1>5 DEF WalkedTo
<1>7. a \in Walks
  BY <1>0, <1>3
<1> HIDE DEF a
<1>8. /\ \A i \in 1 .. n : K[i] \in S
      /\ \A c \in S : \E i \in 1 .. n : c = K[i]
  BY <1>0 DEF ToSet
<1>9. ~ a.overlap <=> \A c, d \in S : c # d => Apart(c, d)
  <2>1. ASSUME a.overlap PROVE \E c, d \in S : c # d /\ ~ Apart(c, d)
    <3>1. PICK i \in 1 .. n, j \in 1 .. n : i < j /\ ~ Apart(K[i], K[j])
      BY <1>6, <2>1
    <3>2. K[i] # K[j]
      BY <3>1
    <3> HIDE DEF S
    <3> QED BY <1>8, <3>1, <3>2
  <2>2. ASSUME ~ a.overlap, NEW c \in S, NEW d \in S, c # d PROVE Apart(c, d)
    <3>1. PICK i \in 1 .. n : c = K[i]
      BY <1>8
    <3>2. PICK j \in 1 .. n : d = K[j]
      BY <1>8
    <3>3. i < j \/ j < i
      BY <1>0, <2>2, <3>1, <3>2
    <3>4. i < j => K[i].end <= K[j].start
      BY <1>6, <2>2
    <3>5. j < i => K[j].end <= K[i].start
      BY <1>6, <2>2
    <3> QED BY <3>1, <3>2, <3>3, <3>4, <3>5 DEF Apart
  <2> QED BY <2>1, <2>2
<1>10. \A t \in Int : t \in Instants(S) <=> \E i \in 1 .. n : During(K[i], t)
  <2>1. ASSUME NEW t \in Int, NEW d \in S PROVE t \in d.start .. d.end - 1 <=> During(d, t)
    <3>1. d \in D
      BY <1>0, <1>8
    <3>2. d.start \in Int /\ d.end \in Int
      BY <3>1 DEF Within, Numbered
    <3> QED BY <3>2 DEF During
  <2>2. ASSUME NEW t \in Int PROVE t \in Instants(S) <=> \E d \in S : During(d, t)
    <3> HIDE DEF S
    <3> QED BY <2>1 DEF Instants
  <2> HIDE DEF S
  <2> QED BY <1>8, <2>2
<1>11. Instants(S) \subseteq Int
  <2>1. \A d \in S : d.start \in Int /\ d.end \in Int
    BY <1>0, <1>8 DEF Within, Numbered
  <2> HIDE DEF S
  <2> QED BY <2>1 DEF Instants
<1>12. ASSUME ~ a.overlap
       PROVE  (a.gap \/ a.end # w + Duration) <=> Instants(S) # w .. w + Duration - 1
  <2> DEFINE all == w .. w + Duration - 1
  <2>0. \A t \in Int : t \in all <=> w <= t /\ t < w + Duration
    BY <1>0
  <2> HIDE DEF S, all
  <2>1. CASE a.gap
    <3>1. PICK t \in Int : w <= t /\ t < a.end /\ \A i \in 1 .. n : ~ During(K[i], t)
      BY <1>6, <1>12, <2>1
    <3>2. t \in all /\ t \notin Instants(S)
      BY <1>0, <1>6, <1>10, <2>0, <3>1
    <3> QED BY <2>1, <3>2 DEF all
  <2>2. CASE ~ a.gap /\ a.end # w + Duration
    <3>1. a.end \in all /\ a.end \notin Instants(S)
      BY <1>0, <1>6, <1>10, <1>12, <2>0, <2>2
    <3> QED BY <2>2, <3>1 DEF all
  <2>3. CASE ~ a.gap /\ a.end = w + Duration
    <3>1. \A t \in Int : t \in Instants(S) <=> t \in all
      BY <1>6, <1>10, <1>12, <2>0, <2>3
    <3>2. all \subseteq Int
      BY DEF all
    <3>3. Instants(S) = all
      BY <1>11, <3>1, <3>2
    <3> QED BY <2>3, <3>3 DEF all
  <2> QED BY <2>1, <2>2, <2>3
<1> QED BY <1>4, <1>7, <1>9, <1>12

(* A sequence without repetition is as long as the set of its members is   *)
(* large.                                                                  *)
LEMMA DistinctCount ==
  ASSUME NEW D, NEW L \in Seq(D), \A i, j \in 1 .. Len(L) : i < j => L[i] # L[j]
  PROVE  IsFiniteSet(ToSet(L)) /\ Cardinality(ToSet(L)) = Len(L)
<1> DEFINE n == Len(L)
<1>1. n \in Nat /\ DOMAIN L = 1 .. n /\ IsFiniteSet(1 .. n) /\ Cardinality(1 .. n) = n
  <2>1. n \in Nat /\ DOMAIN L = 1 .. n
    OBVIOUS
  <2> QED BY <2>1, FS_Interval
<1>2. ASSUME NEW i \in 1 .. n, NEW j \in 1 .. n, L[i] = L[j] PROVE i = j
  <2>1. i < j \/ j < i \/ i = j
    BY <1>1
  <2> QED BY <1>2, <2>1
<1>3. L \in [1 .. n -> ToSet(L)] /\ \A t \in ToSet(L) : \E i \in 1 .. n : L[i] = t
  BY <1>1 DEF ToSet
<1> HIDE DEF n
<1>4. L \in Bijection(1 .. n, ToSet(L))
  BY <1>1, <1>2, <1>3 DEF Bijection, Injection, Surjection, IsInjective
<1>5. ExistsBijection(1 .. n, ToSet(L))
  BY <1>4 DEF ExistsBijection
<1>6. IsFiniteSet(ToSet(L)) /\ Cardinality(ToSet(L)) = n
  BY <1>1, <1>5, FS_Bijection
<1> QED BY <1>6 DEF n

(* The result of a selection whose documents are the set S.                *)
ResultOf(r, S) ==
  /\ r.count = Count(S)
  /\ ToSet(r.sources) = S /\ Len(r.sources) = Cardinality(S)
  /\ r.missing = {p \in Expected : \A d \in S : d.producer # p}
  /\ r.partial = {p \in Expected \ r.missing :
                    \E d \in S : Observed(S, p) # d.window .. d.window + Duration - 1}
  /\ Len(r.sketch) =
       LET full == {d \in S : d.sketch.weight # 0}
       IN Cardinality(full \cup {d \in S : d = Head(r.sources)})

(* A result is that of the latest documents.                               *)
LEMMA ResultIs ==
  ASSUME NEW r, NEW P PROVE IsResult(r, P) <=> ResultOf(r, Latest(P))
BY DEF IsResult, ResultOf

(* Looking at the coverage of selected documents that were added up: it    *)
(* fails if they do not fit or overlap, and gives their result otherwise.  *)
LEMMA CoveredMeans ==
  ASSUME NEW D, NEW w \in Int, \A d \in D : Within(d, w) /\ d.producer \in Expected,
         NEW L \in Seq(D), \A i, j \in 1 .. Len(L) : i < j => L[i] # L[j],
         NEW acc, Tallied(acc, L, Len(L))
  PROVE  /\ Covered(acc, L).error \in {"none", "overflow", "merge", "overlap"}
         /\ Ok(Covered(acc, L).error) <=> Fits(ToSet(L)) /\ Disjoint(ToSet(L))
         /\ Ok(Covered(acc, L).error) => ResultOf(Covered(acc, L), ToSet(L))
         /\ Ok(Covered(acc, L).error) => Covered(acc, L).sources = L
<1> DEFINE n == Len(L)
           S == ToSet(L)
           r == Covered(acc, L)
           missing == {p \in Expected : \A i \in DOMAIN L : L[i].producer # p}
           walk == [p \in Expected \ missing |-> Walk(Parts(L, p))]
           Open(p) == walk[p].gap \/ walk[p].end # Head(L).window + Duration
           overlapping == \E p \in DOMAIN walk : walk[p].overlap
           Of(p) == {d \in S : d.producer = p}
<1>0. n \in Nat /\ DOMAIN L = 1 .. n /\ \A i \in 1 .. n : L[i] \in D
  OBVIOUS
<1>1. /\ \A i \in 1 .. n : L[i] \in S
      /\ \A d \in S : d \in D /\ \E i \in 1 .. n : d = L[i]
  BY <1>0 DEF ToSet
<1>2. missing = {p \in Expected : \A d \in S : d.producer # p}
  <2> HIDE DEF S
  <2> QED BY <1>0, <1>1
<1>3. r = IF ~ Ok(acc.error) THEN Failure(acc.error)
          ELSE IF overlapping THEN Failure("overlap")
          ELSE [error |-> "none", count |-> acc.count, sketch |-> acc.sketch,
                sources |-> L, missing |-> missing,
                partial |-> {p \in DOMAIN walk : Open(p)}]
  BY DEF Covered
<1>4. /\ Ok(acc.error) <=> Fits(S)
      /\ acc.error \in {"none", "overflow", "merge"}
      /\ Ok(acc.error) => acc.count = Count(S) /\ Len(acc.sketch) = Cardinality(Merging(L, n))
  <2>1. Prefix(L, n) = S
    BY PrefixIs
  <2> QED BY <2>1 DEF Tallied
<1>5. \A d \in D : Numbered(d)
  BY DEF Within
<1>6. ASSUME NEW p \in Expected \ missing
      PROVE  /\ ~ walk[p].overlap <=> \A c, d \in Of(p) : c # d => Apart(c, d)
             /\ ~ walk[p].overlap => (Open(p) <=> Instants(Of(p)) # w .. w + Duration - 1)
             /\ Of(p) # {}
  <2> DEFINE K == Parts(L, p)
  <2>1. /\ K \in Seq(D) /\ ToSet(K) = Of(p)
        /\ \A i, j \in 1 .. Len(K) : i < j => ~ Earlier(K[j], K[i])
        /\ \A i, j \in 1 .. Len(K) : i < j => K[i] # K[j]
    <3>1. \A i, j \in DOMAIN L : i < j => L[i] # L[j]
      BY <1>0
    <3>2. /\ Parts(L, p) \in Seq(D)
          /\ \A i, j \in 1 .. Len(Parts(L, p)) : i < j => ~ Earlier(Parts(L, p)[j], Parts(L, p)[i])
          /\ ToSet(Parts(L, p)) = {d \in ToSet(L) : d.producer = p}
      BY <1>5, PartsIs
    <3>3. \A i, j \in 1 .. Len(Parts(L, p)) : i < j => Parts(L, p)[i] # Parts(L, p)[j]
      BY <1>5, <3>1, PartsIs
    <3> QED BY <3>2, <3>3
  <2>2. Of(p) # {}
    <3> HIDE DEF S
    <3> QED BY <1>2, <1>6
  <2>3. K # <<>>
    <3>1. ToSet(<<>>) = {}
      BY DEF ToSet
    <3> HIDE DEF K, Of
    <3> QED BY <2>1, <2>2, <3>1
  <2>4. walk[p] = Walk(K)
    BY <1>6
  <2>5. Head(L).window = w
    <3>1. n # 0
      <4> HIDE DEF S
      <4> QED BY <1>0, <1>1, <2>2
    <3>2. Head(L) = L[1] /\ L[1] \in D
      BY <1>0, <3>1
    <3> QED BY <3>2 DEF Within
  <2>6. Open(p) <=> Walk(K).gap \/ Walk(K).end # w + Duration
    BY <2>4, <2>5
  <2> HIDE DEF K, walk, Of, Open
  <2>7. /\ ~ Walk(K).overlap <=> \A c, d \in ToSet(K) : c # d => Apart(c, d)
        /\ ~ Walk(K).overlap =>
             ((Walk(K).gap \/ Walk(K).end # w + Duration)
                <=> Instants(ToSet(K)) # w .. w + Duration - 1)
    BY <2>1, <2>3, WalkMeans
  <2> QED BY <2>1, <2>2, <2>4, <2>6, <2>7
<1>7. DOMAIN walk = Expected \ missing
  OBVIOUS
<1>8. overlapping <=> ~ Disjoint(S)
  <2>1. \A p \in Expected \ missing : ~ walk[p].overlap <=> \A c, d \in Of(p) : c # d => Apart(c, d)
    BY <1>6
  <2> HIDE DEF walk
  <2>2. ASSUME overlapping PROVE ~ Disjoint(S)
    <3>1. PICK p \in Expected \ missing : walk[p].overlap
      BY <1>7, <2>2
    <3>2. PICK c \in Of(p), d \in Of(p) : c # d /\ ~ Apart(c, d)
      BY <2>1, <3>1
    <3> HIDE DEF S
    <3> QED BY <3>2 DEF Disjoint, Apart
  <2>3. ASSUME ~ Disjoint(S) PROVE overlapping
    <3> HIDE DEF S
    <3>1. PICK c \in S, d \in S : c # d /\ c.producer = d.producer /\ ~ Apart(c, d)
      BY <2>3 DEF Disjoint, Apart
    <3>2. c.producer \in Expected \ missing
      BY <1>1, <1>2, <3>1
    <3>3. c \in Of(c.producer) /\ d \in Of(c.producer)
      BY <3>1
    <3>4. walk[c.producer].overlap
      <4> HIDE DEF Of
      <4> QED BY <2>1, <3>1, <3>2, <3>3
    <3> QED BY <1>7, <3>2, <3>4
  <2> QED BY <2>2, <2>3
<1>9. CASE ~ Ok(acc.error)
  <2>1. r = Failure(acc.error)
    BY <1>3, <1>9
  <2>2. r.error = acc.error
    BY <2>1 DEF Failure
  <2> QED BY <1>4, <1>9, <2>2
<1>10. CASE Ok(acc.error) /\ overlapping
  <2>1. r = Failure("overlap")
    <3> HIDE DEF overlapping
    <3> QED BY <1>3, <1>10
  <2>2. r.error = "overlap"
    BY <2>1 DEF Failure
  <2> QED BY <1>8, <1>10, <2>2 DEF Ok
<1>11. CASE Ok(acc.error) /\ ~ overlapping
  <2> DEFINE partial == {p \in DOMAIN walk : Open(p)}
  <2>1. r = [error |-> "none", count |-> acc.count, sketch |-> acc.sketch,
             sources |-> L, missing |-> missing, partial |-> partial]
    <3> HIDE DEF overlapping
    <3> QED BY <1>3, <1>11
  <2> HIDE DEF r, missing, partial
  <2>2. /\ r.error = "none" /\ r.count = acc.count /\ r.sketch = acc.sketch /\ r.sources = L
        /\ r.missing = missing /\ r.partial = partial
    BY <2>1
  <2>3. Len(L) = Cardinality(S)
    BY DistinctCount
  <2>4. partial = {p \in Expected \ missing : \E d \in S : Observed(S, p) # d.window .. d.window + Duration - 1}
    <3>1. ASSUME NEW p \in Expected \ missing
          PROVE  Open(p) <=> \E d \in S : Observed(S, p) # d.window .. d.window + Duration - 1
      <4>1. Open(p) <=> Instants(Of(p)) # w .. w + Duration - 1
        <5>1. ~ walk[p].overlap
          BY <1>7, <1>11
        <5> HIDE DEF Open, walk
        <5> QED BY <1>6, <5>1
      <4>2. Instants(Of(p)) = Observed(S, p)
        BY DEF Instants, Observed
      <4>3. \A d \in S : d.window = w
        BY <1>1 DEF Within
      <4>4. S # {}
        BY <1>6
      <4> HIDE DEF S, Open, Of
      <4> QED BY <4>1, <4>2, <4>3, <4>4
    <3> HIDE DEF walk, Open, S
    <3> QED BY <1>7, <3>1 DEF partial
  <2>5. Len(acc.sketch) =
          Cardinality({d \in S : d.sketch.weight # 0} \cup {d \in S : d = Head(L)})
    <3>1. Merging(L, n) = {d \in S : d.sketch.weight # 0} \cup {d \in S : d = Head(L)}
      <4>1. Prefix(L, n) = S
        BY PrefixIs
      <4>2. CASE n = 0
        <5>1. S = {}
          <6> HIDE DEF S
          <6> QED BY <1>1, <4>2
        <5> QED BY <4>1, <5>1 DEF Merging
      <4>3. CASE n # 0
        <5>1. Head(L) = L[1]
          BY <1>0, <4>3
        <5> QED BY <4>1, <5>1 DEF Merging
      <4> QED BY <4>2, <4>3
    <3> QED BY <1>4, <1>11, <3>1
  <2>6. ResultOf(r, S)
    <3> DEFINE full == {d \in S : d.sketch.weight # 0}
               first == {d \in S : d = Head(L)}
    <3>1. r.count = Count(S)
      <4> HIDE DEF S
      <4> QED BY <1>4, <1>11, <2>2
    <3>2. ToSet(r.sources) = S /\ Len(r.sources) = Cardinality(S)
      <4>1. ToSet(L) = S
        OBVIOUS
      <4> HIDE DEF S
      <4> QED BY <2>2, <2>3, <4>1
    <3>3. r.missing = {p \in Expected : \A d \in S : d.producer # p}
      <4> HIDE DEF S
      <4> QED BY <1>2, <2>2
    <3>4. r.partial = {p \in Expected \ r.missing :
                         \E d \in S : Observed(S, p) # d.window .. d.window + Duration - 1}
      <4> HIDE DEF S
      <4> QED BY <2>2, <2>4
    <3>5. Len(r.sketch) = Cardinality(full \cup {d \in S : d = Head(r.sources)})
      <4> HIDE DEF S
      <4> QED BY <2>2, <2>5
    <3> HIDE DEF S
    <3> QED BY <3>1, <3>2, <3>3, <3>4, <3>5 DEF ResultOf
  <2>7. Fits(S) /\ Disjoint(S) /\ Ok(r.error)
    <3> HIDE DEF overlapping, S
    <3> QED BY <1>4, <1>8, <1>11, <2>2 DEF Ok
  <2>8. /\ r.error \in {"none", "overflow", "merge", "overlap"}
        /\ Ok(r.error) <=> Fits(S) /\ Disjoint(S)
        /\ Ok(r.error) => ResultOf(r, S)
        /\ Ok(r.error) => r.sources = L
    <3> HIDE DEF S
    <3> QED BY <2>2, <2>6, <2>7
  <2> HIDE DEF S
  <2> QED BY <2>8 DEF r, S
<1> QED BY <1>9, <1>10, <1>11

(* Validation finds no error exactly if every document scans.              *)
LEMMA ScanMeans ==
  ASSUME NEW D, NEW s \in Seq(D)
  PROVE  LET e == FoldLeft(LAMBDA a, d : First(a, ScanError(d)), "none", s)
         IN (Ok(e) <=> AllScan(ToSet(s))) /\ e \in {"none", "invalid", "unexpected"}
<1> DEFINE E == {"none", "invalid", "unexpected"}
           n == Len(s)
<1>1. PICK f \in [0 .. n -> Errors] :
        /\ FoldLeft(LAMBDA a, d : First(a, ScanError(d)), "none", s) = f[n]
        /\ f[0] = "none"
        /\ \A k \in 1 .. n : f[k] = First(f[k - 1], ScanError(s[k]))
  <2>1. "none" \in Errors
    BY DEF Errors
  <2> QED BY <2>1, ScanFold
<1> DEFINE G == {k \in Nat : k <= n => f[k] \in E /\ (Ok(f[k]) <=> AllScan(Prefix(s, k)))}
<1>2. 0 \in G
  <2>1. Prefix(s, 0) = {}
    BY PrefixIs
  <2> QED BY <1>1, <2>1 DEF AllScan, Ok
<1>3. ASSUME NEW k \in Nat, k \in G PROVE k + 1 \in G
  <2>1. SUFFICES ASSUME k + 1 <= n
                 PROVE  f[k + 1] \in E /\ (Ok(f[k + 1]) <=> AllScan(Prefix(s, k + 1)))
    OBVIOUS
  <2>2. k + 1 \in 1 .. n /\ (k + 1) - 1 = k /\ f[k] \in E /\ (Ok(f[k]) <=> AllScan(Prefix(s, k)))
    BY <1>3, <2>1
  <2>3. f[k + 1] = First(f[k], ScanError(s[k + 1]))
    BY <1>1, <2>2
  <2>4. Prefix(s, k + 1) = Prefix(s, k) \cup {s[k + 1]}
    BY <2>2, PrefixIs
  <2>5. ScanError(s[k + 1]) \in E
    BY DEF ScanError
  <2>6. AllScan(Prefix(s, k + 1)) <=> AllScan(Prefix(s, k)) /\ Ok(ScanError(s[k + 1]))
    BY <2>4 DEF AllScan
  <2> QED BY <2>2, <2>3, <2>5, <2>6 DEF First, Ok
<1>4. n \in G
  <2> HIDE DEF G
  <2> QED BY <1>2, <1>3, NatSetInduction
<1>5. Prefix(s, n) = ToSet(s)
  BY PrefixIs
<1>6. f[n] \in E /\ (Ok(f[n]) <=> AllScan(ToSet(s)))
  BY <1>4, <1>5
<1> DEFINE e == FoldLeft(LAMBDA a, d : First(a, ScanError(d)), "none", s)
<1>7. e = f[n]
  BY <1>1
<1> HIDE DEF e, n
<1>8. (Ok(e) <=> AllScan(ToSet(s))) /\ e \in E
  BY <1>6, <1>7
<1> QED BY <1>8 DEF e

(* There is one way to add up.                                             *)
LEMMA RunsAgree ==
  ASSUME NEW L, NEW n \in Nat, NEW f, NEW g, Run(f, L, n), Run(g, L, n)
  PROVE  f[n] = g[n]
<1> DEFINE G == {k \in Nat : k <= n => f[k] = g[k]}
<1>1. 0 \in G
  BY DEF Run
<1>2. ASSUME NEW k \in Nat, k \in G PROVE k + 1 \in G
  <2>1. SUFFICES ASSUME k + 1 <= n PROVE f[k + 1] = g[k + 1]
    OBVIOUS
  <2>2. k + 1 \in 1 .. n /\ (k + 1) - 1 = k /\ f[k] = g[k]
    BY <1>2, <2>1
  <2> QED BY <2>2 DEF Run
<1>3. n \in G
  <2> HIDE DEF G
  <2> QED BY <1>1, <1>2, NatSetInduction
<1> QED BY <1>3

(* Go adds up the last of the selected documents when the pass is over.    *)
LEMMA GoRuns ==
  ASSUME NEW D, NEW L \in Seq(D), L # <<>>, NEW acc, HeldBack(acc, L)
  PROVE  \E f : Run(f, L, Len(L)) /\ f[Len(L)] = Added(acc, Last(L), <<Last(L).sketch>>)
<1> DEFINE n == Len(L)
<1>1. n \in Nat \ {0} /\ Last(L) = L[n]
  BY FrontIs
<1>2. PICK f : Run(f, L, n - 1) /\ acc = f[n - 1]
  BY DEF HeldBack
<1> DEFINE g == [k \in 0 .. n |-> IF k = n THEN Added(acc, Last(L), <<Last(L).sketch>>) ELSE f[k]]
<1>3. Run(g, L, n)
  <2>1. g[0] = NothingAdded(<<>>)
    BY <1>1, <1>2 DEF Run
  <2>2. ASSUME NEW k \in 1 .. n PROVE g[k] = Added(g[k - 1], L[k], <<L[k].sketch>>)
    <3>1. k - 1 \in 0 .. n /\ k - 1 # n /\ g[k - 1] = f[k - 1]
      BY <1>1
    <3>2. CASE k = n
      BY <1>1, <1>2, <3>1, <3>2
    <3>3. CASE k # n
      <4>1. k \in 1 .. n - 1 /\ g[k] = f[k]
        BY <1>1, <3>3
      <4> HIDE DEF g
      <4> QED BY <1>2, <3>1, <4>1 DEF Run
    <3> QED BY <3>2, <3>3
  <2> HIDE DEF g
  <2> QED BY <2>1, <2>2 DEF Run
<1>4. g[n] = Added(acc, Last(L), <<Last(L).sketch>>)
  BY <1>1
<1> HIDE DEF g
<1> QED BY <1>3, <1>4

(* Python adds up what Go does.                                            *)
LEMMA PyFollows ==
  ASSUME NEW D, Adding(D), NEW L \in Seq(D),
         \A i, j \in 1 .. Len(L) : i < j => L[i] # L[j],
         NEW f, Run(f, L, Len(L)), NEW cache \in Seq(Payloads(D)),
         NEW base, base = NothingAdded(cache)
  PROVE  Agree(FoldLeft(PyAdd, base, L), f[Len(L)])
<1> DEFINE n == Len(L)
<1>0. n \in Nat /\ \A d \in D : Numbered(d)
  BY DEF Adding
<1>1. base \in Sums(D)
  BY DEF NothingAdded, Sums, Errors
<1>2. PICK p \in [0 .. n -> Sums(D)] :
        FoldLeft(PyAdd, base, L) = p[n] /\ AddSteps(p, base, L)
  BY <1>0, <1>1, AddFold
<1> DEFINE G == {k \in Nat : k <= n => Agree(p[k], f[k]) /\ (p[k].mine => p[k].cache = <<>>)}
<1>3. 0 \in G
  BY <1>2 DEF Run, Agree, NothingAdded, AddSteps
<1>4. ASSUME NEW k \in Nat, k \in G PROVE k + 1 \in G
  <2>1. SUFFICES ASSUME k + 1 <= n
                 PROVE  Agree(p[k + 1], f[k + 1]) /\ (p[k + 1].mine => p[k + 1].cache = <<>>)
    OBVIOUS
  <2>2. k + 1 \in 1 .. n /\ (k + 1) - 1 = k /\ k \in 0 .. n
        /\ Agree(p[k], f[k]) /\ (p[k].mine => p[k].cache = <<>>)
    BY <1>4, <2>1
  <2>3. p[k] \in Sums(D)
    BY <2>2
  <2>4. f[k] \in Sums(D)
    BY <1>0, <2>2, RunTallies
  <2>5. p[k + 1] = PyAdd(p[k], L[k + 1]) /\ f[k + 1] = Added(f[k], L[k + 1], <<L[k + 1].sketch>>)
    BY <1>2, <2>2 DEF Run, AddSteps
  <2> QED BY <2>2, <2>3, <2>4, <2>5, PyAddAgrees
<1>5. n \in G
  <2> HIDE DEF G
  <2> QED BY <1>0, <1>3, <1>4, NatSetInduction
<1> QED BY <1>2, <1>5

(* Coverage depends on what the sums agree in.                             *)
LEMMA CoveredAgrees ==
  ASSUME NEW L, NEW a, NEW b, Agree(a, b) PROVE Covered(a, L) = Covered(b, L)
<1>1. a.error = b.error /\ a.count = b.count /\ a.sketch = b.sketch
  BY DEF Agree
<1> QED BY <1>1 DEF Covered

(* What both languages do with read that are usable: cover one selection.*)
LEMMA CombineUsable ==
  ASSUME NEW D, NEW read \in Seq(D), D = ToSet(read), Usable(D), \A d \in D : Numbered(d)
  PROVE  \E L \in Seq(D) : \E acc :
           /\ Lists(L, D) /\ Tallied(acc, L, Len(L))
           /\ PyCombine(read) = Covered(acc, L) /\ GoCombine(read) = Covered(acc, L)
<1> DEFINE s == InOrder(read)
           n == Len(s)
           cache == IF read = <<>> THEN <<>> ELSE <<Last(read).sketch>>
           scanned == FoldLeft(LAMBDA e, d : First(e, ScanError(d)), "none", read)
           start == [error |-> scanned, selected |-> <<>>]
           chosen == FoldLeft(PySelect, start, IF Ok(scanned) THEN s ELSE <<>>)
           empty == [error |-> "none", summed |-> NothingAdded(<<>>), selected |-> <<>>]
           pass == FoldLeft(PassStep, empty, s)
           base == NothingAdded(cache)
<1>1. s \in Seq(D) /\ n \in Nat /\ InSequence(s) /\ Prefix(s, n) = D
  <2>1. s \in Seq(D) /\ n = Len(read) /\ ToSet(s) = D
        /\ \A i, j \in 1 .. Len(read) : i < j => ~ Before(s[j], s[i])
    BY InOrderIs
  <2>2. Prefix(s, Len(s)) = ToSet(s)
    BY <2>1, PrefixIs
  <2> HIDE DEF s
  <2> QED BY <2>1, <2>2 DEF InSequence
<1>2. AllScan(D) /\ Consistent(D)
  BY UsableIs DEF AllScan
<1>3. Ok(scanned) /\ scanned = "none"
  BY <1>2, ScanMeans DEF Ok
<1> HIDE DEF s, scanned, empty
<1>4. chosen = FoldLeft(PySelect, start, s)
  BY <1>3
<1> HIDE DEF start, chosen
<1>5. PICK f \in [0 .. n -> Chosen(D)] : chosen = f[n] /\ SelectSteps(f, start, s)
  <2>1. start \in Chosen(D)
    BY <1>3 DEF start, Chosen, Errors
  <2>2. \E f \in [0 .. n -> Chosen(D)] :
          FoldLeft(PySelect, start, s) = f[n] /\ SelectSteps(f, start, s)
    BY <1>1, <2>1, SelectFold
  <2> QED BY <1>4, <2>2
<1>6. PySelects(f, s)
  BY <1>3, <1>5 DEF PySelects, SelectSteps, start
<1>7. PICK g \in [0 .. n -> Passes(D)] : pass = g[n] /\ PassSteps(g, empty, s)
  <2>1. empty \in Passes(D)
    BY DEF empty, Passes, Sums, Errors, NothingAdded
  <2> QED BY <1>1, <2>1, PassFold
<1>8. GoPasses(g, s)
  BY <1>7 DEF GoPasses, PassSteps, empty
<1> DEFINE L == chosen.selected
<1> HIDE DEF pass
<1>9. Ok(chosen.error) /\ L \in Seq(D) /\ Lists(L, D)
  <2>1. n \in 0 .. Len(s)
    BY <1>1
  <2> HIDE DEF n
  <2>2. /\ Ok(f[n].error) <=> Consistent(Prefix(s, n))
        /\ f[n].error \in SelectionErrors /\ f[n].selected \in Seq(D)
        /\ Ok(f[n].error) => Lists(f[n].selected, Prefix(s, n))
    BY <1>1, <1>6, <2>1, PySelectionMeans DEF n
  <2> QED BY <1>1, <1>2, <1>5, <2>2
<1>10. Ok(pass.error) /\ pass.selected = L /\ HeldBack(pass.summed, L)
  <2>1. n \in 0 .. Len(s)
    BY <1>1
  <2> HIDE DEF n
  <2>2. /\ Ok(g[n].error) <=> AllScan(Prefix(s, n)) /\ Ok(f[n].error)
        /\ Ok(g[n].error) => g[n].selected = f[n].selected /\ HeldBack(g[n].summed, g[n].selected)
    BY <1>1, <1>6, <1>8, <2>1, GoPassMeans DEF n
  <2> QED BY <1>1, <1>2, <1>5, <1>7, <1>9, <2>2
<1>11. Adding(D)
  BY <1>2 DEF Adding, AllScan, ScanError, Ok, Valid, Numbered
<1> DEFINE last == IF L = <<>> THEN pass.summed ELSE AddLast(pass)
<1>12. PICK r : Run(r, L, Len(L)) /\ r[Len(L)] = last
  <2>1. CASE L = <<>>
    <3>1. Len(L) = 0 /\ last = NothingAdded(<<>>)
      BY <1>10, <2>1 DEF HeldBack
    <3>2. Run([k \in 0 .. 0 |-> last], L, 0)
      BY <3>1 DEF Run
    <3> HIDE DEF last
    <3> QED BY <3>1, <3>2
  <2>2. CASE L # <<>>
    <3>1. last = Added(pass.summed, Last(L), <<Last(L).sketch>>)
      BY <1>10, <2>2 DEF AddLast
    <3> HIDE DEF last, L
    <3> QED BY <1>9, <1>10, <2>2, <3>1, GoRuns
  <2> QED BY <2>1, <2>2
<1> HIDE DEF L, last
<1>13. \A i, j \in 1 .. Len(L) : i < j => L[i] # L[j]
  <2>1. \A d \in D : ~ Precedes(d, d)
    BY DEF Precedes, Numbered
  <2>2. \A i \in 1 .. Len(L) : L[i] \in D
    BY <1>9
  <2> QED BY <1>9, <2>1, <2>2 DEF Lists
<1>14. Tallied(last, L, Len(L))
  <2>1. Len(L) \in 0 .. Len(L)
    BY <1>9
  <2>2. Tallied(r[Len(L)], L, Len(L))
    BY <1>9, <1>11, <1>12, <1>13, <2>1, RunTallies
  <2> QED BY <1>12, <2>2
<1>15. cache \in Seq(Payloads(D))
  <2>1. CASE read = <<>>
    BY <2>1
  <2>2. CASE read # <<>>
    <3>1. Last(read) \in D
      BY <2>2, FrontIs
    <3> QED BY <2>2, <3>1 DEF Payloads
  <2> QED BY <2>1, <2>2
<1> HIDE DEF cache
<1>16. Agree(FoldLeft(PyAdd, base, L), last)
  BY <1>9, <1>11, <1>12, <1>13, <1>15, PyFollows
<1>17. Covered(FoldLeft(PyAdd, base, L), L) = Covered(last, L)
  BY <1>16, CoveredAgrees
<1>18. PyCombine(read) = Covered(FoldLeft(PyAdd, base, L), L)
  BY <1>9 DEF PyCombine, s, scanned, start, chosen, cache, L
<1>19. GoCombine(read) = Covered(last, L)
  BY <1>10 DEF GoCombine, s, empty, pass, last, L
<1> HIDE DEF base
<1> QED BY <1>9, <1>14, <1>17, <1>18, <1>19

(* Other read fail in both, with an error of validation or selection.    *)
LEMMA CombineUnusable ==
  ASSUME NEW D, NEW read \in Seq(D), D = ToSet(read), ~ Usable(D), \A d \in D : Numbered(d)
  PROVE  /\ PyCombine(read).error \in SelectionErrors \ {"none"}
         /\ GoCombine(read).error \in SelectionErrors \ {"none"}
<1> DEFINE s == InOrder(read)
           n == Len(s)
           scanned == FoldLeft(LAMBDA e, d : First(e, ScanError(d)), "none", read)
           start == [error |-> scanned, selected |-> <<>>]
           chosen == FoldLeft(PySelect, start, IF Ok(scanned) THEN s ELSE <<>>)
           empty == [error |-> "none", summed |-> NothingAdded(<<>>), selected |-> <<>>]
           pass == FoldLeft(PassStep, empty, s)
           none == [error |-> "none", selected |-> <<>>]
<1>1. s \in Seq(D) /\ n \in Nat /\ InSequence(s) /\ Prefix(s, n) = D
  <2>1. s \in Seq(D) /\ n = Len(read) /\ ToSet(s) = D
        /\ \A i, j \in 1 .. Len(read) : i < j => ~ Before(s[j], s[i])
    BY InOrderIs
  <2>2. Prefix(s, Len(s)) = ToSet(s)
    BY <2>1, PrefixIs
  <2> HIDE DEF s
  <2> QED BY <2>1, <2>2 DEF InSequence
<1>2. ~ (AllScan(D) /\ Consistent(D))
  BY UsableIs DEF AllScan
<1>3. (Ok(scanned) <=> AllScan(D)) /\ scanned \in {"none", "invalid", "unexpected"}
  BY ScanMeans
<1> HIDE DEF s, scanned
<1>4. none \in Chosen(D)
  BY DEF Chosen, Errors
<1> HIDE DEF none
<1>5. PICK f \in [0 .. n -> Chosen(D)] :
        FoldLeft(PySelect, none, s) = f[n] /\ SelectSteps(f, none, s)
  BY <1>1, <1>4, SelectFold
<1>6. PySelects(f, s)
  BY <1>5 DEF PySelects, SelectSteps, none
<1>7. /\ Ok(f[n].error) <=> Consistent(D)
      /\ f[n].error \in SelectionErrors
  <2>1. n \in 0 .. Len(s)
    BY <1>1
  <2> HIDE DEF n
  <2>2. /\ Ok(f[n].error) <=> Consistent(Prefix(s, n))
        /\ f[n].error \in SelectionErrors /\ f[n].selected \in Seq(D)
        /\ Ok(f[n].error) => Lists(f[n].selected, Prefix(s, n))
    BY <1>1, <1>6, <2>1, PySelectionMeans DEF n
  <2> QED BY <1>1, <2>2
<1>8. ~ Ok(chosen.error) /\ chosen.error \in SelectionErrors
  <2>1. CASE Ok(scanned)
    <3>1. start = none
      BY <2>1 DEF Ok, none
    <3>2. chosen = f[n]
      <4> HIDE DEF start
      <4> QED BY <1>5, <2>1, <3>1
    <3> HIDE DEF chosen
    <3> QED BY <1>2, <1>3, <1>7, <2>1, <3>2
  <2>2. CASE ~ Ok(scanned)
    <3>1. start \in Chosen(D) /\ start.error = scanned
      BY <1>3 DEF Chosen, Errors
    <3> DEFINE nothing == <<>>
    <3>2. nothing \in Seq(D) /\ Len(nothing) = 0
      OBVIOUS
    <3> HIDE DEF start, nothing
    <3>3. PICK h \in [0 .. Len(nothing) -> Chosen(D)] :
            FoldLeft(PySelect, start, nothing) = h[Len(nothing)] /\ SelectSteps(h, start, nothing)
      BY <3>1, <3>2, SelectFold
    <3>4. FoldLeft(PySelect, start, nothing) = start
      BY <3>2, <3>3 DEF SelectSteps
    <3>5. chosen = start
      BY <2>2, <3>4 DEF nothing
    <3> HIDE DEF chosen
    <3> QED BY <1>3, <2>2, <3>1, <3>5 DEF SelectionErrors
  <2> QED BY <2>1, <2>2
<1> HIDE DEF chosen
<1>9. PyCombine(read) = Failure(chosen.error)
  BY <1>8 DEF PyCombine, s, scanned, chosen
<1>10. empty \in Passes(D)
  BY DEF Passes, Sums, Errors, NothingAdded
<1> HIDE DEF empty
<1>11. PICK g \in [0 .. n -> Passes(D)] : pass = g[n] /\ PassSteps(g, empty, s)
  BY <1>1, <1>10, PassFold
<1>12. GoPasses(g, s)
  BY <1>11 DEF GoPasses, PassSteps, empty
<1> HIDE DEF pass
<1>13. ~ Ok(pass.error) /\ pass.error \in SelectionErrors
  <2>1. n \in 0 .. Len(s)
    BY <1>1
  <2> HIDE DEF n
  <2>2. /\ Ok(g[n].error) <=> AllScan(Prefix(s, n)) /\ Ok(f[n].error)
        /\ g[n].error \in SelectionErrors
    BY <1>1, <1>6, <1>12, <2>1, GoPassMeans DEF n
  <2> QED BY <1>1, <1>2, <1>7, <1>11, <2>2
<1>14. GoCombine(read) = Failure(pass.error)
  BY <1>13 DEF GoCombine, s, empty, pass
<1> QED BY <1>8, <1>9, <1>13, <1>14 DEF Failure, Ok

(* Both combines, for every sequence of documents that a reader can        *)
(* decode: they succeed exactly on the batches that have a meaning and     *)
(* give it, they give the same, and they look at counters only when all    *)
(* documents are usable.                                                   *)
THEOREM CombineMeans ==
  ASSUME NEW D, NEW read \in Seq(D), D = ToSet(read), \A d \in D : Numbered(d),
         NEW p, NEW g, p = PyCombine(read), g = GoCombine(read)
  PROVE  /\ Ok(p.error) <=> Combinable(D)
         /\ Ok(p.error) => ResultOf(p, Latest(D)) /\ Lists(p.sources, D)
         /\ Ok(p.error) \/ Ok(g.error) => p = g
         /\ p.error \in {"overflow", "merge", "overlap"} => Usable(D)
         /\ g.error \in {"overflow", "merge", "overlap"} => Usable(D)
<1>1. CASE ~ Usable(D)
  <2>1. p.error \in SelectionErrors \ {"none"} /\ g.error \in SelectionErrors \ {"none"}
    BY <1>1, CombineUnusable
  <2>2. ~ Combinable(D)
    BY <1>1 DEF Combinable
  <2> QED BY <2>1, <2>2 DEF SelectionErrors, Ok
<1>2. CASE Usable(D)
  <2>0. PICK L \in Seq(D) : \E acc :
           /\ Lists(L, D) /\ Tallied(acc, L, Len(L))
           /\ p = Covered(acc, L) /\ g = Covered(acc, L)
    BY <1>2, CombineUsable
  <2>1. PICK acc :
           /\ Lists(L, D) /\ Tallied(acc, L, Len(L))
           /\ p = Covered(acc, L) /\ g = Covered(acc, L)
    BY <2>0
  <2>2. \A i, j \in 1 .. Len(L) : i < j => L[i] # L[j]
    <3>1. \A d \in D : ~ Precedes(d, d)
      BY DEF Precedes, Numbered
    <3>2. \A i \in 1 .. Len(L) : L[i] \in D
      OBVIOUS
    <3> QED BY <2>1, <3>1, <3>2 DEF Lists
  <2>3. \E w \in Int : \A d \in D : Within(d, w) /\ d.producer \in Expected
    <3>1. CASE D = {}
      BY <3>1
    <3>2. CASE D # {}
      <4>1. PICK e : e \in D
        BY <3>2
      <4>2. e.window \in Int
        BY <4>1 DEF Numbered
      <4>3. ASSUME NEW d \in D PROVE Within(d, e.window) /\ d.producer \in Expected
        <5>1. Valid(d) /\ d.producer \in Expected /\ d.window = e.window
          BY <1>2, <4>1 DEF Usable
        <5>2. d.window <= d.start /\ d.start <= d.end /\ d.end <= d.window + Duration
          BY <5>1 DEF Valid
        <5> QED BY <5>1, <5>2 DEF Within
      <4> QED BY <4>2, <4>3
    <3> QED BY <3>1, <3>2
  <2>4. PICK w \in Int : \A d \in D : Within(d, w) /\ d.producer \in Expected
    BY <2>3
  <2>5. /\ p.error \in {"none", "overflow", "merge", "overlap"}
        /\ Ok(p.error) <=> Fits(ToSet(L)) /\ Disjoint(ToSet(L))
        /\ Ok(p.error) => ResultOf(p, ToSet(L))
        /\ Ok(p.error) => p.sources = L
    BY <2>1, <2>2, <2>4, CoveredMeans
  <2>6. ToSet(L) = Latest(D)
    BY <2>1 DEF Lists
  <2> QED BY <1>2, <2>1, <2>5, <2>6 DEF Combinable
<1> QED BY <1>1, <1>2

(* A sequence is one over its members.                                     *)
LEMMA InputsOf ==
  ASSUME NEW D, NEW s \in Seq(D)
  PROVE  s \in Seq(ToSet(s)) /\ ToSet(s) \in SUBSET D
<1>1. DOMAIN s = 1 .. Len(s) /\ Len(s) \in Nat /\ \A i \in 1 .. Len(s) : s[i] \in D
  OBVIOUS
<1>2. ToSet(s) \in SUBSET D
  BY <1>1 DEF ToSet
<1>3. \A i \in 1 .. Len(s) : s[i] \in ToSet(s)
  BY <1>1 DEF ToSet
<1> DEFINE T == ToSet(s)
<1> HIDE DEF T
<1>4. s = [i \in 1 .. Len(s) |-> s[i]]
  OBVIOUS
<1>5. s \in [1 .. Len(s) -> T]
  BY <1>3, <1>4 DEF T
<1>6. s \in Seq(T)
  BY <1>1, <1>5
<1> QED BY <1>2, <1>6 DEF T

(* A batch is made of candidates.                                          *)
THEOREM BatchTypeCorrect == BatchSpec => [](batch \in Seq(Candidate))
<1>1. BatchInit => batch \in Seq(Candidate)
  BY DEF BatchInit
<1>2. batch \in Seq(Candidate) /\ [BatchNext]_batch => (batch \in Seq(Candidate))'
  BY DEF BatchNext
<1> QED BY <1>1, <1>2, PTL DEF BatchSpec

(* So both properties hold of every batch.                                 *)
LEMMA BatchMeans ==
  ASSUME batch \in Seq(Candidate) PROVE OutcomeExact /\ SelectionErrorsFirst
<1> DEFINE p == PyCombine(batch)
           g == GoCombine(batch)
<1>1. batch \in Seq(Batch) /\ \A d \in Batch : Numbered(d)
  BY InputsOf, CandidateAssumption DEF Batch
<1>2. Batch = ToSet(batch)
  BY DEF Batch
<1> HIDE DEF p, g
<1>3. /\ Ok(p.error) <=> Combinable(Batch)
      /\ Ok(p.error) => ResultOf(p, Latest(Batch)) /\ Lists(p.sources, Batch)
      /\ Ok(p.error) \/ Ok(g.error) => p = g
      /\ p.error \in {"overflow", "merge", "overlap"} => Usable(Batch)
      /\ g.error \in {"overflow", "merge", "overlap"} => Usable(Batch)
  <2>1. p = PyCombine(batch) /\ g = GoCombine(batch)
    BY DEF p, g
  <2> QED BY <1>1, <1>2, <2>1, CombineMeans
<1>4. Ok(p.error) => IsResult(p, Batch)
  BY <1>3, ResultIs
<1>5. OutcomeExact
  BY <1>3, <1>4 DEF OutcomeExact, p, g
<1>6. SelectionErrorsFirst
  BY <1>3 DEF SelectionErrorsFirst, p, g
<1> QED BY <1>5, <1>6

(* combine succeeds exactly on the batches that have a meaning and gives   *)
(* that meaning, whatever the order and the repetitions of the inputs, in  *)
(* both languages: for all documents, producers, window lengths and        *)
(* limits.                                                                 *)
THEOREM OutcomeExactCorrect == BatchSpec => []OutcomeExact
BY BatchTypeCorrect, BatchMeans, PTL

(* An error of adding up or of coverage is reported only for inputs that   *)
(* pass validation and selection, although Go adds up while it selects.    *)
THEOREM SelectionErrorsFirstCorrect == BatchSpec => []SelectionErrorsFirst
BY BatchTypeCorrect, BatchMeans, PTL

-----------------------------------------------------------------------------
(* Exchanging summaries. *)

(* The requests <<p, t>> in B that p handled from instant a up to b.       *)
Seen(B, p, a, b) == {z \in B : z[1] = p /\ a <= z[2] /\ z[2] < b}

(* The states of a process.                                                *)
Processes == [up : BOOLEAN, epoch : Nat, sequence : Nat, start : Nat, count : Nat]

(* Types; a process started in the past; the result is that of the inputs. *)
ExchangeType ==
  /\ now \in 0 .. Duration
  /\ process \in [Expected -> Processes]
  /\ handled \in [Expected -> Nat]
  /\ \A p \in Expected : process[p].up => process[p].start <= now
  /\ inputs \in Seq(sent)
  /\ result = Combined(inputs)

(* A snapshot tells of the window so far.                                  *)
WellFormed(d) ==
  /\ Numbered(d) /\ d.producer \in Expected /\ d.contract = "A" /\ d.window = 0
  /\ d.sequence > 0 /\ 0 <= d.start /\ d.start <= d.end /\ d.end <= now
  /\ d.count >= 0 /\ d.sketch.weight = d.count

(* A snapshot d was written by its producer, now in the state who, or by a *)
(* process before.                                                         *)
Behind(d, who) ==
  /\ d.epoch <= who.epoch
  /\ who.up /\ d.epoch = who.epoch =>
       d.start = who.start /\ d.sequence <= who.sequence /\ d.count <= who.count
  /\ who.up /\ d.epoch < who.epoch => d.end <= who.start

(* Snapshots of an epoch advance; those of a later epoch begin no earlier  *)
(* than those of an earlier one end.                                       *)
Ruled(c, d) ==
  /\ SameEpoch(c, d) =>
       /\ c.sequence = d.sequence => c = d
       /\ c.sequence < d.sequence => c.start = d.start /\ c.end <= d.end /\ c.count <= d.count
  /\ c.producer = d.producer /\ c.epoch < d.epoch => c.end <= d.start

(* All that was sent keeps these rules, although processes crash and       *)
(* restart.                                                                *)
SentRuled ==
  /\ \A d \in sent : WellFormed(d) /\ Behind(d, process[d.producer])
  /\ \A c, d \in sent : Ruled(c, d)

(* B are the requests handled so far: a running process counted its own    *)
(* since it started, a snapshot those of its interval.                     *)
Recorded(B) ==
  /\ B \in SUBSET (Expected \X (0 .. now - 1))
  /\ HandledBy(Expected) = Cardinality(B)
  /\ \A p \in Expected : process[p].up =>
       process[p].count = Cardinality(Seen(B, p, process[p].start, now))
  /\ \A d \in sent : d.count = Cardinality(Seen(B, d.producer, d.start, d.end))

(* The inductive invariant.  That a set of requests fits all counters at   *)
(* once is what makes totals comparable.                                   *)
ExchangeInv == ExchangeType /\ SentRuled /\ \E B : Recorded(B)

(* Finitely many requests are handled, no more than one by each producer   *)
(* in each instant.                                                        *)
LEMMA SeenFinite ==
  ASSUME NEW n \in Int, NEW B \in SUBSET (Expected \X (0 .. n))
  PROVE  /\ IsFiniteSet(B) /\ Cardinality(B) \in Nat
         /\ Cardinality(B) <= Cardinality(Expected) * Cardinality(0 .. n)
         /\ \A C \in SUBSET B : IsFiniteSet(C) /\ Cardinality(C) \in Nat /\ Cardinality(C) <= Cardinality(B)
<1>1. IsFiniteSet(Expected) /\ IsFiniteSet(0 .. n)
  BY ExpectedAssumption, FS_Interval
<1>2. /\ IsFiniteSet(Expected \X (0 .. n))
      /\ Cardinality(Expected \X (0 .. n)) = Cardinality(Expected) * Cardinality(0 .. n)
  BY <1>1, FS_Product
<1>3. IsFiniteSet(B) /\ Cardinality(B) <= Cardinality(Expected \X (0 .. n)) /\ Cardinality(B) \in Nat
  BY <1>2, FS_Subset, FS_CardinalityType
<1>4. ASSUME NEW C \in SUBSET B
      PROVE  IsFiniteSet(C) /\ Cardinality(C) \in Nat /\ Cardinality(C) <= Cardinality(B)
  BY <1>3, FS_Subset, FS_CardinalityType
<1> QED BY <1>2, <1>3, <1>4

(* It holds at first, with no requests.                                    *)
LEMMA ExchangeInitInv == ExchangeInit => ExchangeInv
<1> SUFFICES ASSUME ExchangeInit PROVE ExchangeInv
  OBVIOUS
<1>1. ExchangeType
  <2>1. Down(0) \in Processes /\ ~ Down(0).up
    BY DEF Down, Processes
  <2> QED BY <2>1, DurationAssumption DEF ExchangeInit, ExchangeType
<1>2. SentRuled
  BY DEF ExchangeInit, SentRuled
<1>3. Recorded({})
  <2>1. \A p \in Expected : handled[p] = 0 /\ ~ process[p].up
    BY DEF ExchangeInit, Down
  <2>2. HandledBy(Expected) = 0
    BY <2>1, SumZero, ExpectedAssumption DEF HandledBy
  <2>3. Cardinality({}) = 0
    BY FS_EmptySet
  <2> QED BY <2>1, <2>2, <2>3 DEF ExchangeInit, Recorded
<1> QED BY <1>1, <1>2, <1>3 DEF ExchangeInv

(* Handling requests adds them to B.                                       *)
LEMMA WorkKeepsInv ==
  ASSUME ExchangeInv, NEW busy \in SUBSET Expected, Work(busy) PROVE ExchangeInv'
<1>0. /\ now \in Nat /\ now < Duration /\ now' = now + 1 /\ Duration \in Nat
      /\ sent' = sent /\ inputs' = inputs /\ result' = result
      /\ \A p \in busy : process[p].up
      /\ process' = [p \in Expected |->
                       IF p \in busy THEN [process[p] EXCEPT !.count = @ + 1] ELSE process[p]]
      /\ handled' = [p \in Expected |-> handled[p] + (IF p \in busy THEN 1 ELSE 0)]
  BY DurationAssumption DEF Work, ExchangeInv, ExchangeType
<1>1. ASSUME NEW p \in Expected
      PROVE  /\ process[p] \in Processes /\ process'[p] \in Processes
             /\ process'[p].up = process[p].up /\ process'[p].epoch = process[p].epoch
             /\ process'[p].sequence = process[p].sequence
             /\ process'[p].start = process[p].start
             /\ process'[p].count = process[p].count + (IF p \in busy THEN 1 ELSE 0)
  <2>1. process[p] \in Processes
    BY DEF ExchangeInv, ExchangeType
  <2>2. CASE p \in busy
    <3>1. process'[p] = [process[p] EXCEPT !.count = @ + 1]
      BY <1>0, <2>2
    <3> QED BY <2>1, <2>2, <3>1 DEF Processes
  <2>3. CASE p \notin busy
    <3>1. process'[p] = process[p] /\ process[p].count \in Nat
      BY <1>0, <2>1, <2>3 DEF Processes
    <3> QED BY <2>1, <2>3, <3>1
  <2> QED BY <2>2, <2>3
<1>2. ExchangeType'
  <2>1. process' \in [Expected -> Processes]
    <3> DEFINE after == [p \in Expected |->
                       IF p \in busy THEN [process[p] EXCEPT !.count = @ + 1] ELSE process[p]]
    <3>1. process' = after /\ \A p \in Expected : process'[p] \in Processes
      BY <1>0, <1>1
    <3>2. \A p \in Expected : after[p] \in Processes
      BY <3>1
    <3>3. after \in [Expected -> Processes]
      BY <3>2
    <3> HIDE DEF after
    <3> QED BY <3>1, <3>3
  <2>2. handled' \in [Expected -> Nat]
    BY <1>0 DEF ExchangeInv, ExchangeType
  <2>3. \A p \in Expected : process'[p].up => process'[p].start <= now'
    BY <1>0, <1>1 DEF ExchangeInv, ExchangeType, Processes
  <2>4. inputs' \in Seq(sent') /\ result' = Combined(inputs')
    BY <1>0 DEF ExchangeInv, ExchangeType
  <2> QED BY <1>0, <2>1, <2>2, <2>3, <2>4 DEF ExchangeType
<1>3. SentRuled'
  <2>1. ASSUME NEW d \in sent PROVE WellFormed(d)' /\ Behind(d, process'[d.producer])
    <3>1. WellFormed(d) /\ Behind(d, process[d.producer]) /\ d.producer \in Expected
      BY DEF ExchangeInv, SentRuled, WellFormed
    <3>2. WellFormed(d)'
      BY <1>0, <3>1 DEF WellFormed, Numbered
    <3>3. Behind(d, process'[d.producer])
      BY <1>1, <3>1 DEF Behind, WellFormed, Numbered, Processes
    <3> QED BY <3>2, <3>3
  <2>2. \A c, d \in sent : Ruled(c, d)
    BY DEF ExchangeInv, SentRuled
  <2> QED BY <1>0, <2>1, <2>2 DEF SentRuled
<1>4. PICK B : Recorded(B)
  BY DEF ExchangeInv
<1> DEFINE C == busy \X {now}
<1>5. PICK A : A = B \cup C
  OBVIOUS
<1>6. /\ B \in SUBSET (Expected \X (0 .. now - 1)) /\ A \in SUBSET (Expected \X (0 .. now' - 1))
      /\ A \in SUBSET (Expected \X (0 .. now)) /\ B \cap C = {}
  BY <1>0, <1>4, <1>5 DEF Recorded
<1>7. HandledBy(Expected)' = Cardinality(A)
  <2> DEFINE f == [p \in Expected |-> IF p \in busy THEN 1 ELSE 0]
  <2>1. IsFiniteSet(Expected)
    BY ExpectedAssumption
  <2>2. HandledBy(Expected)' = HandledBy(Expected) + SumFunctionOnSet(f, Expected)
    <3>1. \A p \in Expected : handled[p] \in Int /\ f[p] \in Int /\ handled'[p] = handled[p] + f[p]
      BY <1>0 DEF ExchangeInv, ExchangeType
    <3> HIDE DEF f
    <3> QED BY <2>1, <3>1, SumPlus DEF HandledBy
  <2>3. SumFunctionOnSet(f, Expected) = 1 * Cardinality(busy)
    <3>1. \A p \in Expected : f[p] = IF p \in busy THEN 1 ELSE 0
      OBVIOUS
    <3> HIDE DEF f
    <3> QED BY <2>1, <3>1, SumOfPart
  <2>4. IsFiniteSet(busy) /\ Cardinality(busy) \in Nat
    BY <2>1, FS_Subset, FS_CardinalityType
  <2>5. IsFiniteSet(C) /\ Cardinality(C) = Cardinality(busy) * 1
    <3> DEFINE T == {now}
    <3>1. IsFiniteSet(T) /\ Cardinality(T) = 1
      BY FS_Singleton
    <3> HIDE DEF T
    <3>2. IsFiniteSet(busy \X T) /\ Cardinality(busy \X T) = Cardinality(busy) * Cardinality(T)
      BY <2>4, <3>1, FS_Product
    <3> QED BY <3>1, <3>2 DEF T
  <2>6. IsFiniteSet(B) /\ Cardinality(B) \in Nat
    BY <1>0, <1>6, SeenFinite
  <2>7. Cardinality(A) = Cardinality(B) + Cardinality(C) - Cardinality({})
    <3> HIDE DEF C
    <3> QED BY <1>5, <1>6, <2>5, <2>6, FS_Union
  <2>8. HandledBy(Expected) = Cardinality(B)
    BY <1>4 DEF Recorded
  <2> HIDE DEF C, f
  <2> QED BY <2>2, <2>3, <2>4, <2>5, <2>6, <2>7, <2>8, FS_EmptySet
<1>8. ASSUME NEW p \in Expected, process'[p].up
      PROVE  process'[p].count = Cardinality(Seen(A, p, process'[p].start, now'))
  <2> DEFINE a == process[p].start
             S == Seen(B, p, a, now)
  <2>1. a \in Nat /\ a <= now /\ process'[p].start = a /\ process[p].up
        /\ process[p].count = Cardinality(S)
    BY <1>1, <1>4, <1>8 DEF ExchangeInv, ExchangeType, Processes, Recorded
  <2>2. IsFiniteSet(S) /\ Cardinality(S) \in Nat
    BY <1>0, <1>6, SeenFinite DEF Seen
  <2>3. CASE p \in busy
    <3>1. Seen(A, p, a, now') = S \cup {<<p, now>>}
      BY <1>0, <1>5, <1>6, <2>1, <2>3 DEF Seen
    <3>2. <<p, now>> \notin S
      BY <1>0 DEF Seen
    <3> HIDE DEF S, a
    <3>3. Cardinality(Seen(A, p, a, now')) = Cardinality(S) + 1
      BY <2>2, <3>1, <3>2, FS_AddElement
    <3> QED BY <1>1, <2>1, <2>3, <3>3
  <2>4. CASE p \notin busy
    <3>1. Seen(A, p, a, now') = S
      BY <1>0, <1>5, <1>6, <2>1, <2>4 DEF Seen
    <3> HIDE DEF S, a
    <3> QED BY <1>1, <2>1, <2>2, <2>4, <3>1
  <2> QED BY <2>3, <2>4
<1>9. ASSUME NEW d \in sent PROVE d.count = Cardinality(Seen(A, d.producer, d.start, d.end))
  <2>1. d.end <= now /\ d.end \in Int /\ d.count = Cardinality(Seen(B, d.producer, d.start, d.end))
    BY <1>4 DEF ExchangeInv, SentRuled, WellFormed, Numbered, Recorded
  <2>2. Seen(A, d.producer, d.start, d.end) = Seen(B, d.producer, d.start, d.end)
    BY <1>0, <1>5, <1>6, <2>1 DEF Seen
  <2> QED BY <2>1, <2>2
<1>10. Recorded(A)'
  BY <1>0, <1>6, <1>7, <1>8, <1>9 DEF Recorded
<1> QED BY <1>2, <1>3, <1>10 DEF ExchangeInv

(* A process that starts has seen nothing.                                 *)
LEMMA StartKeepsInv ==
  ASSUME ExchangeInv, NEW p \in Expected, StartProcess(p) PROVE ExchangeInv'
<1> DEFINE who == process'[p]
<1>0. /\ now \in Nat /\ now' = now /\ handled' = handled /\ sent' = sent
      /\ inputs' = inputs /\ result' = result
      /\ process \in [Expected -> Processes]
      /\ process' = [process EXCEPT ![p] = Started(process[p].epoch + 1)]
      /\ process[p] \in Processes
  BY DEF StartProcess, ExchangeInv, ExchangeType
<1>1. /\ who \in Processes /\ who.up /\ who.epoch = process[p].epoch + 1
      /\ who.start = now /\ who.count = 0
      /\ \A q \in Expected \ {p} : process'[q] = process[q]
  <2>1. who = Started(process[p].epoch + 1)
    BY <1>0
  <2>2. process[p].epoch + 1 \in Nat
    BY <1>0 DEF Processes
  <2>3. Started(process[p].epoch + 1) \in Processes
    BY <1>0, <2>2 DEF Started, Processes
  <2> QED BY <1>0, <2>1, <2>3 DEF Started
<1>2. ExchangeType'
  <2>1. process' \in [Expected -> Processes]
    BY <1>0, <1>1
  <2>2. \A q \in Expected : process'[q].up => process'[q].start <= now
    BY <1>0, <1>1 DEF ExchangeInv, ExchangeType
  <2> QED BY <1>0, <2>1, <2>2 DEF ExchangeInv, ExchangeType
<1>3. SentRuled'
  <2>1. ASSUME NEW d \in sent PROVE WellFormed(d)' /\ Behind(d, process'[d.producer])
    <3>1. WellFormed(d) /\ Behind(d, process[d.producer]) /\ d.producer \in Expected
      BY DEF ExchangeInv, SentRuled, WellFormed
    <3>2. WellFormed(d)'
      BY <1>0, <3>1 DEF WellFormed
    <3>3. CASE d.producer = p
      <4>1. d.epoch <= process[p].epoch /\ d.epoch \in Int /\ d.end <= now
        BY <3>1, <3>3 DEF Behind, WellFormed, Numbered
      <4>2. process[p].epoch \in Nat
        BY <1>0 DEF Processes
      <4> HIDE DEF who
      <4>3. Behind(d, who)
        BY <1>1, <4>1, <4>2 DEF Behind
      <4> QED BY <3>2, <3>3, <4>3 DEF who
    <3>4. CASE d.producer # p
      BY <1>1, <3>1, <3>2, <3>4
    <3> QED BY <3>3, <3>4
  <2>2. \A c, d \in sent : Ruled(c, d)
    BY DEF ExchangeInv, SentRuled
  <2> QED BY <1>0, <2>1, <2>2 DEF SentRuled
<1>4. PICK B : Recorded(B)
  BY DEF ExchangeInv
<1>5. Recorded(B)'
  <2>1. Seen(B, p, now, now) = {}
    <3>1. B \in SUBSET (Expected \X (0 .. now - 1))
      BY <1>4 DEF Recorded
    <3>2. \A z \in B : z[2] \in Int
      BY <3>1
    <3> QED BY <1>0, <3>2 DEF Seen
  <2>2. \A q \in Expected : process'[q].up =>
          process'[q].count = Cardinality(Seen(B, q, process'[q].start, now))
    BY <1>1, <1>4, <2>1, FS_EmptySet DEF Recorded
  <2>3. HandledBy(Expected)' = HandledBy(Expected)
    BY <1>0 DEF HandledBy
  <2> QED BY <1>0, <1>4, <2>2, <2>3 DEF Recorded
<1> QED BY <1>2, <1>3, <1>5 DEF ExchangeInv

(* A crash loses what the process counted, not what was sent.              *)
LEMMA CrashKeepsInv ==
  ASSUME ExchangeInv, NEW p \in Expected, Crash(p) PROVE ExchangeInv'
<1> DEFINE who == process'[p]
<1>0. /\ now \in Nat /\ now' = now /\ handled' = handled /\ sent' = sent
      /\ inputs' = inputs /\ result' = result
      /\ process \in [Expected -> Processes]
      /\ process' = [process EXCEPT ![p] = Down(process[p].epoch)]
      /\ process[p] \in Processes
  BY DEF Crash, ExchangeInv, ExchangeType
<1>1. /\ who \in Processes /\ ~ who.up /\ who.epoch = process[p].epoch
      /\ \A q \in Expected \ {p} : process'[q] = process[q]
  <2>1. who = Down(process[p].epoch)
    BY <1>0
  <2>2. Down(process[p].epoch) \in Processes
    BY <1>0 DEF Down, Processes
  <2> QED BY <1>0, <2>1, <2>2 DEF Down
<1>2. ExchangeType'
  <2>1. process' \in [Expected -> Processes]
    BY <1>0, <1>1
  <2>2. \A q \in Expected : process'[q].up => process'[q].start <= now
    BY <1>0, <1>1 DEF ExchangeInv, ExchangeType
  <2> QED BY <1>0, <2>1, <2>2 DEF ExchangeInv, ExchangeType
<1>3. SentRuled'
  <2>1. ASSUME NEW d \in sent PROVE WellFormed(d)' /\ Behind(d, process'[d.producer])
    <3>1. WellFormed(d) /\ Behind(d, process[d.producer]) /\ d.producer \in Expected
      BY DEF ExchangeInv, SentRuled, WellFormed
    <3>2. WellFormed(d)'
      BY <1>0, <3>1 DEF WellFormed
    <3>3. CASE d.producer = p
      <4>1. d.epoch <= process[p].epoch
        BY <3>1, <3>3 DEF Behind
      <4> HIDE DEF who
      <4>2. Behind(d, who)
        BY <1>1, <4>1 DEF Behind
      <4> QED BY <3>2, <3>3, <4>2 DEF who
    <3>4. CASE d.producer # p
      BY <1>1, <3>1, <3>2, <3>4
    <3> QED BY <3>3, <3>4
  <2>2. \A c, d \in sent : Ruled(c, d)
    BY DEF ExchangeInv, SentRuled
  <2> QED BY <1>0, <2>1, <2>2 DEF SentRuled
<1>4. PICK B : Recorded(B)
  BY DEF ExchangeInv
<1>5. Recorded(B)'
  <2>1. \A q \in Expected : process'[q].up =>
          process'[q].count = Cardinality(Seen(B, q, process'[q].start, now))
    BY <1>1, <1>4 DEF Recorded
  <2>2. HandledBy(Expected)' = HandledBy(Expected)
    BY <1>0 DEF HandledBy
  <2> QED BY <1>0, <1>4, <2>1, <2>2 DEF Recorded
<1> QED BY <1>2, <1>3, <1>5 DEF ExchangeInv

(* A snapshot tells what its process counted, and follows the earlier      *)
(* ones.                                                                   *)
LEMMA EmitKeepsInv ==
  ASSUME ExchangeInv, NEW p \in Expected, Emit(p) PROVE ExchangeInv'
<1> DEFINE old == process[p]
           next == [process[p] EXCEPT !.sequence = @ + 1]
<1>e. PICK e : e = Snapshot(p, next)
  OBVIOUS
<1>0. /\ now \in Nat /\ now' = now /\ handled' = handled /\ sent' = sent \cup {e}
      /\ inputs' = inputs /\ result' = result
      /\ process \in [Expected -> Processes] /\ old \in Processes
      /\ process' = [process EXCEPT ![p] = next]
      /\ old.up /\ old.start <= now
  BY <1>e DEF Emit, ExchangeInv, ExchangeType
<1>1. /\ old.epoch \in Nat /\ old.sequence \in Nat /\ old.start \in Nat /\ old.count \in Nat
      /\ next.up /\ next.epoch = old.epoch /\ next.sequence = old.sequence + 1
      /\ next.start = old.start /\ next.count = old.count /\ next \in Processes
  BY <1>0 DEF Processes
<1>2. /\ process'[p] = next /\ \A q \in Expected \ {p} : process'[q] = process[q]
      /\ process' \in [Expected -> Processes]
  <2> HIDE DEF next
  <2> QED BY <1>0, <1>1
<1>3. /\ e.producer = p /\ e.epoch = old.epoch /\ e.sequence = old.sequence + 1
      /\ e.window = 0 /\ e.start = old.start /\ e.end = now /\ e.contract = "A"
      /\ e.count = old.count /\ e.sketch.weight = old.count
  <2> HIDE DEF next
  <2> QED BY <1>e, <1>1 DEF Snapshot
<1> HIDE DEF next
<1>4. p \in Int
  BY ExpectedAssumption
<1>5. ExchangeType'
  <2>1. inputs \in Seq(sent')
    <3>1. inputs \in Seq(sent)
      BY DEF ExchangeInv, ExchangeType
    <3>2. DOMAIN inputs = 1 .. Len(inputs) /\ Len(inputs) \in Nat
          /\ \A i \in 1 .. Len(inputs) : inputs[i] \in sent
      BY <3>1
    <3>3. inputs = [i \in 1 .. Len(inputs) |-> inputs[i]]
      BY <3>1
    <3>4. inputs \in [1 .. Len(inputs) -> sent']
      BY <1>0, <3>2, <3>3
    <3> QED BY <3>2, <3>4
  <2>2. \A q \in Expected : process'[q].up => process'[q].start <= now
    BY <1>0, <1>1, <1>2 DEF ExchangeInv, ExchangeType
  <2> QED BY <1>0, <1>2, <2>1, <2>2 DEF ExchangeInv, ExchangeType
<1>6. ASSUME NEW d \in sent
      PROVE  WellFormed(d) /\ Behind(d, process[d.producer]) /\ d.producer \in Expected
  BY DEF ExchangeInv, SentRuled, WellFormed
<1>7. SentRuled'
  <2>1. WellFormed(e)' /\ Behind(e, next)
    BY <1>0, <1>1, <1>3, <1>4 DEF WellFormed, Numbered, Behind
  <2>2. ASSUME NEW d \in sent PROVE WellFormed(d)' /\ Behind(d, process'[d.producer])
    <3>1. WellFormed(d)'
      BY <1>0, <1>6 DEF WellFormed
    <3>2. CASE d.producer = p
      <4>1. Behind(d, old) /\ d.sequence \in Int /\ d.epoch \in Int
        BY <1>6, <3>2 DEF WellFormed, Numbered
      <4>2. Behind(d, next)
        BY <1>0, <1>1, <4>1 DEF Behind
      <4> QED BY <1>2, <3>1, <3>2, <4>2
    <3>3. CASE d.producer # p
      BY <1>2, <1>6, <3>1, <3>3
    <3> QED BY <3>2, <3>3
  <2>3. ASSUME NEW d \in sent PROVE Ruled(d, e) /\ Ruled(e, d)
    <3>1. CASE d.producer = p
      <4>1. Behind(d, old) /\ WellFormed(d)
        BY <1>6, <3>1
      <4> HIDE DEF old
      <4> QED BY <1>0, <1>1, <1>3, <3>1, <4>1 DEF Ruled, SameEpoch, Behind, WellFormed, Numbered
    <3>2. CASE d.producer # p
      BY <1>3, <3>2 DEF Ruled, SameEpoch
    <3> QED BY <3>1, <3>2
  <2>4. Ruled(e, e)
    BY <1>1, <1>3 DEF Ruled, SameEpoch
  <2>5. \A c, d \in sent : Ruled(c, d)
    BY DEF ExchangeInv, SentRuled
  <2> QED BY <1>0, <1>2, <1>3, <2>1, <2>2, <2>3, <2>4, <2>5 DEF SentRuled
<1>8. PICK B : Recorded(B)
  BY DEF ExchangeInv
<1>9. Recorded(B)'
  <2>1. \A q \in Expected : process'[q].up =>
          process'[q].count = Cardinality(Seen(B, q, process'[q].start, now))
    BY <1>0, <1>1, <1>2, <1>8 DEF Recorded
  <2>2. HandledBy(Expected)' = HandledBy(Expected)
    BY <1>0 DEF HandledBy
  <2>3. e.count = Cardinality(Seen(B, e.producer, e.start, e.end))
    BY <1>0, <1>3, <1>8 DEF Recorded
  <2> QED BY <1>0, <1>8, <2>1, <2>2, <2>3 DEF Recorded
<1> QED BY <1>5, <1>7, <1>9 DEF ExchangeInv

(* A file that arrives was sent.                                           *)
LEMMA DeliverKeepsInv ==
  ASSUME ExchangeInv, NEW d \in sent, Deliver(d) PROVE ExchangeInv'
<1>0. /\ now' = now /\ process' = process /\ handled' = handled /\ sent' = sent
      /\ inputs' = Append(inputs, d) /\ result' = Combined(inputs')
  BY DEF Deliver
<1>1. ExchangeType'
  BY <1>0 DEF ExchangeInv, ExchangeType
<1>2. SentRuled'
  BY <1>0 DEF ExchangeInv, SentRuled, WellFormed
<1>3. PICK B : Recorded(B)
  BY DEF ExchangeInv
<1>4. Recorded(B)'
  BY <1>0, <1>3 DEF Recorded, HandledBy
<1> QED BY <1>1, <1>2, <1>4 DEF ExchangeInv

(* The inductive invariant holds through crashes, restarts, losses and     *)
(* repetitions.                                                            *)
THEOREM ExchangeInvCorrect == ExchangeSpec => []ExchangeInv
<1>1. ASSUME ExchangeInv, [ExchangeNext]_exchangeVars PROVE ExchangeInv'
  <2>1. CASE \E busy \in SUBSET Expected : Work(busy)
    BY <1>1, <2>1, WorkKeepsInv
  <2>2. CASE \E p \in Expected : StartProcess(p) \/ Crash(p) \/ Emit(p)
    BY <1>1, <2>2, StartKeepsInv, CrashKeepsInv, EmitKeepsInv
  <2>3. CASE \E d \in sent : Deliver(d)
    BY <1>1, <2>3, DeliverKeepsInv
  <2>4. CASE UNCHANGED exchangeVars
    <3>1. /\ now' = now /\ process' = process /\ handled' = handled /\ sent' = sent
          /\ inputs' = inputs /\ result' = result
      BY <2>4 DEF exchangeVars
    <3>2. ExchangeType'
      BY <1>1, <3>1 DEF ExchangeInv, ExchangeType
    <3>3. SentRuled'
      BY <1>1, <3>1 DEF ExchangeInv, SentRuled, WellFormed
    <3>4. PICK B : Recorded(B)
      BY <1>1 DEF ExchangeInv
    <3>5. Recorded(B)'
      BY <3>1, <3>4 DEF Recorded, HandledBy
    <3> QED BY <3>2, <3>3, <3>5 DEF ExchangeInv
  <2> QED BY <1>1, <2>1, <2>2, <2>3, <2>4 DEF ExchangeNext
<1> QED BY <1>1, ExchangeInitInv, PTL DEF ExchangeSpec

(* The requests in B that d tells of.                                      *)
SeenIn(B, d) == Seen(B, d.producer, d.start, d.end)

(* Documents that share no request count as many as they saw together.     *)
LEMMA SeenTogether ==
  ASSUME NEW n \in Int, NEW B \in SUBSET (Expected \X (0 .. n)), NEW L, IsFiniteSet(L),
         \A d \in L : d.count = Cardinality(SeenIn(B, d)) /\ d.sketch.weight = d.count,
         \A c, d \in L : c # d => SeenIn(B, c) \cap SeenIn(B, d) = {}
  PROVE  /\ Count(L) = Cardinality(UNION {SeenIn(B, d) : d \in L})
         /\ Weight(L) = Count(L)
<1> DEFINE All(A) == UNION {SeenIn(B, d) : d \in A}
           Good(A) == Count(A) = Cardinality(All(A)) /\ Weight(A) = Count(A)
           G == {A \in SUBSET L : Good(A)}
<1>1. ASSUME NEW d \in L
      PROVE  IsFiniteSet(SeenIn(B, d)) /\ d.count \in Nat /\ d.sketch.weight \in Nat
  <2>1. SeenIn(B, d) \in SUBSET B
    BY DEF SeenIn, Seen
  <2> QED BY <2>1, SeenFinite
<1>2. ASSUME NEW A \in SUBSET L
      PROVE  /\ IsFiniteSet(A) /\ Count(A) \in Nat /\ Weight(A) \in Nat
             /\ IsFiniteSet(All(A)) /\ Cardinality(All(A)) \in Nat
             /\ \A d \in L \ A : Count(A \cup {d}) = Count(A) + d.count
                              /\ Weight(A \cup {d}) = Weight(A) + d.sketch.weight
  <2>1. IsFiniteSet(A)
    BY FS_Subset
  <2>2. \A d \in L : d.count \in Nat /\ d.sketch.weight \in Nat
    BY <1>1
  <2>3. All(A) \in SUBSET B
    BY DEF SeenIn, Seen
  <2>4. IsFiniteSet(All(A)) /\ Cardinality(All(A)) \in Nat
    <3> HIDE DEF All
    <3> QED BY <2>3, SeenFinite
  <2> HIDE DEF All
  <2> QED BY <2>1, <2>2, <2>4, CountIs
<1>3. {} \in G
  <2>1. All({}) = {}
    OBVIOUS
  <2>2. Count({}) = 0 /\ Weight({}) = 0
    <3>1. \A d \in L : d.count \in Nat /\ d.sketch.weight \in Nat
      BY <1>1
    <3> QED BY <3>1, CountIs, FS_EmptySet
  <2> QED BY <2>1, <2>2, FS_EmptySet
<1>4. ASSUME NEW A \in SUBSET L, NEW d \in L \ A, A \in G PROVE A \cup {d} \in G
  <2>1. Good(A)
    BY <1>4
  <2>2. All(A \cup {d}) = All(A) \cup SeenIn(B, d)
    OBVIOUS
  <2>3. All(A) \cap SeenIn(B, d) = {}
    OBVIOUS
  <2> HIDE DEF All
  <2>4. Cardinality(All(A \cup {d})) = Cardinality(All(A)) + Cardinality(SeenIn(B, d))
    <3>1. Cardinality(All(A) \cup SeenIn(B, d)) =
            Cardinality(All(A)) + Cardinality(SeenIn(B, d)) - Cardinality(All(A) \cap SeenIn(B, d))
      BY <1>1, <1>2, FS_Union
    <3>2. Cardinality(SeenIn(B, d)) \in Nat
      BY <1>1, FS_CardinalityType
    <3>3. Cardinality(All(A) \cap SeenIn(B, d)) = 0
      BY <2>3, FS_EmptySet
    <3>4. Cardinality(All(A)) \in Nat
      BY <1>2
    <3>5. Cardinality(All(A \cup {d})) = Cardinality(All(A) \cup SeenIn(B, d))
      BY <2>2
    <3> DEFINE a == Cardinality(All(A))
               b == Cardinality(SeenIn(B, d))
               u == Cardinality(All(A) \cup SeenIn(B, d))
               i == Cardinality(All(A) \cap SeenIn(B, d))
    <3>6. u = a + b - i /\ i = 0 /\ a \in Nat /\ b \in Nat
      BY <3>1, <3>2, <3>3, <3>4
    <3> HIDE DEF a, b, u, i
    <3>7. u = a + b
      BY <3>6
    <3> QED BY <3>5, <3>7 DEF a, b, u
  <2>5. Good(A \cup {d})
    BY <1>1, <1>2, <2>1, <2>4
  <2> HIDE DEF Good
  <2> QED BY <2>5
<1>5. L \in G
  <2> HIDE DEF G
  <2> QED BY <1>3, <1>4, SubsetInduction
<1> QED BY <1>5

(* Whatever arrived is combinable, its latest documents count no request   *)
(* twice, and count all if they cover the window.                          *)
LEMMA HonestInputs ==
  ASSUME ExchangeInv, NEW D, D = ToSet(inputs)
  PROVE  /\ inputs \in Seq(D) /\ \A d \in D : Numbered(d)
         /\ Combinable(D)
         /\ Count(Latest(D)) <= HandledBy(Expected)
         /\ (\A p \in Expected : Observed(Latest(D), p) = 0 .. Duration - 1) =>
              Count(Latest(D)) = HandledBy(Expected)
<1> DEFINE L == Latest(D)
<1>0. now \in Nat /\ now <= Duration /\ Duration \in Nat \ {0} /\ inputs \in Seq(sent)
  BY DurationAssumption DEF ExchangeInv, ExchangeType
<1>1. inputs \in Seq(D) /\ D \in SUBSET sent
  BY <1>0, InputsOf
<1>2. IsFiniteSet(D)
  <2>1. Len(inputs) \in 0 .. Len(inputs)
    BY <1>1
  <2>2. IsFiniteSet(Prefix(inputs, Len(inputs))) /\ Prefix(inputs, Len(inputs)) = ToSet(inputs)
    BY <1>1, <2>1, PrefixFinite, PrefixIs
  <2> QED BY <2>2
<1>3. PICK B : Recorded(B)
  BY DEF ExchangeInv
<1>4. /\ B \in SUBSET (Expected \X (0 .. Duration - 1))
      /\ HandledBy(Expected) = Cardinality(B)
  <2>1. B \in SUBSET (Expected \X (0 .. now - 1)) /\ HandledBy(Expected) = Cardinality(B)
    BY <1>3 DEF Recorded
  <2>2. 0 .. now - 1 \subseteq 0 .. Duration - 1
    BY <1>0
  <2> QED BY <2>1, <2>2
<1>5. /\ Cardinality(B) \in Nat /\ Cardinality(B) <= MAX_INT
      /\ \A C \in SUBSET B : Cardinality(C) \in Nat /\ Cardinality(C) <= Cardinality(B)
  <2>1. Cardinality(0 .. Duration - 1) = Duration
    BY <1>0, FS_Interval
  <2>2. /\ Cardinality(B) \in Nat
        /\ Cardinality(B) <= Cardinality(Expected) * Cardinality(0 .. Duration - 1)
        /\ \A C \in SUBSET B : Cardinality(C) \in Nat /\ Cardinality(C) <= Cardinality(B)
    BY <1>0, <1>4, SeenFinite
  <2>3. Cardinality(Expected) * Duration \in Nat
    BY <1>0, ExpectedAssumption, FS_CardinalityType
  <2> QED BY <2>1, <2>2, <2>3, RequestsAssumption, LimitAssumption
<1>6. ASSUME NEW d \in D
      PROVE  /\ WellFormed(d) /\ d.producer \in Expected
             /\ d.count = Cardinality(SeenIn(B, d)) /\ d.sketch.weight = d.count
             /\ SeenIn(B, d) \in SUBSET B
  BY <1>1, <1>3 DEF ExchangeInv, SentRuled, WellFormed, Recorded, SeenIn, Seen
<1>7. \A d \in D : Numbered(d)
  BY <1>6 DEF WellFormed
<1>8. \A c, d \in D : Ruled(c, d)
  BY <1>1 DEF ExchangeInv, SentRuled
<1>9. Usable(D)
  <2>1. ASSUME NEW d \in D PROVE Valid(d)
    <3>1. d.count \in 0 .. MAX_INT
      BY <1>5, <1>6, LimitAssumption DEF WellFormed, Numbered
    <3>2. d.start = d.end => d.count = 0
      <4>1. SUFFICES ASSUME d.start = d.end PROVE SeenIn(B, d) = {}
        BY <1>6, FS_EmptySet
      <4>2. \A z \in B : z[2] \in Int
        BY <1>4
      <4>3. d.end \in Int
        BY <1>7 DEF Numbered
      <4> QED BY <4>1, <4>2, <4>3 DEF SeenIn, Seen
    <3>3. 0 % Duration = 0
      BY <1>0
    <3> QED BY <1>0, <1>6, <3>1, <3>2, <3>3 DEF Valid, WellFormed, Numbered
  <2> QED BY <1>6, <1>8, <2>1 DEF Usable, WellFormed, Ruled
<1>10. L \in SUBSET D /\ IsFiniteSet(L)
  BY <1>2, FS_Subset DEF Latest
<1>11. ASSUME NEW c \in L, NEW d \in L, c # d, c.producer = d.producer
       PROVE  c.end <= d.start \/ d.end <= c.start
  <2>1. c \in D /\ d \in D /\ Ruled(c, d) /\ Ruled(d, c)
    BY <1>8, <1>10
  <2>2. ~ SameEpoch(c, d)
    <3>1. c.sequence \in Int /\ d.sequence \in Int
      BY <1>7, <2>1 DEF Numbered
    <3> QED BY <1>11, <2>1, <3>1 DEF Latest, Ruled, SameEpoch
  <2>3. c.epoch \in Int /\ d.epoch \in Int
    BY <1>7, <2>1 DEF Numbered
  <2> HIDE DEF L
  <2> QED BY <1>11, <2>1, <2>2, <2>3 DEF Ruled, SameEpoch
<1>12. Disjoint(L)
  BY <1>11 DEF Disjoint
<1>13. \A c, d \in L : c # d => SeenIn(B, c) \cap SeenIn(B, d) = {}
  <2>1. SUFFICES ASSUME NEW c \in L, NEW d \in L, c # d, NEW z \in SeenIn(B, c), z \in SeenIn(B, d)
                 PROVE  FALSE
    OBVIOUS
  <2>2. z \in B /\ z[2] \in Int
    BY <1>4 DEF SeenIn, Seen
  <2>3. c.producer = d.producer /\ c.start <= z[2] /\ z[2] < c.end /\ d.start <= z[2] /\ z[2] < d.end
    BY <2>1 DEF SeenIn, Seen
  <2>4. {c.start, c.end, d.start, d.end} \subseteq Int
    BY <1>7, <1>10 DEF Numbered
  <2> HIDE DEF L
  <2> QED BY <1>11, <2>1, <2>2, <2>3, <2>4
<1> DEFINE all == UNION {SeenIn(B, d) : d \in L}
<1>14. Count(L) = Cardinality(all) /\ Weight(L) = Count(L)
  <2>1. \A d \in L : d.count = Cardinality(SeenIn(B, d)) /\ d.sketch.weight = d.count
    BY <1>6, <1>10
  <2> HIDE DEF L
  <2> QED BY <1>0, <1>4, <1>10, <1>13, <2>1, SeenTogether
<1>15. all \in SUBSET B
  BY <1>6, <1>10
<1>16. Count(L) \in Nat /\ Count(L) <= Cardinality(B)
  <2> HIDE DEF L, all
  <2> QED BY <1>5, <1>14, <1>15
<1>17. Fits(L)
  <2> HIDE DEF L
  <2> QED BY <1>5, <1>14, <1>16, LimitAssumption DEF Fits
<1>18. ASSUME \A p \in Expected : Observed(L, p) = 0 .. Duration - 1 PROVE all = B
  <2>1. ASSUME NEW z \in B PROVE z \in all
    <3>1. z[1] \in Expected /\ z[2] \in 0 .. Duration - 1
      BY <1>4
    <3>2. z[2] \in Observed(L, z[1])
      BY <1>18, <3>1
    <3>3. PICK d \in L : d.producer = z[1] /\ z[2] \in d.start .. d.end - 1
      <4> HIDE DEF L
      <4> QED BY <3>2 DEF Observed
    <3>4. d.start \in Int /\ d.end \in Int
      BY <1>7, <1>10 DEF Numbered
    <3>5. z \in SeenIn(B, d)
      BY <3>1, <3>3, <3>4 DEF SeenIn, Seen
    <3> HIDE DEF L
    <3> QED BY <3>5
  <2> HIDE DEF all
  <2> QED BY <1>15, <2>1
<1> HIDE DEF L, all
<1>19. Combinable(D)
  BY <1>9, <1>12, <1>17 DEF Combinable, L
<1> QED BY <1>1, <1>4, <1>7, <1>14, <1>16, <1>18, <1>19 DEF L

(* The sources of the result are the latest of what arrived.               *)
SourcesAre == ToSet(result.py.sources) = Latest(ToSet(inputs))

(* So the result has these properties.                                     *)
LEMMA HonestResults ==
  ASSUME ExchangeInv
  PROVE  HonestAccepted /\ NeverOvercounts /\ CompleteMeansExact /\ SourcesAre
<1> DEFINE D == ToSet(inputs)
           p == PyCombine(inputs)
           g == GoCombine(inputs)
<1>1. /\ inputs \in Seq(D) /\ \A d \in D : Numbered(d)
      /\ Combinable(D)
      /\ Count(Latest(D)) <= HandledBy(Expected)
      /\ (\A q \in Expected : Observed(Latest(D), q) = 0 .. Duration - 1) =>
              Count(Latest(D)) = HandledBy(Expected)
  BY HonestInputs
<1>2. result.py = p /\ result.go = g
  BY DEF ExchangeInv, ExchangeType, Combined
<1> HIDE DEF p, g
<1>3. /\ Ok(p.error) <=> Combinable(D)
      /\ Ok(p.error) => ResultOf(p, Latest(D)) /\ Lists(p.sources, D)
      /\ Ok(p.error) \/ Ok(g.error) => p = g
  <2>1. p = PyCombine(inputs) /\ g = GoCombine(inputs) /\ D = ToSet(inputs)
    BY DEF p, g
  <2> HIDE DEF D
  <2> QED BY <1>1, <2>1, CombineMeans
<1>4. Ok(p.error) /\ p = g /\ ResultOf(p, Latest(D)) /\ \A r \in Results : r = p
  BY <1>1, <1>2, <1>3 DEF Results
<1>5. p.count = Count(Latest(D)) /\ ToSet(p.sources) = Latest(D)
  BY <1>4 DEF ResultOf
<1>6. ASSUME p.missing = {}, p.partial = {} PROVE p.count = HandledBy(Expected)
  <2>1. ASSUME NEW q \in Expected PROVE Observed(Latest(D), q) = 0 .. Duration - 1
    <3>1. PICK d \in Latest(D) : d.producer = q
      BY <1>4, <1>6 DEF ResultOf
    <3>2. Observed(Latest(D), q) = d.window .. d.window + Duration - 1
      BY <1>4, <1>6 DEF ResultOf
    <3>3. d.window = 0
      <4>1. d \in sent
        <5>1. inputs \in Seq(sent)
          BY DEF ExchangeInv, ExchangeType
        <5>2. D \in SUBSET sent
          BY <5>1, InputsOf
        <5> QED BY <5>2 DEF Latest
      <4> QED BY <4>1 DEF ExchangeInv, SentRuled, WellFormed
    <3>4. 0 + Duration - 1 = Duration - 1
      BY DurationAssumption
    <3> QED BY <3>2, <3>3, <3>4
  <2> QED BY <1>1, <1>5, <2>1
<1>7. HonestAccepted
  BY <1>4 DEF HonestAccepted
<1>8. NeverOvercounts
  BY <1>1, <1>4, <1>5 DEF NeverOvercounts
<1>9. CompleteMeansExact
  BY <1>4, <1>6 DEF CompleteMeansExact
<1>10. SourcesAre
  BY <1>2, <1>5 DEF SourcesAre
<1> QED BY <1>7, <1>8, <1>9, <1>10

(* Loss, repetition, reordering, crashes and restarts never make combine   *)
(* fail for producers that keep the rules.                                 *)
THEOREM HonestAcceptedCorrect == ExchangeSpec => []HonestAccepted
BY ExchangeInvCorrect, HonestResults, PTL

(* No request is counted twice, whatever arrives how often, from any       *)
(* number of processes.                                                    *)
THEOREM NeverOvercountsCorrect == ExchangeSpec => []NeverOvercounts
BY ExchangeInvCorrect, HonestResults, PTL

(* A result with no producer missing or partial counted every request of   *)
(* the window.                                                             *)
THEOREM CompleteMeansExactCorrect == ExchangeSpec => []CompleteMeansExact
BY ExchangeInvCorrect, HonestResults, PTL

(* One more document replaces the latest of its epoch by a later one, or   *)
(* nothing.                                                                *)
LEMMA LatestAdvances ==
  ASSUME NEW D, NEW x, \A c \in D \cup {x} : Numbered(c), NEW old \in Latest(D)
  PROVE  \E new \in Latest(D \cup {x}) : SameEpoch(old, new) /\ old.sequence <= new.sequence
<1> DEFINE E == D \cup {x}
<1>1. old \in D /\ \A c \in D : SameEpoch(c, old) => c.sequence <= old.sequence
  BY DEF Latest
<1>2. old.sequence \in Int /\ x.sequence \in Int /\ \A c \in D : c.sequence \in Int
  BY <1>1 DEF Numbered
<1>3. CASE SameEpoch(x, old) /\ old.sequence < x.sequence
  <2>1. x \in Latest(E)
    <3>1. ASSUME NEW c \in E, SameEpoch(c, x) PROVE c.sequence <= x.sequence
      <4>1. CASE c = x
        BY <1>2, <4>1
      <4>2. CASE c \in D
        <5>1. SameEpoch(c, old)
          BY <1>3, <3>1 DEF SameEpoch
        <5> QED BY <1>1, <1>2, <1>3, <4>2, <5>1
      <4> QED BY <4>1, <4>2
    <3> QED BY <3>1 DEF Latest
  <2>2. SameEpoch(old, x) /\ old.sequence <= x.sequence
    BY <1>2, <1>3 DEF SameEpoch
  <2> QED BY <2>1, <2>2
<1>4. CASE ~ (SameEpoch(x, old) /\ old.sequence < x.sequence)
  <2>1. old \in Latest(E)
    BY <1>1, <1>2, <1>4 DEF Latest
  <2>2. SameEpoch(old, old) /\ old.sequence <= old.sequence
    BY <1>2 DEF SameEpoch
  <2> QED BY <2>1, <2>2
<1> QED BY <1>3, <1>4

(* Appending adds one member.                                              *)
LEMMA AppendedTo ==
  ASSUME NEW D, NEW s \in Seq(D), NEW x \in D PROVE ToSet(Append(s, x)) = ToSet(s) \cup {x}
<1> DEFINE t == Append(s, x)
<1>1. Len(s) \in Nat /\ Len(t) = Len(s) + 1 /\ DOMAIN t = 1 .. Len(s) + 1 /\ DOMAIN s = 1 .. Len(s)
      /\ t[Len(s) + 1] = x /\ \A i \in 1 .. Len(s) : t[i] = s[i]
  OBVIOUS
<1> HIDE DEF t
<1>2. ToSet(t) = ToSet(s) \cup {x}
  <2>1. \A i \in 1 .. Len(s) + 1 : i = Len(s) + 1 \/ i \in 1 .. Len(s)
    BY <1>1
  <2>2. Len(s) + 1 \in 1 .. Len(s) + 1 /\ \A i \in 1 .. Len(s) : i \in 1 .. Len(s) + 1
    BY <1>1
  <2> QED BY <1>1, <2>1, <2>2 DEF ToSet
<1> QED BY <1>2 DEF t

(* One more file never takes back what a result had: of each epoch it uses *)
(* the same document or a later one.                                       *)
THEOREM SourcesAdvanceCorrect == ExchangeSpec => SourcesAdvance
<1> DEFINE Advance == \A old \in ToSet(result.py.sources) :
                        \E new \in ToSet(result'.py.sources) :
                          SameEpoch(old, new) /\ old.sequence <= new.sequence
<1>1. ASSUME ExchangeInv, SourcesAre, SourcesAre', [ExchangeNext]_exchangeVars
      PROVE  Advance
  <2>1. inputs \in Seq(sent) /\ \A d \in sent : Numbered(d)
    BY <1>1 DEF ExchangeInv, ExchangeType, SentRuled, WellFormed
  <2>2. ToSet(inputs) \in SUBSET sent
    BY <2>1, InputsOf
  <2>3. ASSUME NEW old \in Latest(ToSet(inputs))
        PROVE  \E new \in Latest(ToSet(inputs')) :
                 SameEpoch(old, new) /\ old.sequence <= new.sequence
    <3>1. CASE \E d \in sent : Deliver(d)
      <4>1. PICK d \in sent : inputs' = Append(inputs, d)
        BY <3>1 DEF Deliver
      <4>2. ToSet(inputs') = ToSet(inputs) \cup {d}
        BY <2>1, <4>1, AppendedTo
      <4>3. \A c \in ToSet(inputs) \cup {d} : Numbered(c)
        BY <2>1, <2>2
      <4> QED BY <4>2, <4>3, LatestAdvances
    <3>2. CASE inputs' = inputs
      <4>1. old.sequence \in Int
        BY <2>1, <2>2 DEF Latest, Numbered
      <4> QED BY <3>2, <4>1 DEF SameEpoch
    <3>3. inputs' = inputs \/ \E d \in sent : Deliver(d)
      BY <1>1 DEF ExchangeNext, Work, StartProcess, Crash, Emit, exchangeVars
    <3> QED BY <3>1, <3>2, <3>3
  <2> QED BY <1>1, <2>3 DEF SourcesAre
<1>2. ExchangeSpec => []SourcesAre
  BY ExchangeInvCorrect, HonestResults, PTL
<1>3. ExchangeSpec => [][Advance]_exchangeVars
  BY <1>1, <1>2, ExchangeInvCorrect, PTL DEF ExchangeSpec
<1> QED BY <1>3 DEF SourcesAdvance
=============================================================================

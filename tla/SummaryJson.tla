----------------------------- MODULE SummaryJson -----------------------------
(***************************************************************************)
(* The structural scan of a summary document before it is decoded:         *)
(* check_counts (_summary_json.py) and scanShape (json_bounds.go) read the *)
(* same text token by token.  The text is chosen as it is read, so every   *)
(* text over the instance's names is covered.  Python descends             *)
(* recursively; here the frames of its calls are top and under.  A key is  *)
(* also a scalar: a string.                                                *)
(***************************************************************************)
EXTENDS Naturals, Sequences, FiniteSets

CONSTANTS Shape,      \* the required members of the kinds of object that have a shape
          FreeLimit,  \* the number of members allowed in counters, sketches and models
          Limit,      \* Python's table of the limits of all kinds
          Reserved,   \* model names that stand for a remainder
          PublicId,   \* strings that may name a model
          MaxModels,  \* 5000: models other than the reserved ones
          Bins,       \* 4: the bins of a histogram
          Offered     \* by kind: the strings that the texts of this instance contain there

VARIABLES py,      \* the scan in Python
          go,      \* the scan in Go
          unicode  \* "good"; or a lone surrogate is still to "come" in the text or was "met"

jsonVars == <<py, go, unicode>>

NoKind == "none"
Kind == DOMAIN Limit
Key == UNION {Offered[k] : k \in Kind}
Outcome == {"ok", "model_count", "structure", "syntax", "digits"}

\* The kinds of object nested in an object, by member or whatever the member.
Children ==
  [root |-> [counters |-> "counters", sketches |-> "sketches", model_usage |-> "extension"],
   extension |-> [models |-> "models"],
   row |-> [fields |-> "fields", complete |-> "cohort", histogram |-> "histogram",
            excluded |-> "excluded", provenance |-> "provenance"],
   bin |-> [reported |-> "reported", complete |-> "cohort"]]

Repeated == [models |-> "row", fields |-> "field", provenance |-> "origin", sketches |-> "payload"]

(* mutant: members without a kind of their own are scanned like the object they are in *)
ChildOfSameKind(kind, key) ==
  IF kind \in DOMAIN Repeated THEN Repeated[kind]
  ELSE IF kind \in DOMAIN Children /\ key \in DOMAIN Children[kind] THEN Children[kind][key]
  ELSE kind

Child(kind, key) ==
  IF kind \in DOMAIN Repeated THEN Repeated[kind]
  ELSE IF kind \in DOMAIN Children /\ key \in DOMAIN Children[kind] THEN Children[kind][key]
  ELSE "scalar"

\* Go keeps one table: the root of its shapes lists model_usage, and a limit
\* is the size of a shape.
GoShape(kind) == IF kind = "root" THEN Shape[kind] \cup {"model_usage"} ELSE Shape[kind]
GoLimit(kind) ==
  IF kind \in DOMAIN FreeLimit THEN FreeLimit[kind] ELSE Cardinality(GoShape(kind))

\* The two tables of the code say the same.
TablesAssumption ==
  /\ Kind = DOMAIN Shape \cup DOMAIN FreeLimit
  /\ \A kind \in DOMAIN Shape : IsFiniteSet(Shape[kind])
  /\ \A kind \in Kind : Limit[kind] \in Nat /\ Limit[kind] = GoLimit(kind)
  /\ "root" \in DOMAIN Shape /\ "model_usage" \notin Shape["root"]
  /\ {"root", "counters", "sketches", "payload", "extension", "models", "row", "fields", "field",
       "cohort", "bin", "reported", "excluded", "provenance", "origin"} \subseteq Kind
  /\ MaxModels \in Nat /\ Bins \in Nat \ {0}
  /\ IsFiniteSet(Reserved) /\ Limit["models"] >= MaxModels + Cardinality(Reserved)
ASSUME TablesAssumption

\* What a token may be besides a key: "scalar" is a number, true, false or
\* null, but "digits" an integer of more digits than int() converts (4300), and
\* "garbage" no token of JSON.
Mark == {"{", "}", "[", "]", ",", ":", "scalar", "digits", "space", "surrogate", "garbage", "end"}
ASSUME NamesAssumption == Key \cap Mark = {}
-----------------------------------------------------------------------------
\* A frame: what object_ or object keeps about the object it is reading.
\* count equals the number of names in seen, since a repeated one is refused.
Frame(kind) == [kind |-> kind, seen |-> {}, key |-> NoKind, bins |-> 0]

Start(out) == [at |-> "object", want |-> "root", top |-> Frame(NoKind), under |-> <<>>,
               present |-> FALSE, ill |-> FALSE, out |-> out]

Refuse(s, reason) == [s EXCEPT !.out = reason]

Enter(s) == [s EXCEPT !.at = "member", !.top = Frame(s.want), !.under = Append(@, s.top)]

\* An object ends: a bin is followed by the next one or the end of its array.
Leave(s, shapeError) ==
  LET outer == s.under[Len(s.under)] IN
  [s EXCEPT !.ill = @ \/ shapeError,
            !.top = outer,
            !.under = SubSeq(@, 1, Len(@) - 1),
            !.at = IF outer.kind = NoKind THEN "done"
                   ELSE IF outer.bins = 0 THEN "member"
                   ELSE IF outer.bins < Bins THEN "comma" ELSE "close"]

\* What is read after the colon: a scalar, an array or an object.
Expect(s, child) ==
  [s EXCEPT !.at = IF child = "scalar" THEN "scalar" ELSE IF child = "histogram" THEN "array" ELSE "object",
            !.want = child]

NextBin(s) == [s EXCEPT !.at = "object", !.want = "bin", !.top.bins = @ + 1]
EndBins(s) == [s EXCEPT !.at = "member", !.top.bins = 0]
TooMany(seen) == Cardinality(seen \ Reserved) > MaxModels
-----------------------------------------------------------------------------
PyKey(s, t) ==
  IF t \in Key /\ t \notin s.top.seen
  THEN [s EXCEPT !.at = "colon", !.top.key = t] ELSE Refuse(s, "syntax")

PyMember(s, t) ==
  IF t = "}" THEN Leave(s, /\ s.top.kind \in DOMAIN Shape
                           /\ s.top.seen # Shape[s.top.kind] \cup
                                (IF s.top.kind = "root" THEN s.top.seen \cap {"model_usage"} ELSE {}))
  ELSE IF t = "end" THEN Refuse(s, "syntax")
  ELSE IF Cardinality(s.top.seen) >= Limit[s.top.kind]
       THEN Refuse(s, IF s.top.kind = "models" THEN "model_count" ELSE "structure")
  ELSE IF s.top.seen = {} THEN PyKey(s, t)
  ELSE IF t = "," THEN [s EXCEPT !.at = "key"] ELSE Refuse(s, "syntax")

\* The checks on a model name follow the colon.
PyColon(s, t) ==
  LET key == s.top.key
      f == [s.top EXCEPT !.seen = @ \cup {key}]
  IN IF t # ":" THEN Refuse(s, "syntax")
     ELSE IF f.kind = "models" /\ TooMany(f.seen) THEN Refuse(s, "model_count")
     ELSE IF f.kind = "models" /\ key \notin Reserved \cup PublicId THEN Refuse(s, "structure")
     ELSE Expect([s EXCEPT !.top = f,
                           !.present = @ \/ (f.kind = "root" /\ key = "model_usage")],
                 Child(f.kind, key))

\* The ValueError of int() ends the calls; Go's scan may go on for long.
PyStep(s, t) ==
  IF s.out # "reading" \/ (t = "space" /\ s.at # "done") THEN s
  ELSE CASE s.at = "object" -> IF t = "{" THEN Enter(s) ELSE Refuse(s, "syntax")
         [] s.at = "member" -> PyMember(s, t)
         [] s.at = "key"    -> PyKey(s, t)
         [] s.at = "colon"  -> PyColon(s, t)
         [] s.at = "scalar" -> IF t \in Key \cup {"scalar"} THEN [s EXCEPT !.at = "member"]
                               ELSE IF t = "digits" THEN Start("digits") ELSE Refuse(s, "syntax")
         [] s.at = "array"  -> IF t = "[" THEN NextBin(s) ELSE Refuse(s, "structure")
         [] s.at = "comma"  -> IF t = "," THEN NextBin(s) ELSE Refuse(s, "structure")
         [] s.at = "close"  -> IF t = "]" THEN EndBins(s) ELSE Refuse(s, "structure")
         [] s.at = "done"   -> Refuse(s, IF t = "end" /\ ~s.ill THEN "ok" ELSE "structure")
-----------------------------------------------------------------------------
\* The name is entered and checked as soon as it is read; the decoder looks
\* for the colon when the value is asked for.
GoKey(s, t) ==
  LET f == [s.top EXCEPT !.seen = @ \cup {t}, !.key = t] IN
  IF t \notin Key \/ t \in s.top.seen THEN Refuse(s, "structure")
  ELSE IF f.kind = "models" /\ TooMany(f.seen) THEN Refuse(s, "model_count")
  ELSE IF f.kind = "models" /\ t \notin Reserved \cup PublicId THEN Refuse(s, "structure")
  ELSE [s EXCEPT !.at = "colon", !.top = f,
                 !.present = @ \/ (f.kind = "root" /\ t = "model_usage")]

(* mutant: compares the number of members only *)
GoShapeErrorByCount(kind, seen) ==
  /\ kind \in DOMAIN Shape
  /\ Cardinality(seen) # Cardinality(GoShape(kind)) - (IF kind = "root" /\ "model_usage" \notin seen THEN 1 ELSE 0)

GoShapeError(kind, seen) ==
  /\ kind \in DOMAIN Shape
  /\ \/ Cardinality(seen) # Cardinality(GoShape(kind)) - (IF kind = "root" /\ "model_usage" \notin seen THEN 1 ELSE 0)
     \/ \E k \in GoShape(kind) : k \notin seen /\ ~(kind = "root" /\ k = "model_usage")

\* The loop over d.More(), which is false before either closing token and at
\* the end of the text.
GoMember(s, t) ==
  IF t \in {"}", "]", "end"}
  THEN IF t = "}" THEN Leave(s, GoShapeError(s.top.kind, s.top.seen)) ELSE Refuse(s, "structure")
  ELSE IF Cardinality(s.top.seen) >= GoLimit(s.top.kind)
       THEN Refuse(s, IF s.top.kind = "models" THEN "model_count" ELSE "structure")
  ELSE IF s.top.seen = {} THEN GoKey(s, t)
  ELSE IF t = "," THEN [s EXCEPT !.at = "key"] ELSE Refuse(s, "structure")

GoStep(s, t) ==
  IF s.out # "reading" \/ (t = "space" /\ s.at # "done") THEN s
  ELSE CASE s.at = "object" -> IF t = "{" THEN Enter(s) ELSE Refuse(s, "structure")
         [] s.at = "member" -> GoMember(s, t)
         [] s.at = "key"    -> GoKey(s, t)
         [] s.at = "colon"  -> IF t = ":" THEN Expect(s, Child(s.top.kind, s.top.key)) ELSE Refuse(s, "structure")
         [] s.at = "scalar" -> IF t \in Key \cup {"scalar", "digits"} THEN [s EXCEPT !.at = "member"]
                               ELSE Refuse(s, "structure")
         [] s.at = "array"  -> IF t = "[" THEN NextBin(s) ELSE Refuse(s, "structure")
         [] s.at = "comma"  -> IF t = "," THEN NextBin(s) ELSE Refuse(s, "structure")
         [] s.at = "close"  -> IF t = "]" THEN EndBins(s) ELSE Refuse(s, "structure")
         [] s.at = "done"   -> Refuse(s, IF t = "end" /\ ~s.ill THEN "ok" ELSE "structure")
-----------------------------------------------------------------------------
\* validJSONUnicode looks through the whole text before the scan begins.
JsonInit ==
  /\ unicode \in {"good", "come"}
  /\ py = Start("reading")
  /\ go = Start(IF unicode = "good" THEN "reading" ELSE "structure")

Reading == py.out = "reading" \/ go.out = "reading"

\* The next token of the text.  A text announced to hold a surrogate has one.
Read(t) ==
  /\ Reading
  /\ t = "surrogate" => unicode # "good"
  /\ t = "end" => unicode # "come"
  /\ py' = PyStep(py, t)
  /\ go' = GoStep(go, t)
  /\ unicode' = IF t = "surrogate" THEN "met" ELSE unicode

Here == IF py.out = "reading" THEN py.top.kind ELSE go.top.kind
Token == Mark \cup (IF Here = NoKind THEN {} ELSE Offered[Here])

JsonNext == \E t \in Token : Read(t)
-----------------------------------------------------------------------------
(* Both languages accept the same texts, but for those with an integer too   *)
(* long for int(), which only Python's scan refuses, and see the model-usage *)
(* member in the same ones, although one checks a model name before its      *)
(* colon and the other after it, and one looks for lone surrogates first.    *)
(* An excess of models is reported, by either, only in a document that has   *)
(* as many as are allowed; a member missing from an earlier row never hides  *)
(* it, only such an integer or a fault of the JSON text at that place does.  *)
FullOfModels(s) == s.top.kind = "models" /\ Cardinality(s.top.seen \ Reserved) >= MaxModels
SameScan ==
  /\ py.out = "ok" /\ ~Reading => go.out = "ok"
  /\ go.out = "ok" /\ ~Reading => py.out \in {"ok", "digits"}
  /\ py.out = "ok" => py.present = go.present /\ ~py.ill /\ unicode = "good"
  /\ py.out = "model_count" => FullOfModels(py)
  /\ go.out = "model_count" => FullOfModels(go) /\ py.out \in {"reading", "model_count", "syntax", "digits"}

(* The comment of scanShape: containers are nested at most seven deep,       *)
(* whatever the text; so is Python's recursion, which takes one call for     *)
(* each object.                                                              *)
Depth(s) ==
  Len(s.under) + (IF \E i \in 1..Len(s.under) : s.under[i].bins > 0 THEN 1 ELSE 0)
DepthBounded == Depth(py) <= 7 /\ Depth(go) <= 7
=============================================================================

---------------------------- MODULE SummaryIntake ----------------------------
(***************************************************************************)
(* A summary document on its way in: Envelope.parse and has_model_usage    *)
(* (summary.py), Parse and Envelope.validate (summary.go).  The scan of    *)
(* SummaryJson comes first; what it lets pass is decoded, the envelope is  *)
(* validated, and then a sketch payload, which is a message of SketchWire; *)
(* at last the document must be the one that would be written.             *)
(***************************************************************************)
EXTENDS SummaryJson, SketchWire

CONSTANTS MaxInt,      \* the largest signed 64-bit integer
          MaxDuration, \* nanoseconds of a day
          Document     \* what the documents of this instance say; see Facts

VARIABLES stage,   \* "scan", "envelope", "payload", "read"
          facts,   \* what is kept of the decoded document
          verdict  \* of each language: "ok" so far, "accepted", or the kind of error

intakeVars == <<stage, facts, verdict, py, go, unicode, wire>>

\* What a document may hold where integers, strings and base64 belong.  A "-0"
\* is signed where Go's type is a signed integer; data that are not a string
\* have a type of their own; lax data are null or have line breaks, which Go's
\* decoder passes over.
Oddity == {"fraction", "signed_minus_zero", "unsigned_minus_zero", "wrong_type", "null", "data_type", "bad_base64", "lax_data"}

\* canonical: keys in order, no spaces; base64First: before any value that does
\* not fit its type; present: a model-usage block is there; refusedBy: by whose
\* validators.  An odd value leaves an integer as Go's decoder does, null at 0.
Facts == [odd : SUBSET Oddity, canonical : BOOLEAN, base64First : BOOLEAN,
          present : BOOLEAN, refusedBy : SUBSET {"py", "go"}, identifiers : BOOLEAN,
          version : Int, sequence : Int, counter : Int,
          start : Int, duration : Int, from : Int, to : Int, emitted : Int]

\* What is odd is not written that way, and on a block of integers the
\* validators agree (SameVerdict of ModelUsage).
DocumentAssumption ==
  /\ MaxInt \in Nat \ {0} /\ MaxDuration \in 1..MaxInt
  /\ Document \subseteq Facts
  /\ \A d \in Document :
       /\ d.odd # {} => ~d.canonical
       /\ ~d.present => d.refusedBy = {}
       /\ d.odd \cap {"wrong_type", "null"} = {} => d.refusedBy \in {{}, {"py", "go"}}
ASSUME DocumentAssumption

\* The integers that are signed in Go, those that Python checks as one class,
\* and an integer that its type in Go does not hold.
Signed(d) == {d.version, d.emitted, d.from, d.to, d.duration, d.start}
Integers(d) == Signed(d) \cup {d.sequence}
Beyond(d) ==
  \/ \E n \in Signed(d) : n < -(MaxInt + 1) \/ n > MaxInt
  \/ \E n \in {d.sequence, d.counter} : n < 0 \/ n > 2 * MaxInt + 1
-----------------------------------------------------------------------------
\* has_model_usage: the scan alone, and one kind of error.
HasModelUsage(s) == IF s.out # "ok" THEN "error" ELSE IF s.present THEN "present" ELSE "absent"

\* The integers are unbounded.  Numbers are looked at while the JSON is decoded,
\* data before the envelope is validated, and the block before the envelope.
PyInterval(d) ==
  /\ 0 < d.duration /\ d.duration <= MaxDuration
  /\ d.start + d.duration <= MaxInt
  /\ d.start % d.duration = 0
  /\ d.start <= d.from /\ d.from <= d.to /\ d.to <= d.start + d.duration
  /\ d.emitted >= d.to

PyEnvelope(d) ==
  IF d.odd \cap {"fraction", "signed_minus_zero", "unsigned_minus_zero"} # {} THEN "range"
  ELSE IF d.odd \cap {"data_type", "bad_base64", "lax_data"} # {} THEN "summary"
  ELSE IF "py" \in d.refusedBy THEN "usage"
  ELSE IF d.odd # {} \/ ~(Integers(d) \subseteq 0..MaxInt) THEN "summary"
  ELSE IF d.version # 1 \/ d.sequence = 0 \/ ~d.identifiers \/ ~PyInterval(d) \/ d.counter \notin 0..MaxInt THEN "summary"
  ELSE IF d.from = d.to /\ d.counter # 0 THEN "summary"
  ELSE "ok"

\* int64 additions wrap around; comparisons come in the order that avoids it.
Wrap(n) == IF n > MaxInt THEN n - 2 * (MaxInt + 1) ELSE n
(* mutant: does not look whether the end of the window fits *)
GoIntervalUnguarded(d) ==
  /\ d.duration > 0 /\ d.duration <= MaxDuration
  /\ d.start >= 0
  /\ d.start % d.duration = 0
  /\ d.from >= d.start /\ d.to >= d.from
  /\ d.to - d.start <= d.duration
  /\ d.emitted >= d.to
GoInterval(d) ==
  /\ d.duration > 0 /\ d.duration <= MaxDuration
  /\ d.start >= 0
  /\ d.start <= MaxInt - d.duration
  /\ d.start % d.duration = 0
  /\ d.from >= d.start /\ d.to >= d.from
  /\ d.to <= Wrap(d.start + d.duration)
  /\ d.emitted >= d.to

\* A value that does not fit its type, wherever it is, is an UnmarshalTypeError;
\* decoding goes on to the end and returns the first error.  Null and a "-0" for
\* a signed integer fit.
Misfit(d) == d.odd \cap {"fraction", "unsigned_minus_zero", "wrong_type", "data_type"} # {} \/ Beyond(d)

\* With a block in the document, a value that does not fit is laid to its range.
GoEnvelope(d) ==
  IF Misfit(d) /\ ~("bad_base64" \in d.odd /\ d.base64First)
  THEN IF d.present THEN "range" ELSE "summary"
  ELSE IF "bad_base64" \in d.odd THEN "summary"
  ELSE IF "go" \in d.refusedBy THEN "usage"
  ELSE IF d.version # 1 \/ d.sequence = 0 \/ d.sequence > MaxInt \/ ~d.identifiers \/ ~GoInterval(d) \/ d.counter > MaxInt
       THEN "summary"
  ELSE IF d.from = d.to /\ d.counter # 0 THEN "summary"
  ELSE "ok"
-----------------------------------------------------------------------------
\* What the payloads are judged with; sound and plain are for the properties.
Kept(d) == [canonical |-> d.canonical, zeroLength |-> d.from = d.to, usage |-> d.present,
            sound |-> d.odd = {} /\ Integers(d) \subseteq 0..MaxInt /\ PyInterval(d),
            plain |-> d.odd = {} /\ ~Beyond(d)]

IntakeInit ==
  /\ JsonInit /\ WireInit
  /\ stage = "scan"
  /\ facts = [canonical |-> FALSE]
  /\ verdict = [py |-> "ok", go |-> "ok"]

Scan == /\ stage = "scan" /\ JsonNext
        /\ UNCHANGED <<stage, facts, verdict, wire>>

\* The scan returns; its frames are gone.
Returned(s) == IF s.out = "ok" THEN [Start("ok") EXCEPT !.present = s.present] ELSE s
Scanned ==
  /\ stage = "scan" /\ ~Reading
  /\ py' = Returned(py)
  /\ go' = Returned(go)
  /\ verdict' = [py |-> py.out, go |-> go.out]
  /\ stage' = IF "ok" \in {py.out, go.out} THEN "envelope" ELSE "read"
  /\ unicode' = IF stage' = "read" THEN unicode ELSE "good"
  /\ UNCHANGED <<facts, wire>>

\* The decoder builds the envelope and its validation begins.  The document is
\* what was scanned: it has a block where one was seen, and an integer too long
\* for int() fits no type of Go.
Validated(d) ==
  /\ verdict.py = "ok" => d.present = py.present
  /\ verdict.go = "ok" => d.present = go.present
  /\ verdict.py = "digits" => Misfit(d)
  /\ verdict' = [py |-> IF verdict.py = "ok" THEN PyEnvelope(d) ELSE verdict.py,
                 go |-> IF verdict.go = "ok" THEN GoEnvelope(d) ELSE verdict.go]
  /\ facts' = Kept(d)
  /\ stage' = IF "ok" \in {verdict'.py, verdict'.go} THEN "payload" ELSE "read"
  /\ UNCHANGED <<py, go, unicode, wire>>
ReadEnvelope == stage = "envelope" /\ \E d \in Document : Validated(d)

GrowPayload == stage = "payload" /\ Grow /\ UNCHANGED <<stage, facts, verdict, py, go, unicode>>

\* The payload is parsed and compared with what its sketch would write, then
\* the document with what the envelope would write.
Judged(v, good, k) ==
  IF v # "ok" THEN v
  ELSE IF good /\ (facts.zeroLength => EmptyState(State(Decoded(wire), k))) /\ facts.canonical
       THEN "accepted" ELSE "summary"

ReadPayload(k) ==
  /\ stage = "payload"
  /\ verdict' = [py |-> Judged(verdict.py, PyPayload(wire, k), k), go |-> Judged(verdict.go, GoPayload(wire, k), k)]
  /\ stage' = "read"
  /\ UNCHANGED <<facts, py, go, unicode, wire>>

IntakeNext ==
  \/ Scan
  \/ Scanned
  \/ ReadEnvelope
  \/ GrowPayload
  \/ \E k \in Kinds : ReadPayload(k)

Spec == IntakeInit /\ [][IntakeNext]_intakeVars
-----------------------------------------------------------------------------
(* Both languages accept the same documents.  What they accept has integers  *)
(* of 63 bits only, lies in its window by unbounded arithmetic, has a sketch *)
(* for which no time is too short, and was seen by has_model_usage as what   *)
(* it is.  Whether a document that was scanned fails for its model usage     *)
(* depends on the language only where a value is odd or does not fit Go's    *)
(* type: with a block in the document Go lays every such misfit to it, a     *)
(* negative sequence or a number for a name included, and Python does so     *)
(* with fractions and "-0" only, with a block or without.                    *)
UsageReason == {"range", "usage"}
Accepted == verdict.py = "accepted"
SameIntake ==
  stage = "read" =>
    /\ Accepted = (verdict.go = "accepted")
    /\ Accepted => facts.sound /\ facts.canonical
    /\ Accepted => \A k \in Kinds : PyPayload(wire, k) /\ facts.zeroLength => EmptyState(State(Decoded(wire), k))
    /\ Accepted => HasModelUsage(py) = (IF facts.usage THEN "present" ELSE "absent")
    /\ (verdict.go \in UsageReason) # (verdict.py \in UsageReason) => ~facts.plain
=============================================================================

-------------------------- MODULE MC_SummaryIntake --------------------------
(* A small instance of SummaryIntake for TLC. *)
EXTENDS SummaryIntake, SketchTables

CONSTANTS micro, small, user, foreign

(* Objects of one or two required members; one model besides the reserved  *)
(* name, of the two names offered, and a string that names no model.       *)
MCShape ==
  [root |-> {"counters", "version"}, extension |-> {"models"}, row |-> {"histogram", "requests"},
   bin |-> {"reported", "complete"}, reported |-> {"requests"}, cohort |-> {"requests"},
   payload |-> {"kind"}, fields |-> {"input"}, field |-> {"tokens"}, excluded |-> {"x"},
   provenance |-> {"input"}, origin |-> {"unknown"}]
MCFree == [counters |-> 1, sketches |-> 1, models |-> 2]
MCLimit == [k \in DOMAIN MCShape |-> IF k = "root" THEN 3 ELSE Cardinality(MCShape[k])] @@ MCFree
MCOffered ==
  [k \in DOMAIN MCLimit |->
     CASE k = "root" -> {"counters", "version", "model_usage", "stranger"}
       [] k = "models" -> {"m1", "m2", "other", "m?"}
       [] k \in {"counters", "sketches"} -> {"m1"}
       [] k = "row" -> {"histogram", "requests", "fields"}
       [] OTHER -> MCShape[k]]

(* One envelope that is right and whatever differs from it in one or two   *)
(* of the facts that belong together; odd values alone and in pairs.       *)
MCGood == [odd |-> {}, canonical |-> TRUE, base64First |-> FALSE, present |-> FALSE, refusedBy |-> {},
           identifiers |-> TRUE, version |-> 1, sequence |-> 1, counter |-> 1,
           start |-> 4, duration |-> 2, from |-> 4, to |-> 6, emitted |-> 6]
MCVerdicts(o) == IF o \cap {"wrong_type", "null"} = {} THEN {{}, {"py", "go"}} ELSE SUBSET {"py", "go"}
MCOddities ==
  UNION {{[MCGood EXCEPT !.odd = o, !.canonical = FALSE, !.base64First = f, !.present = p,
                         !.refusedBy = IF p THEN r ELSE {}, !.duration = d] :
            f \in IF "bad_base64" \in o THEN BOOLEAN ELSE {FALSE}, p \in BOOLEAN, r \in MCVerdicts(o), d \in {2, 8}} :
         o \in {{x, y} : x, y \in Oddity} \cup {{}}}
MCIntervals == {[MCGood EXCEPT !.start = s, !.duration = d, !.from = a, !.to = b, !.emitted = e] :
                  s \in {-2, 0, 4, 6, 8}, d \in {-1, 0, 2, 3, 4}, a \in {-2} \cup 3..8, b \in 3..8, e \in {4, 7, 8}}
MCDocument ==
  {[MCGood EXCEPT !.present = TRUE, !.refusedBy = r] : r \in {{}, {"py", "go"}}}
    \cup {[MCGood EXCEPT !.version = v, !.sequence = n, !.counter = c, !.identifiers = i, !.present = p] :
            v \in {0, 1, 8}, n \in {-1, 0, 1, 8, 16}, c \in {-1, 0, 7, 8, 16}, i \in BOOLEAN, p \in BOOLEAN}
    \cup {[MCGood EXCEPT !.to = 4, !.counter = c] : c \in {0, 1}}
    \cup MCOddities \cup MCIntervals

MCProfiles ==
  << (micro :> [shape |-> <<2, 3>>, room |-> 2, size |-> 4, keys |-> 8, rank |-> 1] @@ small :> [shape |-> <<3, 4>>, room |-> 1, size |-> 8, keys |-> 16, rank |-> 1]),
     (micro :> [shape |-> <<2>>, room |-> 2, size |-> 0, keys |-> 0, rank |-> 0] @@ small :> [shape |-> <<3>>, room |-> 3, size |-> 0, keys |-> 0, rank |-> 0]),
     (micro :> [shape |-> <<12, 2>>, room |-> 0, size |-> 2, keys |-> 0, rank |-> 0] @@ small :> [shape |-> <<13, 2>>, room |-> 0, size |-> 3, keys |-> 0, rank |-> 0]),
     (micro :> [shape |-> <<2>>, room |-> 2, size |-> 0, keys |-> 0, rank |-> 0] @@ small :> [shape |-> <<3>>, room |-> 3, size |-> 0, keys |-> 0, rank |-> 0]) >>
MCCaps == <<20, 20, 8, 8>>
MCWireLimit == <<40, 40, 40, 40>>

(* Headers that are right, headers that override one field of another, and *)
(* bodies in canonical and in odd forms.                                   *)
MCHeaders == {ToHeader([kind |-> k, profile |-> micro, domain |-> user, mode |-> IF k = HLLPP THEN 1 ELSE k + 1]) : k \in Kinds}
MCOverrides == {Message(1, <<f>>) : f \in {Scalar(6, 2), Text(4, foreign), Scalar(20, 3), Field(99, 3, 0, <<>>)}}
                 \cup {Message(1, <<Text(4, foreign), Scalar(21, 9)>>)}
MCBodies ==
  {Message(10, <<Entry(0, 1, 0)>>),
   Message(10, <<Entry(3, 1, 0), Entry(3, 2, 0)>>),
   Message(10, <<Bytes(2, 4, 0, 0)>>),
   Message(11, <<Entry(5, 2, 0), Scalar(2, 2)>>),
   Message(11, <<Entry(6, 3, 1), Scalar(3, 1), Scalar(2, 4)>>),
   Message(12, <<Bytes(1, 2, 0, 1), Scalar(2, 1)>>),
   Message(12, <<Scalar(2, 0), Bytes(1, 2, 0, 0)>>),
   Message(13, <<Words(<<9, 9>>)>>),
   Message(13, <<Field(1, FIXED64, 8, <<3>>), Words(<<9>>), Scalar(2, 1)>>),
   Message(10, <<[Entry(0, 1, 0) EXCEPT !.body = <<Field(5, 4, 0, <<>>)>>]>>)}
MCOdd == {Scalar(10, 7), Scalar(99, 1), Scalar(600000000, 1), Field(1, 6, 0, <<>>)}
(* The longest messages only in documents without a model usage that are   *)
(* canonical and observed for some time; one field where the document has  *)
(* another form and is refused in any case.                                *)
MCBound ==
  stage = "payload" =>
    /\ facts.usage \/ facts.zeroLength => Len(wire) <= 2
    /\ ~facts.canonical => Len(wire) <= 1

(* The tables of the code satisfy what the models ask of their constants.  *)
Real == INSTANCE SummaryIntake WITH
          Shape <- SHAPES, FreeLimit <- FREE_LIMITS, Limit <- LIMITS, MaxModels <- 5000, Bins <- 4,
          Profiles <- PROFILES, Registered <- REGISTERED_DOMAINS, Caps <- CAPS, WireLimit <- CAPS,
          MaxMessages <- 4096, MaxEntries <- MAX_ENTRIES
ASSUME RealTables ==
  /\ Real!TablesAssumption
  /\ Real!ProfilesAssumption

MCFragment == MCHeaders \cup MCOverrides \cup MCBodies \cup MCOdd
=============================================================================

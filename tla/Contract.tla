------------------------------ MODULE Contract ------------------------------
(***************************************************************************)
(* contract_id and classify_model of model_usage.py, and ContractID and    *)
(* ClassifyModel of contract.go: the settings under which a producer names *)
(* models, the identifier two producers compare, and what the settings say *)
(* of a model.  A digest is modelled by what it is computed from: equal    *)
(* digests are equal preimages.                                            *)
(***************************************************************************)
EXTENDS Naturals, Sequences, SequencesExt

CONSTANTS
  Text,         \* the strings that are valid UTF-8
  Replacement,  \* what encoding/json writes for one that is not
  PublicId,     \* the strings IsPublicID takes
  Accounting,   \* the accounting ids of the right form
  RequestModel, \* "gen_ai.request.model"
  MaxSlices,    \* 5000: MAX_MODELS
  Absent        \* no value for from_resource_attributes

is_public_id(name) == name \in PublicId
Unmapped == "__unmapped__"
Classifications == {"", "__overflow__", "__missing__", "__too_long__"}

\* Settings: the account, the model map as <<observed, public>> pairs in the
\* order they were written, the router, its slice limit and its slices.
Keys(map) == {pair[1] : pair \in Range(map)}
ValueOf(map, key) == (CHOOSE pair \in Range(map) : pair[1] = key)[2]
\* The checks of the two on the slices, and the slices with the policy filled in.
NamesUnique(slices) == \A i, j \in DOMAIN slices : slices[i].name = slices[j].name => i = j
SelectsModel(c) ==
  /\ \E i \in DOMAIN c.slices : c.slices[i].name = c.selected
  /\ \A i \in DOMAIN c.slices : c.slices[i].name = c.selected => c.slices[i].keys = <<RequestModel>>
NoPolicy(slice) == slice.from \in {Absent, <<>>}
Resolved(slices) ==
  [i \in DOMAIN slices |-> IF NoPolicy(slices[i]) THEN [slices[i] EXCEPT !.from = slices[i].keys] ELSE slices[i]]
Names(c) == {c.selected} \cup Keys(c.map)
              \cup UNION {{s.name} \cup Range(s.keys) \cup (IF s.from = Absent THEN {} ELSE Range(s.from)) :
                            s \in Range(c.slices)}

\* canonical_config: sorted, escaped and encoded, settings that differ are
\* written differently; a string that is not UTF-8 cannot be written at all.
\* encoding/json would write a replacement for it.
Encodable(strings) == strings \subseteq Text
Written(s) == IF s \in Text THEN s ELSE Replacement
AllWritten(list) == [i \in DOMAIN list |-> Written(list[i])]
Preimage(c) ==
  [accounting |-> c.accounting, router |-> c.router, limit |-> c.limit, selected |-> Written(c.selected),
   map |-> {<<Written(pair[1]), pair[2]>> : pair \in Range(c.map)},
   slices |-> [i \in DOMAIN c.slices |->
                 LET s == Resolved(c.slices)[i]
                 IN [name |-> Written(s.name), keys |-> AllWritten(s.keys), from |-> AllWritten(s.from)]]]

\* Python asks for every member of a slice, and meets a string that is not
\* UTF-8 only when it writes the preimage.
PyContract(c) ==
  IF c.accounting \notin Accounting \/ (\E pair \in Range(c.map) : ~is_public_id(pair[2]))
       \/ c.router # "inactive-lru-v1"
    THEN [error |-> "structure"]
  ELSE IF c.limit \notin 1..MaxSlices THEN [error |-> "range"]
  ELSE IF \/ ~NamesUnique(c.slices) \/ ~SelectsModel(c)
          \/ \E i \in DOMAIN c.slices : c.slices[i].from = Absent
          \/ ~Encodable(Names(c))
    THEN [error |-> "structure"]
  ELSE [error |-> "none", id |-> Preimage(c)]

\* Go looks at every string before it lets json.Marshal replace any.
GoChecks(c) ==
  /\ c.accounting \in Accounting /\ c.router = "inactive-lru-v1" /\ c.limit \in 1..MaxSlices
  /\ \A pair \in Range(c.map) : is_public_id(pair[2])
  /\ NamesUnique(c.slices) /\ SelectsModel(c)
(* mutant: the strings are not looked at *)
GoContractUnread(c) ==
  IF ~GoChecks(c) THEN [error |-> "structure"] ELSE [error |-> "none", id |-> Preimage(c)]
GoContract(c) ==
  IF ~GoChecks(c) \/ ~Encodable(Names(c)) THEN [error |-> "structure"]
  ELSE [error |-> "none", id |-> Preimage(c)]

\* The router's verdict on a model, if it has one, goes before the map.
PyClassify(observed, map, verdict) ==
  IF verdict \notin Classifications THEN "refused"
  ELSE IF verdict # "" THEN verdict
  ELSE LET name == IF observed \in Keys(map) THEN ValueOf(map, observed) ELSE Unmapped
       IN IF name = Unmapped \/ is_public_id(name) THEN name ELSE "refused"

GoClassify(observed, map, verdict) ==
  IF verdict \notin Classifications THEN "refused"
  ELSE IF verdict # "" THEN verdict
  ELSE IF observed \notin Keys(map) THEN Unmapped
  ELSE IF is_public_id(ValueOf(map, observed)) THEN ValueOf(map, observed) ELSE "refused"
=============================================================================

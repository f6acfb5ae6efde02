------------------------------- MODULE Identity -------------------------------
(***************************************************************************)
(* Two producers, one in Python and one in Go, that must give one thing    *)
(* one name: a text its canonical bytes and keyed hash, a set of settings  *)
(* its contract id, an observed model its public id.  A text is written a  *)
(* character at a time; settings are written for one producer and copied   *)
(* for the other, who may then change them.                                *)
(***************************************************************************)
EXTENDS Canon, KeyedHash, Contract, TLC

CONSTANTS
  Domain,     \* domains a caller asks for
  Environment, Name, \* what a producer is started in, and the variable it reads
  Alphabets,  \* the sets of characters a text is written in
  MaxText,    \* characters in a text
  Settings,   \* settings that have no slices and no map yet
  ObservedModel, \* names of models, written in maps and seen by producers
  PublicName, \* values of maps
  Slice,      \* slices that may be configured
  MaxSlice, MaxMap, \* slices and names in one producer's settings
  MaxDrift    \* changes the second producer makes

\* A keyed hash is taken of a text's bytes; here a character is one.
TypedAssumption == UNION Alphabets \subseteq Byte
ASSUME TypedAssumption

\* Settings and slices have the members that the code gives them.
Slices == [name : STRING, keys : Seq(STRING), from : {Absent} \cup Seq(STRING)]
SettingsAssumption ==
  /\ \A c \in Settings :
       c = [accounting |-> c.accounting, map |-> <<>>, router |-> c.router,
            limit |-> c.limit, selected |-> c.selected, slices |-> <<>>]
  /\ Slice \subseteq Slices /\ Absent # <<>>
ASSUME SettingsAssumption

VARIABLES text, config, peer, drift
identityVars == <<text, config, peer, drift>>

IdentityInit ==
  /\ text = <<>> /\ drift = 0
  /\ config \in Settings /\ peer = config

\* Canonicalize: any text at all.
Type(c) ==
  /\ Len(text) < MaxText /\ config.map = <<>> /\ config.slices = <<>>
  /\ \E alphabet \in Alphabets : Range(text) \cup {c} \subseteq alphabet
  /\ text' = Append(text, c)
  /\ UNCHANGED <<config, peer, drift>>

\* The settings of both, while they are one file.
Configure(to) ==
  /\ text = <<>> /\ drift = 0
  /\ config' = to /\ peer' = to
  /\ UNCHANGED <<text, drift>>
Map(name, public) ==
  /\ Len(config.map) < MaxMap /\ name \notin Keys(config.map)
  /\ Configure([config EXCEPT !.map = Append(@, <<name, public>>)])
Add(slice) ==
  /\ Len(config.slices) < MaxSlice
  /\ Configure([config EXCEPT !.slices = Append(@, slice)])

\* The second producer's own changes.
Change(to) ==
  /\ text = <<>> /\ drift < MaxDrift
  /\ peer' = to /\ drift' = drift + 1
  /\ UNCHANGED <<text, config>>
Reorder ==
  \/ Change([peer EXCEPT !.map = Reverse(@)])
  \/ Change([peer EXCEPT !.slices = Reverse(@)])
Rename(i, name) == Change([peer EXCEPT !.map[i][1] = name])
Reassign(i, public) == Change([peer EXCEPT !.map[i][2] = public])
Replace(i, slice) == Change([peer EXCEPT !.slices[i] = slice])

IdentityNext ==
  \/ \E c \in UNION Alphabets : Type(c)
  \/ \E name \in ObservedModel, public \in PublicName : Map(name, public)
  \/ \E slice \in Slice : Add(slice)
  \/ Reorder
  \/ \E i \in DOMAIN peer.map, name \in ObservedModel \ Keys(peer.map) : Rename(i, name)
  \/ \E i \in DOMAIN peer.map, public \in PublicName : Reassign(i, public)
  \/ \E i \in DOMAIN peer.slices, slice \in Slice : Replace(i, slice)

IdentitySpec == IdentityInit /\ [][IdentityNext]_identityVars
-----------------------------------------------------------------------------
(* A text is one identity in both languages: it gets the same canonical    *)
(* form, by Python's detour around classes that its unicodedata does not   *)
(* have, and for one secret and domain the same keyed hash or the same     *)
(* refusal; Go, where a refused secret leaves a value behind, never hashes *)
(* under it.                                                               *)
SameIdentity ==
  \A profile \in {"text_v1", "other"} :
    LET py == PyCanonicalize(profile, text)
        go == GoCanonicalize(profile, text)
    IN /\ py = go
       /\ py.error = "none" =>
            \A env \in Environment, name \in Name, domain \in Domain :
              LET secret == SecretFromEnv(name, env)
                  hash == GoDigest(secret, domain, go.form)
              IN IF secret.error = "none"
                   THEN /\ hash = PyDigest(secret, domain, py.form)
                        /\ hash.error = "none" => domain \in Registry /\ hash.key \notin Placeholders
                   ELSE hash.error # "none"

(* What is canonical stays as it is: the form has no carriage return and   *)
(* no white space at its ends, never more non-starters in a row than the   *)
(* limit, and is its own canonical form.                                   *)
CanonicalForm ==
  LET form == PyCanonical(text)
      marks == FlattenSeq([i \in DOMAIN form |-> Nfkd[form[i]]])
  IN /\ PyCanonical(form) = form
     /\ \A i \in DOMAIN form : form[i] # CR
     /\ form # <<>> => form[1] \notin White /\ form[Len(form)] \notin White
     /\ \A i \in 1 .. Len(marks) - Limit : \E j \in i .. i + Limit : ~Nonstarter(marks[j])

(* Texts that a reader cannot tell apart are one identity: decomposed or   *)
(* composed, marks of different classes in either order, one newline or    *)
(* another, padded or not.  A joiner stays where it was put, so only texts *)
(* that need none are compared.                                            *)
NoJoiner(t) == StreamSafe(t) = t
Swapped(t, i) == [t EXCEPT ![i] = t[i + 1], ![i + 1] = t[i]]
Unixed(t) == FlattenSeq([i \in DOMAIN t |-> IF t[i] = LF /\ (i = 1 \/ t[i - 1] # CR) THEN <<CR, LF>> ELSE <<t[i]>>])
SameToAReader ==
  {Decompose(text), Nfc(text, Ccc), Unixed(text), <<CR, LF>> \o text, text \o <<CR>>}
    \cup {Swapped(text, i) : i \in {n \in 1 .. Len(text) - 1 :
            Ccc[text[n]] # 0 /\ Ccc[text[n + 1]] # 0 /\ Ccc[text[n]] # Ccc[text[n + 1]]}}
EquivalentTextsAgree ==
  \A other \in SameToAReader :
    NoJoiner(text) /\ NoJoiner(other) => PyCanonical(other) = PyCanonical(text)

(* Two different pairs of domain and canonical text have two different     *)
(* messages: a keyed hash never mixes up domains, whatever the texts are.  *)
MessagesSeparate ==
  \A d1, d2 \in Registry, i, j \in 0..Len(text) :
    LET b1 == SubSeq(text, i + 1, Len(text))
        b2 == SubSeq(text, j + 1, Len(text))
    IN Message(d1, b1) = Message(d2, b2) => d1 = d2 /\ b1 = b2

(* The two languages take the same settings and give them one id, except   *)
(* that Go reads a policy that is not there as an empty one.  Only the     *)
(* slice limit has a reason of its own, in Python.                         *)
Filled(c) == [c EXCEPT !.slices = [i \in DOMAIN c.slices |->
                IF c.slices[i].from = Absent THEN [c.slices[i] EXCEPT !.from = <<>>] ELSE c.slices[i]]]
SettingsAgree ==
  /\ GoContract(peer) = GoContract(Filled(peer))
  /\ PyContract(Filled(peer)).error # "range" => PyContract(Filled(peer)) = GoContract(peer)
  /\ PyContract(peer).error \in {"none", "range"} => PyContract(peer) = PyContract(Filled(peer))

(* Equal ids are equal settings: what was written in another order is the  *)
(* same for a map and not for slices, and two producers with one id give   *)
(* every model the same name and read every slice from the same places.    *)
IdBinds ==
  LET mine == PyContract(config)
      theirs == GoContract(peer)
  IN mine.error = "none" /\ theirs.error = "none" =>
       (mine.id = theirs.id <=>
          /\ \A name \in ObservedModel : PyClassify(name, config.map, "") = GoClassify(name, peer.map, "")
          /\ Keys(config.map) = Keys(peer.map)
          /\ Resolved(config.slices) = Resolved(peer.slices))

(* Under settings that were taken, a model has one name in both languages, *)
(* whatever its producer's router said: a public id or a reserved name.    *)
ClassificationTotal ==
  PyContract(config).error = "none" =>
    \A name \in ObservedModel, verdict \in Classifications :
      /\ PyClassify(name, config.map, verdict) = GoClassify(name, config.map, verdict)
      /\ PyClassify(name, config.map, verdict) \in PublicId \cup (Classifications \ {""}) \cup {Unmapped}

(* A contract id stands for the settings: producers with one id name every *)
(* model alike, in either language.                                        *)
SameContract == SettingsAgree /\ IdBinds /\ ClassificationTotal
=============================================================================

----------------------------- MODULE MC_Identity -----------------------------
(* A small instance of Identity for TLC: the few characters that each rule *)
(* of the tables needs, and settings that differ in a place each.          *)
EXTENDS Identity

(* acute and dot are marks of classes 230 and 220, new220 and new230 marks *)
(* that unicodedata does not have; three composites; a vowel sign that     *)
(* composes backwards; a mark that decomposes into two and one that is     *)
(* spacing and decomposes into a space and a mark.                         *)
MCCcc == [c \in {"a", "a1", "a2", "a21", "av", "vowel", "space", "CR", "LF", "CGJ", "spacing", "stray"} |-> 0]
           @@ [c \in {"acute", "twice", "new230"} |-> 230] @@ [c \in {"dot", "new220"} |-> 220]
MCDecompositions ==
  "a1" :> <<"a", "acute">> @@ "a2" :> <<"a", "dot">> @@ "a21" :> <<"a", "dot", "acute">>
    @@ "av" :> <<"a", "vowel">> @@ "twice" :> <<"acute", "acute">>
MCNfd == MCDecompositions @@ [c \in DOMAIN MCCcc |-> <<c>>]
MCNfkd == "spacing" :> <<"space", "acute">> @@ MCNfd
MCComposite == <<"a", "acute">> :> "a1" @@ <<"a", "dot">> :> "a2" @@ <<"a2", "acute">> :> "a21" @@ <<"a", "vowel">> :> "av"
MCAlphabets ==
  {{"a", "acute", "dot", "new220", "new230", "a1"}, {"a", "vowel", "new230", "twice", "a2"},
   {"a", "space", "CR", "LF", "acute", "spacing"}, {"a", "acute", "stray"}}
MCByte == DOMAIN MCCcc \cup {"NUL"}
MCEnvironment ==
  {[SECRET |-> value] : value \in {<<>>, <<"k">>, <<"d", "v">>, <<"k", "y">>}}
MCPlaceholders == {<<"d", "v">>}
MCDomain == {<<"a">>, <<"a", "a">>, <<"b">>}
MCRegistry == {<<"a">>, <<"a", "a">>, <<"a", "acute">>}

MCSettings ==
  {[accounting |-> a, map |-> <<>>, router |-> r, limit |-> n, selected |-> s, slices |-> <<>>] :
     <<a, r, n, s>> \in {<<"books", "inactive-lru-v1", 1, "model">>, <<"books", "inactive-lru-v1", 0, "model">>,
                         <<"books", "inactive-lru-v1", 1, "?">>,
                         <<"b ks", "inactive-lru-v1", 1, "model">>, <<"books", "lru", 1, "model">>}}
MCSlice ==
  {[name |-> "model", keys |-> <<"request">>, from |-> f] : f \in {Absent, <<>>, <<"request">>, <<"bad">>, <<"?">>}}
    \cup {[name |-> "bad", keys |-> <<"request">>, from |-> <<>>], [name |-> "?", keys |-> <<"request">>, from |-> <<>>]}
    \cup {[name |-> "model", keys |-> <<"request", "user">>, from |-> <<>>],
          [name |-> "user", keys |-> <<"user">>, from |-> <<>>],
          [name |-> "user", keys |-> <<>>, from |-> <<"user">>]}

(* Texts are written beside one of the settings, and settings have two     *)
(* slices, or two names, or one and one.                                   *)
MCBound ==
  /\ text # <<>> => config.accounting # "books"
  /\ Len(config.map) + Len(config.slices) <= 2
=============================================================================

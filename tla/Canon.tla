-------------------------------- MODULE Canon --------------------------------
(***************************************************************************)
(* The canonical form of a text: canon.py on a Python whose Unicode tables *)
(* may be one version behind, and canon.go on tables that are not.  A text *)
(* is a sequence of characters; what the Unicode tables say of them is a   *)
(* constant of the model.                                                  *)
(***************************************************************************)
EXTENDS Naturals, Sequences, FiniteSets, SequencesExt

CONSTANTS
  Nfd,       \* canonical decomposition of each character
  Nfkd,      \* compatibility decomposition
  Ccc,       \* canonical combining class
  Composite, \* the characters that pairs <<starter, character>> compose to
  Backward,  \* characters of class 0 that compose with the one before them
  MissingCcc, \* marks whose class unicodedata does not have: _MISSING_CCC
  White,     \* white space, CR and LF included
  CR, LF, CGJ,
  InvalidChar, \* what is no character: a lone surrogate, a stray byte
  Limit      \* 30: characters in a row that are no starters

Char == DOMAIN Ccc

\* A mark without a class is no part of any pair and decomposes into itself.
TablesAssumption ==
  /\ DOMAIN Nfd = Char /\ DOMAIN Nfkd = Char
  /\ MissingCcc \cup InvalidChar \subseteq Char
  /\ \A c \in MissingCcc : Ccc[c] # 0 /\ Nfd[c] = <<c>> /\ Nfkd[c] = <<c>>
  /\ \A pair \in DOMAIN Composite : pair[1] \notin MissingCcc /\ pair[2] \notin MissingCcc
  /\ \A c \in White \cup {CGJ} : Ccc[c] = 0 /\ Nfd[c] = <<c>> /\ c \notin Backward
  /\ {CR, LF} \subseteq White /\ Limit \in Nat \ {0}
ASSUME TablesAssumption
-----------------------------------------------------------------------------
\* Normalization form C for given classes: decompose; put every run of marks
\* in the order of their classes, marks of one class keeping theirs; compose
\* each character with the last starter unless one between them blocks it.
Decompose(text) == FlattenSeq([i \in DOMAIN text |-> Nfd[text[i]]])

Ordered(text, ccc) ==
  LET InRun(i, j) == \A k \in i..j : ccc[text[k]] # 0
      Place(i) == i + Cardinality({j \in i..Len(text) : InRun(i, j) /\ ccc[text[j]] < ccc[text[i]]})
                    - Cardinality({j \in 1..i : InRun(j, i) /\ ccc[text[j]] > ccc[text[i]]})
  IN [p \in DOMAIN text |-> text[CHOOSE i \in DOMAIN text : Place(i) = p]]

Composed(text, ccc) ==
  LET Next(sofar, c) ==
        LET s == SelectLastInSeq(sofar, LAMBDA d : ccc[d] = 0)
            blocked == \E k \in s + 1 .. Len(sofar) : ccc[sofar[k]] >= ccc[c]
        IN IF s # 0 /\ ~blocked /\ <<sofar[s], c>> \in DOMAIN Composite
           THEN [sofar EXCEPT ![s] = Composite[<<sofar[s], c>>]]
           ELSE Append(sofar, c)
  IN FoldLeft(Next, <<>>, text)

Nfc(text, ccc) == Composed(Ordered(Decompose(text), ccc), ccc)

\* unicodedata knows the classes of an older Unicode; x/text knows all.
StdlibCcc == [c \in Char |-> IF c \in MissingCcc THEN 0 ELSE Ccc[c]]
StdlibNfd(text) == Ordered(Decompose(text), StdlibCcc)
StdlibNfc(text) == Nfc(text, StdlibCcc)
-----------------------------------------------------------------------------
\* _nfc.  The first loop inserts a mark behind those of its run that have no
\* larger class; the run begins at segment.
Insert(acc, c) ==
  LET after == {p \in acc.segment .. Len(acc.out) : \A q \in p + 1 .. Len(acc.out) : Ccc[acc.out[q]] > Ccc[c]}
      at == IF Ccc[c] = 0 THEN Len(acc.out) ELSE CHOOSE p \in after : \A q \in after : p <= q
  IN [out |-> InsertAt(acc.out, at + 1, c), segment |-> IF Ccc[c] = 0 THEN at + 1 ELSE acc.segment]
Reordered(text) == FoldLeft(Insert, [out |-> <<>>, segment |-> 0], StdlibNfd(text)).out

\* The second loop composes pairs that unicodedata composes.  previous is the
\* class of the character before, 0 right behind the starter.
(* mutant: a mark of the same class does not block *)
AttachUnblocked(acc, c) ==
  LET pair == StdlibNfc(<<acc.out[acc.starter], c>>) IN
  IF acc.starter # 0 /\ (acc.previous <= Ccc[c] \/ acc.previous = 0) /\ Len(pair) = 1
  THEN [acc EXCEPT !.out[acc.starter] = pair[1]]
  ELSE [out |-> Append(acc.out, c),
        starter |-> IF Ccc[c] = 0 THEN Len(acc.out) + 1 ELSE acc.starter,
        previous |-> Ccc[c]]
Attach(acc, c) ==
  LET pair == StdlibNfc(<<acc.out[acc.starter], c>>) IN
  IF acc.starter # 0 /\ (acc.previous < Ccc[c] \/ acc.previous = 0) /\ Len(pair) = 1
  THEN [acc EXCEPT !.out[acc.starter] = pair[1]]
  ELSE [out |-> Append(acc.out, c),
        starter |-> IF Ccc[c] = 0 THEN Len(acc.out) + 1 ELSE acc.starter,
        previous |-> Ccc[c]]
Recomposed(text) == FoldLeft(Attach, [out |-> <<>>, starter |-> 0, previous |-> 0], text).out

PyNfc(text) ==
  IF \A i \in DOMAIN text : text[i] \notin MissingCcc
  THEN StdlibNfc(text) ELSE Recomposed(Reordered(text))
-----------------------------------------------------------------------------
\* _nonstarter_counts: the compatibility decomposition counts.
Nonstarter(c) == Ccc[c] # 0 \/ c \in Backward
Leading(c) == SelectInSeq(Append(Nfkd[c], CGJ), LAMBDA d : ~Nonstarter(d)) - 1
(* mutant: counts the character, not what it decomposes into *)
TrailingOfItself(c) == IF Nonstarter(c) THEN 1 ELSE 0
Trailing(c) == Len(Nfkd[c]) - SelectLastInSeq(Nfkd[c], LAMBDA d : ~Nonstarter(d))

\* _stream_safe_nfc puts a joiner, which is a starter, where a run of
\* non-starters would become too long.
WithJoiner(acc, c) ==
  LET full == acc.count + Leading(c) > Limit
      count == IF full THEN 0 ELSE acc.count
  IN [out |-> (IF full THEN Append(acc.out, CGJ) ELSE acc.out) \o <<c>>,
      count |-> IF Leading(c) # 0 THEN count + Leading(c) ELSE Trailing(c)]
StreamSafe(text) == FoldLeft(WithJoiner, [out |-> <<>>, count |-> 0], text).out

\* CR LF and CR become LF; then white space goes at both ends.
(* mutant: CR first, so that CR LF is two newlines *)
NewlinesFoldedTwice(text) == [i \in DOMAIN text |-> IF text[i] = CR THEN LF ELSE text[i]]
NewlinesFolded(text) ==
  FlattenSeq([i \in DOMAIN text |->
    IF text[i] = CR THEN <<LF>> ELSE IF text[i] = LF /\ i > 1 /\ text[i - 1] = CR THEN <<>> ELSE <<text[i]>>])
Stripped(text) ==
  LET Inner(c) == c \notin White
      first == SelectInSeq(text, Inner)
  IN IF first = 0 THEN <<>> ELSE SubSeq(text, first, SelectLastInSeq(text, Inner))

\* _canonicalize_text_v1 and canonicalizeTextV1.
PyCanonical(text) ==
  PyNfc(StreamSafe(Stripped(NewlinesFolded(PyNfc(StreamSafe(text))))))
GoCanonical(text) ==
  Nfc(StreamSafe(Stripped(NewlinesFolded(Nfc(StreamSafe(text), Ccc)))), Ccc)

\* canonicalize and CanonicalizeString: what is not text has no form.
Checked(profile, text, form) ==
  IF profile # "text_v1" THEN [error |-> "unsupported"]
  ELSE IF \E i \in DOMAIN text : text[i] \in InvalidChar THEN [error |-> "invalid"]
  ELSE [error |-> "none", form |-> form]
PyCanonicalize(profile, text) == Checked(profile, text, PyCanonical(text))
GoCanonicalize(profile, text) == Checked(profile, text, GoCanonical(text))
=============================================================================

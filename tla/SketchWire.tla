------------------------------ MODULE SketchWire ------------------------------
(***************************************************************************)
(* A sketch as bytes: the scan that both languages make before they let    *)
(* protobuf decode a message (_proto.py, wirebounds), the decoding, the    *)
(* ordered checks of parse / fromProto, and the canonical bytes written by *)
(* marshal_binary.  A message is a sequence of wire fields; it grows by    *)
(* any field, so that it may hold several headers, bodies of several kinds *)
(* of which protobuf keeps the last, and fields no schema knows.           *)
(***************************************************************************)
EXTENDS Naturals, Sequences, FiniteSets, SequencesExt, TLC

CONSTANTS Profiles,    \* by kind and profile: shape in the header, room for entries, size in bytes,
                       \* and, for HLL++, sparse indexes (keys) and the largest sparse rank
          Registered,  \* the registered hash domains
          NoName,      \* the empty string
          Caps,        \* by kind: bytes that all bodies of the kind may take
          WireLimit,   \* by kind: bytes of a message the kind's parser accepts
          MaxMessages, \* 4096: headers and bodies
          MaxEntries,  \* 4096: entries of all HLL++ and frequent-items bodies
          MaxWord,     \* the word of an unset signature position
          Fragment,    \* the fields of this instance's messages
          MaxFields    \* bound of the instance: fields in a message

VARIABLE wire  \* the message

\* SketchKind; the body of kind k is field 9 + k of a message.
HLLPP == 1
FREQUENT_ITEMS == 2
BLOOM == 3
MINHASH == 4
Kinds == 1..4
BodyOf(k) == 9 + k

WIRE_VERSION == 1
HMAC_SHA256_64 == 1
Modes(k) == IF k = HLLPP THEN {1, 2} ELSE {k + 1}

\* Field numbers in the header of the shape of each kind.
ShapeNumbers == << <<20, 21>>, <<22>>, <<23, 24>>, <<25>> >>

ProfilesAssumption ==
  /\ DOMAIN Profiles = Kinds
  /\ \A k \in Kinds : \A p \in DOMAIN Profiles[k] :
       Profiles[k][p] \in [shape : Seq(Nat \ {0}), room : Nat, size : Nat, keys : Nat, rank : Nat]
  /\ \A k \in Kinds : Caps[k] \in Nat /\ WireLimit[k] \in Nat
  /\ {MaxMessages, MaxEntries, MaxFields, MaxWord} \subseteq Nat
ASSUME ProfilesAssumption
-----------------------------------------------------------------------------
(***************************************************************************)
(* Fields: number, wire type, bytes of payload (the tag takes one more),   *)
(* value, and the fields in it if it is a message.  Types 0, 1, 2 and 5    *)
(* are values, 3 and 4 delimit groups, 6 is an invalid or truncated field. *)
(* The value of a string of bytes is its length, the number of registers   *)
(* or bits in it that its reader rejects and the number that are set; that *)
(* of an entry is key, weight and error; that of packed words the words.   *)
(***************************************************************************)
VARINT == 0
FIXED64 == 1
BYTES == 2
Field(num, type, len, val) == [num |-> num, type |-> type, len |-> len, val |-> val, body |-> <<>>]
Scalar(num, n) == Field(num, VARINT, 1, <<n>>)
Text(num, name) == Field(num, BYTES, 1, <<name>>)
Bytes(num, size, bad, set) == Field(num, BYTES, size, <<size, bad, set>>)
NoBytes == <<0, 0, 0>>
Entry(key, weight, error) == Field(1, BYTES, 2, <<key, weight, error>>)
Words(words) == Field(1, BYTES, Len(words), words)

\* _varint and its callers move past a field and its payload.
SizeOf(fields) == SumFunction([i \in DOMAIN fields |-> fields[i].len + 1])
Message(num, fields) == [Field(num, BYTES, SizeOf(fields), <<>>) EXCEPT !.body = fields]

IsHeader(f) == f.num = 1 /\ f.type = BYTES
IsBody(f) == f.num \in 10..13 /\ f.type = BYTES
IsEntry(f) == f.num = 1 /\ f.type = BYTES

\* _no_groups / noGroups follow the messages of the schema: headers, bodies
\* and the entries of HLL++ and frequent-items bodies.
Passed(f, limit) == f.num \in 1..limit /\ f.type \in {0, 1, 2, 5}
NoGroups(data, limit) ==
  \A i \in DOMAIN data :
    /\ Passed(data[i], limit)
    /\ IsHeader(data[i]) \/ IsBody(data[i]) =>
         \A j \in DOMAIN data[i].body :
           /\ Passed(data[i].body[j], limit)
           /\ data[i].num \in {10, 11} /\ IsEntry(data[i].body[j]) =>
                \A n \in DOMAIN data[i].body[j].body : Passed(data[i].body[j].body[n], limit)

\* _entry_count / entryCount of one body; groups were refused before.
EntryCount(f) == Cardinality({j \in DOMAIN f.body : IsEntry(f.body[j])})

\* The counts of the walk only grow: the checks on its way are those at its end.
BodiesOf(data, b) == SelectSeq(data, LAMBDA f : IsBody(f) /\ f.num = BodyOf(b))
(* mutant: the body that survives is the only one counted *)
EntriesOfSurvivor(data) ==
  LET i == SelectLastInSeq(data, IsBody)
  IN IF i # 0 /\ data[i].num \in {10, 11} THEN EntryCount(data[i]) ELSE 0
Entries(data) ==
  SumFunction([i \in DOMAIN data |-> IF IsBody(data[i]) /\ data[i].num \in {10, 11} THEN EntryCount(data[i]) ELSE 0])
Bounded(data, k, limit) ==
  /\ SizeOf(data) <= WireLimit[k]
  /\ NoGroups(data, limit)
  /\ \A b \in Kinds : SizeOf(BodiesOf(data, b)) <= Caps[b]
  /\ Cardinality({i \in DOMAIN data : IsHeader(data[i]) \/ IsBody(data[i])}) <= MaxMessages
  /\ Entries(data) <= MaxEntries

\* Go's tag reader lets numbers above protobuf's own limit pass.
MaxValidNumber == 536870911
MaxTagNumber == 2147483647
PyBounded(data, k) == Bounded(data, k, MaxValidNumber)
GoBounded(data, k) == Bounded(data, k, MaxTagNumber)
-----------------------------------------------------------------------------
(***************************************************************************)
(* Protobuf.  Several occurrences of a message are decoded like one with   *)
(* their fields in a row; in a oneof an occurrence of another member       *)
(* clears what was read; fields with an unknown number or another wire     *)
(* type are skipped; absent scalars are 0 or "".  The absent string of     *)
(* bytes has no bytes.                                                     *)
(***************************************************************************)
LastVal(fields, num, type, default) ==
  LET i == SelectLastInSeq(fields, LAMBDA f : f.num = num /\ f.type = type)
  IN IF i = 0 THEN default ELSE fields[i].val
Number(fields, num) == LastVal(fields, num, VARINT, <<0>>)[1]
Name(fields, num) == LastVal(fields, num, BYTES, <<NoName>>)[1]

Vals(fields) == [i \in DOMAIN fields |-> fields[i].val]
Contents(messages) == FlattenSeq([i \in DOMAIN messages |-> messages[i].body])

HeaderFields(data) == Contents(SelectSeq(data, IsHeader))

\* The last kind of body, and its occurrences since another kind was met.
LastBody(data) == LET i == SelectLastInSeq(data, IsBody) IN IF i = 0 THEN 0 ELSE data[i].num
BodyFieldsOf(data) ==
  LET cleared == SelectLastInSeq(data, LAMBDA f : IsBody(f) /\ f.num # LastBody(data))
  IN Contents(SelectSeq(SubSeq(data, cleared + 1, Len(data)), IsBody))

EntriesOf(fields) == Vals(SelectSeq(fields, IsEntry))
WordsOf(fields) == FlattenSeq(Vals(SelectSeq(fields, LAMBDA f : f.num = 1 /\ f.type \in {FIXED64, BYTES})))

Decoded(data) ==
  LET meta == HeaderFields(data)
      num == LastBody(data)
      body == BodyFieldsOf(data)
  IN [hasHeader |-> \E i \in DOMAIN data : IsHeader(data[i]),
      body      |-> num,
      kind      |-> Number(meta, 1),
      version   |-> Number(meta, 2),
      profile   |-> Name(meta, 3),
      domain    |-> Name(meta, 4),
      algo      |-> Number(meta, 5),
      mode      |-> Number(meta, 6),
      shape     |-> [k \in Kinds |-> [i \in DOMAIN ShapeNumbers[k] |-> Number(meta, ShapeNumbers[k][i])]],
      entries   |-> IF num \in {10, 11} THEN EntriesOf(body) ELSE IF num = 13 THEN WordsOf(body) ELSE <<>>,
      bytes     |-> IF num = 10 THEN LastVal(body, 2, BYTES, NoBytes)
                    ELSE IF num = 12 THEN LastVal(body, 1, BYTES, NoBytes) ELSE NoBytes,
      count     |-> IF num = 10 THEN 0 ELSE Number(body, 2),
      maxError  |-> IF num = 11 THEN Number(body, 3) ELSE 0]

\* Unmarshal and ParseFromString refuse field numbers out of range, in every
\* message of the schema.
ProtobufAccepts(data) == NoGroups(data, MaxValidNumber)
-----------------------------------------------------------------------------
(* parse and fromProto. *)
Rising(entries) == \A i, j \in DOMAIN entries : i < j => entries[i][1] < entries[j][1]

Present(m, k) == m.hasHeader /\ m.body = BodyOf(k)
HeaderAccepted(m, k) == m.kind = k /\ m.version = WIRE_VERSION /\ m.algo = HMAC_SHA256_64
ShapeAccepted(m, k) == m.shape[k] = Profiles[k][m.profile].shape
KeyingAccepted(m) == m.domain \in Registered

\* HLL++ looks at the representation last; the others look at it first.
EarlyMode(m, k) == k # HLLPP => m.mode \in Modes(k)

\* Whole registers of a legal rank; whole bytes and no padding bit set.
BytesAccepted(m, p) == m.bytes[1] = p.size /\ m.bytes[2] = 0

HllppAccepted(m, p) ==
  \/ /\ m.mode = 1
     /\ Len(m.entries) <= p.room
     /\ Rising(m.entries)
     /\ \A i \in DOMAIN m.entries : m.entries[i][1] < p.keys /\ m.entries[i][2] \in 1..p.rank
     /\ m.bytes[1] = 0
  \/ m.mode = 2 /\ BytesAccepted(m, p) /\ m.entries = <<>>

FrequentItemsAccepted(m, p) ==
  LET retained == SumFunction([i \in DOMAIN m.entries |-> m.entries[i][2] - m.maxError]) IN
  /\ m.maxError <= m.count
  /\ Len(m.entries) <= p.room
  /\ Rising(m.entries)
  /\ \A i \in DOMAIN m.entries :
       m.entries[i][3] = m.maxError /\ m.entries[i][2] > m.maxError /\ m.entries[i][2] <= m.count
  /\ retained <= m.count
  /\ m.maxError = 0 => retained = m.count

MinHashAccepted(m, p) ==
  Len(m.entries) = p.room /\ (m.count = 0 => \A i \in DOMAIN m.entries : m.entries[i] = MaxWord)

BodyAccepted(m, k) ==
  LET p == Profiles[k][m.profile] IN
  CASE k = HLLPP -> HllppAccepted(m, p)
    [] k = FREQUENT_ITEMS -> FrequentItemsAccepted(m, p)
    [] k = BLOOM -> BytesAccepted(m, p)
    [] k = MINHASH -> MinHashAccepted(m, p)

PyParse(data, k) ==
  LET m == Decoded(data) IN
  IF ~PyBounded(data, k) \/ ~ProtobufAccepts(data) THEN "wire"
  ELSE IF ~Present(m, k) \/ ~HeaderAccepted(m, k) \/ ~EarlyMode(m, k) THEN "wire"
  ELSE IF m.profile \notin DOMAIN Profiles[k] THEN "profile"
  ELSE IF ~ShapeAccepted(m, k) THEN "shape"
  ELSE IF ~KeyingAccepted(m) THEN "keying"
  ELSE IF ~BodyAccepted(m, k) THEN "wire" ELSE "accepted"

\* Go's HLL++ checks the hash domain before the precisions.
GoParse(data, k) ==
  LET m == Decoded(data) IN
  IF ~GoBounded(data, k) \/ ~ProtobufAccepts(data) THEN "wire"
  ELSE IF ~Present(m, k) \/ ~HeaderAccepted(m, k) \/ ~EarlyMode(m, k) THEN "wire"
  ELSE IF m.profile \notin DOMAIN Profiles[k] THEN "profile"
  ELSE IF k = HLLPP /\ ~KeyingAccepted(m) THEN "keying"
  ELSE IF ~ShapeAccepted(m, k) THEN "shape"
  ELSE IF ~KeyingAccepted(m) THEN "keying"
  ELSE IF ~BodyAccepted(m, k) THEN "wire" ELSE "accepted"
-----------------------------------------------------------------------------
\* What a sketch of kind k keeps of a decoded message.
State(m, k) ==
  [kind |-> k, profile |-> m.profile, domain |-> m.domain, mode |-> m.mode,
   entries |-> m.entries, bytes |-> m.bytes, count |-> m.count, maxError |-> m.maxError]

\* Protobuf writes no scalar and no string that has the default value.
Written(fields) == SelectSeq(fields, LAMBDA f : f.val[1] # 0)

ToHeader(s) ==
  Message(1, << Scalar(1, s.kind), Scalar(2, WIRE_VERSION), Text(3, s.profile), Text(4, s.domain),
                Scalar(5, HMAC_SHA256_64), Scalar(6, s.mode) >>
             \o [i \in DOMAIN ShapeNumbers[s.kind] |->
                   Scalar(ShapeNumbers[s.kind][i], Profiles[s.kind][s.profile].shape[i])])

(* mutant: forgets the error of an entry *)
FrequentItemsFieldsNoError(s) ==
  [i \in DOMAIN s.entries |-> Entry(s.entries[i][1], s.entries[i][2], 0)]
    \o Written(<<Scalar(2, s.count), Scalar(3, s.maxError)>>)
Lower(s, estimate) == IF estimate > s.maxError THEN estimate - s.maxError ELSE 0
Item(s, entry) == Entry(entry[1], entry[2], entry[2] - Lower(s, entry[2]))
FrequentItemsFields(s) ==
  [i \in DOMAIN s.entries |-> Item(s, s.entries[i])]
    \o Written(<<Scalar(2, s.count), Scalar(3, s.maxError)>>)
HllppFields(s) ==
  [i \in DOMAIN s.entries |-> Entry(s.entries[i][1], s.entries[i][2], 0)]
    \o Written(<<Bytes(2, s.bytes[1], s.bytes[2], s.bytes[3])>>)
BloomFields(s) == Written(<<Bytes(1, s.bytes[1], s.bytes[2], s.bytes[3]), Scalar(2, s.count)>>)
MinHashFields(s) == <<Words(s.entries)>> \o Written(<<Scalar(2, s.count)>>)

BodyFields(s) ==
  CASE s.kind = HLLPP -> HllppFields(s)
    [] s.kind = FREQUENT_ITEMS -> FrequentItemsFields(s)
    [] s.kind = BLOOM -> BloomFields(s)
    [] s.kind = MINHASH -> MinHashFields(s)

(* mutant: writes the body first *)
MarshalBodyFirst(s) == <<Message(BodyOf(s.kind), BodyFields(s)), ToHeader(s)>>
Marshal(s) == <<ToHeader(s), Message(BodyOf(s.kind), BodyFields(s))>>

(* mutant: does not ask whether it would be written so *)
PyPayloadParsed(data, k) == PyParse(data, k) = "accepted"
\* A payload of a summary must be the bytes its sketch would write.
PyPayload(data, k) == PyParse(data, k) = "accepted" /\ Marshal(State(Decoded(data), k)) = data
GoPayload(data, k) == GoParse(data, k) = "accepted" /\ Marshal(State(Decoded(data), k)) = data

\* Parsed.empty: what may be in a summary that observed no time.
EmptyState(s) ==
  CASE s.kind = HLLPP -> s.entries = <<>> /\ s.bytes[3] = 0
    [] s.kind = BLOOM -> s.count = 0 /\ s.bytes[3] = 0
    [] OTHER -> s.count = 0

\* The header that two payloads are compared by: Python decodes the canonical
\* bytes again, Go trusts that the writer has put the header first.
ContractOf(meta) == [n \in {1, 2, 5} |-> Number(meta, n)] @@ [n \in {3, 4} |-> Name(meta, n)]
PyMetadata(canonical) == <<ContractOf(HeaderFields(canonical)), Decoded(canonical).shape>>
GoMetadata(canonical) ==
  LET meta == canonical[1].body IN
  <<ContractOf(meta), [k \in Kinds |-> [i \in DOMAIN ShapeNumbers[k] |-> Number(meta, ShapeNumbers[k][i])]]>>
-----------------------------------------------------------------------------
WireInit == wire = <<>>
Grow == /\ Len(wire) < MaxFields
        /\ \E f \in Fragment : wire' = Append(wire, f)
-----------------------------------------------------------------------------
(* Whatever message a parser lets protobuf decode, the entries it builds for *)
(* every body it meets, those that a later one replaces included, stay       *)
(* within one budget for the message, the bytes of all bodies of a kind      *)
(* within the cap of the kind, and no group is recursed into.                *)
AllocationsBounded ==
  wire # <<>> => \A k \in Kinds :
    PyBounded(wire, k) \/ GoBounded(wire, k) =>
      LET Built(b) == SelectSeq(wire, LAMBDA f : f.num = BodyOf(b) /\ f.type = BYTES)
          All(b) == Contents(Built(b))
      IN /\ Len(EntriesOf(All(HLLPP))) + Len(EntriesOf(All(FREQUENT_ITEMS))) <= MaxEntries
         /\ \A b \in Kinds : SizeOf(All(b)) + Len(Built(b)) <= Caps[b]
         /\ \A b \in Kinds : \A i \in DOMAIN All(b) : All(b)[i].type \notin {3, 4}

(* Both languages accept the same bytes as a sketch of a kind, at most one   *)
(* kind, and name the same category of error; except that an HLL++ header    *)
(* with both a foreign domain and a wrong precision is a keying error in Go  *)
(* and a shape error in Python.  As payloads of a summary they accept the    *)
(* same bytes, too.                                                          *)
SameDecision ==
  wire # <<>> =>
  /\ \A k \in Kinds :
       /\ PyParse(wire, k) # GoParse(wire, k) =>
            k = HLLPP /\ PyParse(wire, k) = "shape" /\ GoParse(wire, k) = "keying"
       /\ PyPayload(wire, k) = GoPayload(wire, k)
  /\ Cardinality({k \in Kinds : PyParse(wire, k) = "accepted"}) <= 1

(* What was accepted, in whatever odd form, is written in a form that is     *)
(* accepted as a payload and read back as the same sketch.  Both languages   *)
(* compare the same header of it, though one decodes these bytes again,      *)
(* where headers are merged, and the other reads the first field.            *)
CanonicalStable ==
  wire # <<>> => \A k \in Kinds :
    PyParse(wire, k) = "accepted" =>
      LET s == State(Decoded(wire), k) IN
      /\ PyPayload(Marshal(s), k)
      /\ State(Decoded(Marshal(s)), k) = s
      /\ PyMetadata(Marshal(s)) = GoMetadata(Marshal(s))
=============================================================================

# A verification project for llm-sketchkit

llm-sketchkit counts traffic of language-model applications in mergeable
sketches. Every algorithm exists twice, in Python
(`src/python/llm_sketchkit`) and in Go (`src/go/sketchkit`), and the two
exchange bytes: what one writes the other must accept and understand. This
directory holds TLA+ modules that model the sketches, the identities they count,
the bytes and documents they travel in, and the exchange of summaries; TLC
configurations that check them on small instances; and TLAPS proofs of the
facts that matter most.

1. [Inventory](#1-inventory)
2. [Modules](#2-modules)
3. [Runs, bounds and what they show](#3-runs-bounds-and-what-they-show)
4. [Proofs](#4-proofs)
5. [The scope of `WireClosed`](#5-the-scope-of-wireclosed)
6. [What is not modelled](#6-what-is-not-modelled)
7. [Plan](#7-plan)

Run a check with `tlc -config Bloom.cfg MC_Bloom`, a proof with
`tlapm FamilyProofs.tla`. `PROJECT.json` lists the components, runs, theorems
and hazards, and maps every definition to the lines it models.

## 1. Inventory

| Part | State it keeps | Operations that change it | What makes it hard |
| --- | --- | --- | --- |
| Frequent-items sketch (`frequentitems.*`) | counters per hash, one shared `max_error`, `total_weight` | `add_hash`, `merge`, `clone`, `parse` | merges re-insert residuals one by one after the receiver was reset; self-merge; 64-bit limits of which only some are checked; a full map |
| its least-counter structure, Python | dict plus a `heapq` with stale pairs | `_set_counter`, `_peek_minimum`, `_remove_expired` | stale pairs that might become current again; growth of the heap |
| its least-counter structure, Go | slot pool, free list, map, heap of slots | `insertCounter`, `updateCounter`, `removeCounterAt`, sifting | recorded heap positions that go stale; slots lost or shared |
| HLL++ sketch (`hllpp.*`) | sparse registers, or dense ones after promotion | `add_hash`, `merge`, `force_dense`, `clone`, `parse` | promotion at a threshold by an update or a merge; conversion of ranks; mixed merges |
| Bloom filter (`bloom.*`) | bitset, `inserted_count` | `add_hash`, `merge`, `clone`, `parse` | the count at its limit; a refused insertion must leave nothing behind |
| MinHash sketch (`minhash.*`) | signature, `populated_count` | `add_hash`, `merge`, `clone`, `parse` | the initial value is also a legal hash value; the count at its limit |
| Summary combination (`summary.*`) | none: a pure function of a batch of documents | `combine` / `Combine` | order, repetition, restarts, partial coverage; errors in two-pass Python against one-pass Go; a reused decoded state |
| Model usage (`model_usage.py`, `modelusage/`) | rows of a block: counts, sums, extrema, histograms | `collect` / `AddAttempt`, `merge`, `validate`, `check_regression` | conservation laws over many fields; overflow; staged updates |
| Hash family (`hashfamily.*`) | none | `mix64`, seeded positions | its values must be as different as the hashes |
| Keying (`canon.*`, `hash.*`) | the secret of a process | `canonicalize`, `secret_from_env`, `digest64` | one language must repair a Unicode table the other has; runs of marks; domains that must not run together |
| Contract ids (`model_usage.py`, `contract.go`) | none | `contract_id`, `classify_model` | what is the same setting; two readings of a missing policy |
| Wire bounds and protobuf (`_proto.py`, `wirebounds`) | none | scan, decode, check, write | a message may hold several bodies and headers; what protobuf discards costs as much as what it keeps |
| Summary JSON bounds (`_summary_json.py`, `json_bounds.go`) | a stack of open objects | scan before decoding | checks in two orders; the reason given must not differ where callers act on it |
| HLL++ estimates (`hllpp.*`) | bias tables | `estimate` | thresholds; a sort that is not stable |
| Profiles (`profiles.*`) | constants | – | the limits must leave room for every profile |
| Generated code, tests, scripts | – | – | – |

Who calls whom: a caller canonicalizes a value and hashes it under a key
(`canon`, `hash`); the hash goes into sketches of one profile and one hash
domain. Sketches are merged within a process, or written with
`marshal_binary` and decoded by `parse` elsewhere. A producer puts counters,
sketches and a model-usage block into a summary document for one window and one
process start (an *epoch*), with a sequence number, and writes it anywhere; a
consumer parses the documents it finds and calls `combine`, which selects the
latest document of every epoch, merges their sketches and reports which
producers are missing or only partly covered.

The library has no threads, locks or timers of its own, and says that instances
are not to be shared between threads. What interleaves is the sequence of calls
on several instances, the exchange of bytes between two implementations, and
the arrival of documents. Failure means: a call refused, a call that raises
half way through, a document lost, late or repeated, a producer that crashed.

What makes each part correct:

- frequent items: the interval a query returns contains the true weight; the
  error obeys the Misra-Gries bound; the map keeps its size; the sketch can
  always be encoded; no error once a call passed its preliminary checks;
- both least-counter structures: they find the counter the algorithm means;
- HLL++, Bloom, MinHash: the state is a function of *what* was added, not of the
  order of updates, merges, promotions or decodings; counts never wrap; the
  bytes are accepted by the decoder;
- combination: succeeds exactly on consistent batches; each epoch counts once,
  with its latest document; alike in both languages; a result without gaps is
  exact, and no result overcounts;
- intake of a document: both languages accept the same ones, for the same
  reasons where a reason matters; nothing is built that was not bounded before;
  what was accepted is written back as it was;
- identity: one text has one canonical form and one keyed hash, one set of
  settings one contract id, in both languages, and different ones differ;
- estimates: never less than the registers that are occupied, and the same in
  both languages;
- model usage: a row is what its attempts say, whatever their order and owners;
  rows obey their conservation laws after any collection or merge; the
  validators of both languages agree; successive snapshots never regress.

## 2. Modules

| Module | Models | EXTENDS / INSTANCE |
| --- | --- | --- |
| `FrequentItems` | the algorithm both implementations share | – |
| `FrequentItemsLazyHeap` | the Python sketch with its lazily cleaned heap | implements `FrequentItems` |
| `FrequentItemsIndexedHeap` | the Go sketch with slots and indexed heap | implements `FrequentItems` |
| `Hllpp` | the HLL++ sketch | – |
| `CountedSketch` | what the next two share: instances, their count, when they may be merged | – |
| `Bloom`, `MinHash` | the other two sketches | `CountedSketch` |
| `HllppEstimate` | the estimate of an HLL++ sketch, in both languages | `Hllpp` |
| `HashFamily` | `mix64` and the values at each position | – |
| `SummaryCombine` | Python's and Go's `combine` as operators | – |
| `SummaryBatch` | every small batch, and what combining it means | `SummaryCombine` |
| `SummaryExchange` | producers, files and a consumer around it | `SummaryCombine` |
| `SummaryJson` | the two scans of a document's text | – |
| `SketchWire` | the bytes of a sketch: scan, decoding, `parse`, `marshal_binary` | – |
| `SummaryIntake` | a document on its way in: scan, envelope, payload | `SummaryJson`, `SketchWire` |
| `SketchTables` | profiles, caps, limits and shapes with their real values | – |
| `ModelUsage` | blocks of rows, their validators in both languages | – |
| `Canon` | canonicalization, with both normalizations | – |
| `KeyedHash` | secrets, and what a digest is computed from | – |
| `Contract` | contract ids and the classification of models | – |
| `Identity` | a Python and a Go producer that name the same things | `Canon`, `KeyedHash`, `Contract` |
| `FrequentItemsProofs`, `HllppProofs` | theorems | their component, `TLAPS` |
| `LazyHeapProofs`, `IndexedHeapProofs` | theorems | their heap, `TLAPS`; instantiate `FrequentItemsProofs` |
| `FamilyProofs` | theorems about the two sketches over a hash family | `Bloom`, `MinHash`, `TLAPS` |
| `SummaryProofs` | theorems | `SummaryIntake`, `SummaryBatch`, `SummaryExchange`, `TLAPS` |
| `ModelUsageProofs` | theorems: rows of models, and which producers name them alike | `ModelUsage`, `Identity`, `TLAPS` |
| `SumTheorems` | facts about sums over finite sets and folds from the left, used by the proofs | `Functions`, `TLAPS` |
| `MC_*` | the constants of the runs | their component |

Conventions. `Sketch` is the set of instances a caller holds; every action names
the instances it works on, and `Merge(s, s)` is a self-merge. `Keying[s]` stands
for profile, hash domain and algorithm, which merges compare. `MaxInt`,
`MAX_INT` and `MAX_UINT64` are the limits of the code's integers, small in the
runs. `truth`,
`seen` and `got` are history variables: they record what really happened and no
guard reads them. A definition whose comment begins with "mutant" is a wrong
variant of the one after it; the project's mutation runs put it in the place of
the right one and must then see a property fail. No other definition uses it.

### FrequentItems

`items[s]` maps every key to its estimate, 0 for a key without a counter;
`maxError` and `total` are the fields of those names. `AddHash` is `add_hash`
after its checks, `AddRefused` its error returns. `AddResidual` is
`_add_residual`, its three disjuncts the branches: the key has a counter, there
is room, or the map is full and `PruneAndStore` raises the error. `Store` is
where an estimate may leave the range: then the call fails and the instance
joins `failed`.

A merge is not one step. `MergeBegin` does all that comes before the loop:
checks, combination of the residuals of both sides, reset of the receiver.
`MergeStep` is one turn of the loop. `pending[s]` holds the residuals that the
loop has still to re-insert, and an invariant that speaks of all states speaks
of those in the middle of a merge, too. Between the steps no other call uses
that instance (`Usable`, `Idle`): one thread owns it. Nothing else in the system
depends on the interleaving with other instances, so allowing it only adds
states. Once begun, the loop goes on without further calls: hence the one
fairness assumption of the project, weak fairness of each instance's `MergeStep`
(`FairSpec`), for the property that a merge ends. An error in the loop leaves
the receiver with the new total and some of its counters, which is what the code
does; the caller then drops it.

`Received` holds bodies of other producers. The assumption about them is that
they *tell the truth* (their intervals contain the real weights), not that this
algorithm made them: the decoder accepts more than the algorithm can produce.

Keys are numbers since merges re-insert in hash order. Profile names, hash
domains and the protobuf encoding do not appear: `WireAccepts` is the list of
checks `parse` makes on decoded fields.

### The two least-counter structures

Both have the same actions as `FrequentItems`, and one variable per instance
holding a record with the fields of the class. `Abstract` instantiates
`FrequentItems` with the refinement mapping: an estimate is looked up in the
dict (Python) or through the slot of the map (Go), pending residuals are the
entries not yet visited. `Implements == Abstract!Spec` says that each step of
the detailed module is a step of `FrequentItems`: in particular, that each finds
the same minimum and expires the same counters. Internal errors of the code
("missing counter", a free list that is empty) would show as a step with no
counterpart.

In Python a bag of pairs stands for the `heapq`, whose internal layout no
caller sees. Its loops are written by what they end with: `Peeked` keeps the
pairs that are not before the least current one, since all others were popped
as stale, and `RemoveExpired` drops what lies up to the last current pair not
above the error. In Go the heap is the sequence of slots, sifted step by step,
because each slot records its own position in it. `Raised`, `Lowered` and
`WithoutExpired` are one turn each of the loops of `heapUp`, `heapDown` and
`removeExpired`; a loop is a fold of its turns over the slots of the heap, since
none takes more turns than there are slots, and a turn after the end of the loop
changes nothing.

### Hllpp, Bloom, MinHash

The actions are the methods; `*Refused` actions are the error returns.
`Receive` decodes a body the decoder accepts; `Clone` covers `clone` and a round
trip through the wire. In `Hllpp` a hash has `Width` bits and the precisions are
`P` and `SP`: all arithmetic on indices, remainders and ranks is done as in the
code, on small words. `Location` and `Family` are the values of the seeded hash
family at the hashes of an instance. What a count beyond its limit would do
(wrap, in Go) is part of the model (`% (MAX_UINT64 + 1)`), so that a missing check
would show. `CountedSketch` holds what `Bloom` and `MinHash` share; the actions of
`Bloom` carry its name, so that one module of proofs can extend both.

`HashFamily` is that family, with the width of a word, the shifts, the
multipliers and the seeds as constants; the instances of `Bloom` and `MinHash`
compute their positions with it, in words of 4 and 2 bits. `MinHash` needs that
no two hashes share a value at a position. `FinalizerAssumption`, that `mix64` is
injective, is evaluated by TLC for those words; for 64 bits it follows from the
odd multipliers and is assumed (`FamilyAssumption`) by the proofs, which know
nothing else of the family.

`HllppEstimate` adds the estimate to the states of `Hllpp`: linear counting, its
thresholds, the raw estimate and the bias taken from the six nearest entries of a
table. Numbers are thousandths in integers, the logarithm and the bias table are
constants. The additions, whose order `spec/profiles.md` (lines 46-52) prescribes,
are made one after another: the reciprocals in the order of the registers, the
biases in the order of their distance, and each sum is rounded to `Significand`
bits, to the nearest and of two equally near to the even one (`Plus`). Where two
entries are equally near, Python's stable sort decides the order (`PyOrder`) and
Go's `sort.Slice` may take either first (`GoOrders`): `GoEstimates` is the set of
what it may return. Quotients and products are cut off at a thousandth.

### SummaryCombine, SummaryBatch, SummaryExchange

A document is a record. Data is reduced to what combination distinguishes:
one counter and one sketch per document, since all are treated alike;
`contract` for everything the compatibility check compares; a sketch payload is
an identity and a weight, its merge fails when weights overflow, and a combined
sketch is the *sequence* of payloads merged, as frequent-items merges do not
commute on bytes. The model-usage block is folded into `contract` and `count`.

`PyCombine` and `GoCombine` keep the control flow of the two functions. Python
validates all documents in input order, sorts, selects, adds up, and hands the
decoded states of the last input to the first equal payload, which must not
happen twice since that object becomes the accumulator. Go sorts first and does
everything in one pass, adding an epoch up when the next begins and holding
back errors of that addition until the pass is over. Each phase is a fold over
the documents with a step of its own (`PySelect`, `PyAdd`, `PassStep`,
`Walked`). `Sorted` is any order that the comparison allows, since `sort.Slice`
may put equal documents either way; one choice serves both languages, and
the proofs use of it only that it is such an order. `Numbered` is what decoding
finds in any document, valid or not: numbers, and a weight that is not negative.

`SummaryBatch` builds up any batch of candidate documents, valid or not, one by
one (`batch`), and states what it means *without order*: `Combinable(D)` and
`IsResult(r, D)` are over the set of documents.

`SummaryExchange` puts producers around it, for one window: time passes
(`Work`), processes start (`StartProcess`) under a fresh epoch, `Crash` and lose what they had
not written, `Emit` cumulative snapshots. `sent` never shrinks and `Deliver`
takes any member of it, so files arrive in any order, late, repeatedly or not at
all. The producers are users of the library; that they follow the rules of
`src/spec/summary.md` (fresh epochs, increasing sequence numbers, cumulative
counts) is built into them, and the module is about what the consumer can then
rely on. Epochs are numbered by starts there, while real ones are unique strings in
no order; `combine` uses their order for sorting only, and the documents of run
`SummaryBatch` have epochs that run with time and against it. That the limit of the counters leaves room for one request per producer
and instant is an assumption (`RequestsAssumption`): beyond it, `combine` refuses
by design.

### ModelUsage

`block[o]` is the retained block of an owner: a row for each model name. An
attempt (`Observed`) has four observed components, or `None`, with quality flags
and two origins; `RowOf` is the row `collect` and `AddAttempt` stage for it,
`Reason` the order in which they decide why it is not counted as complete. The
rows have the nested fields of the code, so that the two validators `PyRow` and
`GoRow` can be written down law by law: where the languages check the same thing
in the same words one operator is shared (`FieldsConserved`, `OriginsConserved`,
...), where they compute differently there are two (`PyCohort` and `GoCohort`;
sums over the bins, unbounded in Python, checked for 64 bits in Go; extrema of
occupied bins against extrema joined bin by bin). `Collect` stages, validates,
adds and checks the sums; `CollectRefused` and `MergeRefused` leave everything
alone, which is what staging is for. Contracts are equal throughout; the
comparison of contracts is in `SummaryCombine`. `Regressed` is
`check_regression`. The history `behind` counts the attempts behind each row.

### SummaryJson, SketchWire, SummaryIntake

What a document of somebody else meets before anything is built from it.

`SummaryJson` reads a text token by token, both scans at once, each with the
stack of its open objects: the position in an object (`at`), the names seen, the
bins of a histogram. The next token is chosen freely, so the run covers every
text over the offered names, also those that one scan has already refused. The
two differ in ways that the property must tolerate and bound: Go checks a model
name before the colon and Python after it; Go looks for lone surrogates before it
begins; a text that is broken right behind the last model allowed is "too many
models" for Python and a malformed structure for Go; an integer of more than 4300
digits ends Python's scan with the `ValueError` of `int()`, and Go's, which keeps
numbers as text, reads on (token `"digits"`). Characters within a token
are not modelled; what is kept of them is that names are in quotation marks and
so are no punctuation marks (`NamesAssumption`), and that the member limit of an
object of models leaves room for every model and every reserved name, 5004 for
5000 + 4 in the code (`TablesAssumption`).

`SketchWire` is a message as a sequence of protobuf fields: headers in several
pieces, bodies of several kinds, unknown fields, groups, truncated fields.
`PyBounded` and `GoBounded` are the scans, `Decoded` what protobuf makes of the
fields (the last scalar wins, repeated messages are joined, another member of
the oneof clears the one before), `PyParse` and `GoParse` the checks in their
order, `Marshal` what is written back. Go's tag reader lets field numbers above
protobuf's limit pass, and its decoder then refuses them; its HLL++ parser checks
the domain before the precisions. Numbers are non-negative and strings are valid
UTF-8 in the model.

`SummaryIntake` puts the two into `Envelope.parse` and `Parse`: scan, validation
of the envelope, the payload, and the comparison with the canonical document. A
document is reduced to facts (`Facts`): its integers, negative ones included, what
is odd about it (`Oddity`: a fraction, a "-0", a value of the wrong type, null,
data that are no strict base64), whether a model-usage block is there and whose
validators refuse it. `PyEnvelope` and `GoEnvelope` take these in the order of each
language. Python refuses fractions and "-0" while it decodes, then bad data, then
the block, then the integers. Go decodes to the end and keeps the first error; if
that is a value which does not fit its type (`Misfit`) and a block was decoded, it
reports the block as out of range, whatever the value belonged to. Null and line
breaks in data fit. Go's interval check wraps around as `int64` does, Python's does
not. A few lines of the code turned out to be unreachable behind the scans and
have no definition: the checks of `summary.py` on a null `model_usage` and on
payloads that are no objects (156-157, 159-169), and the stacks for groups in both
wire scans, since groups were refused before. `_merge_payload` of `summary.py`
(373-401) has no caller.

`SketchTables` has the tables of the code with their real values, and an `ASSUME`
that the caps leave room for the largest sketch of every profile; the instance
assumes of the real tables what the modules ask of their constants.

### Canon, KeyedHash, Contract, Identity

`Canon` has normalization form C by its definition (decompose, order, compose),
for any table of classes; `x/text` and `unicodedata` are instances of it, the
latter with a table in which some marks are missing. `PyNfc` is the detour that
`canon.py` takes for those marks, with its own ordering and composition loops.
`StreamSafe`, `NewlinesFolded` and `Stripped` are the other passes. The tables
are constants of a dozen characters, one for each rule; the run has 2 for the
limit of 30 non-starters.

In `KeyedHash` a digest is modelled by what it is computed from, the secret and
the message, so equal digests are equal messages: collisions of HMAC-SHA256 are
left out. A secret that is not loaded, which Go can have, counts as empty.
`Contract` treats the digest of canonical JSON alike: `Preimage` is the settings
with sets where the code sorts and with `Replacement` where Go's encoder would
write one. `Identity` writes a text character by character, or settings for one
producer that the other copies and then changes in one place.

## 3. Runs, bounds and what they show

The properties are invariants, action properties, refinements, and one liveness
property, `MergeEnds`. Apart from a merge under way nothing in the library runs
by itself, and whether a file ever arrives is up to its users, so there is
nothing else to be fair to. Deadlock is checked in every run except
`SummaryBatch`, `SummaryExchange`, `SummaryIntake` and `Identity`, where a full
batch, the end of a window, a document that has been read or settings of full
size are the end of what the bounds allow.

| Run | States | Shows |
| --- | --- | --- |
| `FrequentItems` | 464 thousand | every property of the sketch, for all mixtures of calls |
| `LazyHeap`, `IndexedHeap` | 160 and 259 thousand | the two heaps implement the algorithm |
| `Hllpp` | 207 thousand | registers are order-free and encodable, estimates sound |
| `Bloom` | 120 thousand | nothing inserted is missed, refused calls leave nothing behind |
| `MinHash` | 25 thousand | signatures and the similarity estimate are exact |
| `SummaryBatch` | 31 thousand | combination of any batch of up to 4 of 13 documents |
| `SummaryExchange` | 1.7 million | honest producers with losses and restarts |
| `SummaryIntake` | 368 thousand | both languages take the same documents and the same bytes |
| `ModelUsage` | 15 thousand | rows, both validators and regression, until counters are full |
| `Identity` | 66 thousand | one text, one name; one set of settings, one contract |

**FrequentItems** (2 instances, 4 keys, 2 counters, range 0..6, weights -1..2).
Two keys more than counters makes pruning happen with the new key, with one and
with several expiring counters; the range is reached by sums of totals, so the
refusals happen. One received body has a full map and an error. `Bracket`: the
interval contains the truth. `ErrorBound`: each unit of error was paid by
`MapSize + 1` units of weight, with pending residuals included, and the total is
exact also after a self-merge. `HeavyKeysTracked`: a key above the guaranteed
share always has a counter. `WireClosed`: the decoder takes what the encoder
writes. `NoLateError`: the errors in the loop of `merge` cannot happen, so the
reset before the loop is harmless. `MergeEnds`: a merge that began ends with a
usable sketch.

**LazyHeap** (3 keys, 2 counters, range 0..6; heap limit 4 pairs) and
**IndexedHeap** (4 keys, 3 counters, range 0..5), two instances each with one
received body, so merges, self-merges and clones move heaps and slots between
instances. `HeapSound`: the current pair of each counter is in the heap exactly
once, the heap has at most twice the pairs of the map, and a pair once stale
never matches again. `SlotsConsistent`: map, slots, positions, heap order and
free list agree. `Implements`: see section 2. The instances have the same keying
and are interchangeable, hence the symmetry set.

**Hllpp** (3 instances, one of a different domain; words of 6 bits, precisions
1 and 3, threshold 2; 3 hashes, 5 bodies of which 2 are refused). The hashes
share a normal register, need the rank's offset or not, and one has nothing but
zeros after its index; all three together exceed the threshold, by updates as
well as by merges. `RegistersExact`: registers, and whether they are sparse,
depend only on what is behind the sketch, and ranks and counts stay acceptable.
`ConversionExact`: promotion at any time is exact, and every one of the 64
hashes converts exactly. `EstimateSound`: no estimate is below the number of
occupied registers, none of an empty sketch is above 0, and the languages agree,
unless one of the six entries of the bias table is as near as another entry: then
Python's estimate is one of those Go may give. Additions keep 6 bits and the
biases have as many, so most sums of the instance are rounded, and a sum that is
rounded once at its end (as Python's `sum()` does it) is a different one. The
exception occurs, with the sixth and the seventh entry (two orders of Go then give
two estimates) and with two of the six.

**Bloom**, **MinHash** (3 instances, one of a different domain; 3 hashes, counts
up to 4 and 3). The bodies include a full count and, for Bloom, bits with a count
of 0, which `parse` accepts. Hashes overlap in positions; two MinHash values are
the initial value of a signature. `BitsetExact`, `SignatureExact`: bits and
signatures are functions of what is behind the sketch. `CountCoversSeen`: the
count never wraps. `JaccardExact`: positions agree exactly where the least hash
of the union lies in the intersection, with the early returns for empty sketches
doing their part.

**SummaryBatch** (13 documents, batches of up to 4, in any order and with
repetitions). Documents: two snapshots of an epoch, a conflicting and a
regressed one, a restart with a gap, an empty one that closes it, a second
producer with a quiet and a busy snapshot and an overlapping epoch, an
unexpected producer, an invalid one, another contract and another window. Sums
reach the limit exactly, and exceed it by one, in counters and in payloads.
`OutcomeExact`: combination succeeds, in both languages, exactly on consistent
batches and with the result that the set of documents defines;
`SelectionErrorsFirst` states the comment of `summary.go` that errors of validation and selection precede every
counter or sketch merge error. Where a batch has several errors the two
implementations may report different ones; both fail.

**SummaryExchange** (2 producers, one of which may start twice; a window of 2
instants; a consumer with up to 3 files, one of them from the producer that starts
once, `MCBound`). `HonestAccepted`: combination never
fails. `NeverOvercounts`. `CompleteMeansExact`: if nothing is reported missing
or partial, every request of the window was counted; a crash that loses requests
always leaves a gap. `SourcesAdvance`: one more file never takes back what a
result had.

**SummaryIntake** (objects of one or two required members, one model besides the
reserved name, two bins; messages of up to 3 of 23 fields, two profiles per kind,
budgets of 3 messages and 3 entries; integers up to 7, a day of 3). Limits are met
exactly and exceeded; integers go from -2 to beyond the unsigned range, and odd
values come alone and in pairs, with and without a block. Messages of 3 fields
meet canonical documents without model usage, observed for some time, of 2 fields
all documents that can still be accepted (`MCBound`). `SameScan`: the scans
accept the same texts, but for those with an integer that `int()` refuses, and
blame an excess of models only where there is one.
`DepthBounded`: never more than seven containers. `AllocationsBounded`: what
protobuf builds, discarded bodies included, stays within the budgets.
`SameDecision`: one verdict and one category of error on bytes, but for the one
exception named above. `CanonicalStable`: what was accepted, in whatever odd
form, is written in the form that is accepted in a summary, and read back as it
was; and both languages compare the same header of it, though Python decodes the
bytes once more and Go reads the first field. `SameIntake`: the
same documents are accepted, also where only Go's scan let them pass, and what is
accepted is sound by unbounded arithmetic. The languages do not always give one
reason: a negative sequence or a number for a name in a document with a block is a
range error of the model usage for Go and a plain `SummaryError` for Python, and a
fraction in a document without one the other way round. What the property says is
that this happens with such values only: where nothing is odd and every integer fits
its type in Go, a scanned document fails for its model usage in both languages or
in neither.

**Identity** (texts of up to 5 characters in four alphabets; settings with up to
two slices and names in all, one change by the second producer). The alphabets
have what each rule needs: two classes of marks, marks that Python misses of both,
composites of composites, a mark that decomposes into two, a vowel sign that
composes backwards, a space that decomposes into a space and a mark, newlines of
both kinds, and an invalid character. `SameIdentity`: one canonical form and one
digest in both languages, or one reason for neither, and never under a placeholder
secret or in a domain that is not registered. `CanonicalForm`: the form is its
own form, keeps the limit on non-starters, has no carriage return and no white
space at its ends. `EquivalentTextsAgree`: decomposed, composed, reordered,
differently padded texts have one form, if none needs a joiner.
`MessagesSeparate`: the bytes hashed for two pairs of domain and text are
different. `SameContract`: the languages accept the same settings (a policy that
is absent is empty for Go and refused by Python; only Python has a reason of its
own for the slice limit), ids are equal exactly for producers that name every
model alike, and a model has one name in both languages.

**ModelUsage** (2 owners, 3 model names of which one is reserved and one of the
others fits, 8 attempts, range 0..4, tiers 0, 1-2, 3, 4). Owners collect until
three attempts are held in all (`MaxCollected`), and then merge, also with
themselves, until sums leave the range. The attempts cover each reason to be
excluded, two at once, two inputs in one tier, an input beyond the range and a
flag the row refuses; every reason for a refusal occurs (no room for a name, a
row scalar at its limit, a total over several rows at its limit). `RowsExact`:
requests, tokens, cohorts, tiers and exclusions are those of the attempts behind
the row, so that no attempt and no token is lost or counted twice.
`BlocksValid`: what was produced is valid in both languages.
`RefusedOnlyWhenFull`: a well-formed attempt is refused only for the block's
names or totals, never for one of the 70 scalars inside a row. `NeverRegresses`:
a block that grew is an acceptable successor. `SameVerdict`: the validators agree
about rows in which a scalar of an occupied bin and that of the row are off by
one. Owners are interchangeable, and so are the two names that need room.

## 4. Proofs

TLAPS proves the following for every value of the constants, given the named
assumptions of the modules, which TLC evaluates in the runs. They say that keys,
attempts and reserved names are finite sets, limits are naturals, map sizes are
positive, expected producers are a finite set of numbers, documents have numbers
where numbers belong, a window has an instant, counters can hold the requests of
an exchange, the family of hashes is injective, domains have no NUL, punctuation is
no name, settings and slices have the members the code gives them, and that
received bodies tell the truth.

Two families of theorems have a hypothesis besides.

- *Convertible* (`HllppProofs`): every hash has a fine register that converts
  into its normal one. Both registers are cut out of the hash with powers of two,
  which the prover does not reason about; `ConversionExact` checks it in the run
  for all 64 hashes.
- *ReceivedWithinBound* (`ErrorBoundCorrect` and the three after it, `ErrorBoundHolds`): the body
  of a peer keeps the Misra-Gries bound, and its total is the weight behind it.
  The bodies of run `FrequentItems` do. The decoder checks neither, so
  this is a hypothesis about the producer and not an assumption of the module;
  section 5 says what becomes of `WireClosed` without it.
  `TypeCorrect`, `BracketCorrect`, `QueryModesCorrect` and `MapBoundedCorrect`
  hold without it, as do the other theorems about the two heaps.

| Theorem | Says |
| --- | --- |
| `FrequentItemsProofs!TypeCorrect` | all amounts stay in range: the checks before a merge imply the additions the code does not check |
| `FrequentItemsProofs!BracketCorrect`, `QueryModesCorrect` | intervals and query modes are right, for truthful received bodies too |
| `FrequentItemsProofs!MapBoundedCorrect` | the map keeps its size; the error "no free counter" is unreachable |
| `FrequentItemsProofs!ErrorBoundCorrect` | the Misra-Gries bound: `MapSize + 1` units of weight per unit of error, also in the middle of a merge, and an exact total |
| `FrequentItemsProofs!HeavyKeysTrackedCorrect` | a key above the guaranteed share has a counter |
| `FrequentItemsProofs!WireClosedCorrect` | what is encoded is accepted by the decoder |
| `FrequentItemsProofs!NoLateErrorCorrect` | no error occurs once the receiver of a merge was reset |
| `LazyHeapProofs!HeapSoundCorrect` | the heap of the Python sketch has each counter's pair once and at most twice the map size of pairs: "missing counter" is unreachable |
| `LazyHeapProofs!ImplementsCorrect` | the Python sketch with its heap implements `FrequentItems` |
| `LazyHeapProofs!BracketHolds`, `QueryModesHold`, `ErrorBoundHolds` | so intervals, query modes and the Misra-Gries bound hold of it, and no call fails half way |
| `IndexedHeapProofs!SlotsConsistentCorrect` | map, slots, recorded positions, heap order and free list of the Go sketch always agree |
| `IndexedHeapProofs!ImplementsCorrect` | the Go sketch with its indexed heap implements `FrequentItems` |
| `IndexedHeapProofs!BracketHolds`, `QueryModesHold`, `ErrorBoundHolds` | the same of the Go sketch as of the Python one |
| `HllppProofs!RegistersCorrect`, `PromotionCorrect` | the two properties of the run: registers depend only on what is behind the sketch, promotion loses nothing |
| `FamilyProofs!NoFalseNegativesCorrect` | nothing inserted is missed |
| `FamilyProofs!BitsetCorrect`, `CountCorrect` | the two properties of the run |
| `FamilyProofs!SignatureCorrect`, `JaccardCorrect` | the two properties of the run |
| `FamilyProofs!WireCorrect` | every sketch can be encoded and decoded |
| `SummaryProofs!DepthCorrect` | no document nests deeper than the limit while it is scanned |
| `SummaryProofs!SameScanCorrect` | the property `SameScan`: the two scans accept the same texts, save those with an integer too long for `int()` |
| `SummaryProofs!SameParse`, `SameDecisionCorrect` | the two parsers give the same verdict on any bytes, save the one order of checks; the property `SameDecision` |
| `SummaryProofs!SameIntakeCorrect` | the property `SameIntake`: the same documents are accepted, and plain ones fail for the same kind of reason |
| `SummaryProofs!EnvelopeVerdicts` | the envelope checks of the two languages give documents of integers that fit their types the same reason, and none accepts another, at any width of the integers |
| `SummaryProofs!CombineMeans` | what combining any sequence of documents means, in both languages: accepted exactly if the set of them is `Combinable`, with the result `IsResult` says, and equal results |
| `SummaryProofs!OutcomeExactCorrect`, `SelectionErrorsFirstCorrect` | the two properties of run `SummaryBatch`, for batches of any length |
| `SummaryProofs!ExchangeInvCorrect` | the invariant of the exchange: the requests handled so far are a set, and every snapshot tells exactly the part of it that it observed |
| `SummaryProofs!HonestAcceptedCorrect` | what honest producers sent is accepted, whatever part of it arrives in whatever order |
| `SummaryProofs!NeverOvercountsCorrect`, `CompleteMeansExactCorrect` | no request is counted twice, and a result without gaps counts every one |
| `SummaryProofs!SourcesAdvanceCorrect` | the action property `SourcesAdvance`: one more file takes nothing back |
| `ModelUsageProofs!CohortVerdicts`, `RowVerdicts` | the validators of the two languages accept the same cohorts and the same rows |
| `ModelUsageProofs!VerdictsAgree` | the property `SameVerdict` of the run |
| `ModelUsageProofs!BlocksValidCorrect` | adding rows keeps every conservation law: each block is valid in both languages |
| `ModelUsageProofs!RowsExactCorrect` | a row is the sum of the attempts behind it, over whatever merges they came |
| `ModelUsageProofs!RefusedOnlyWhenFullCorrect` | bounding the totals of a block bounds every scalar in it |
| `ModelUsageProofs!NeverRegressesCorrect` | no step makes a block one that `check_regression` refuses as successor |
| `ModelUsageProofs!MessageIdentifies` | equal messages have one domain and one text |
| `ModelUsageProofs!MessagesAlwaysSeparate` | the property `MessagesSeparate` of the run |
| `ModelUsageProofs!SameContractCorrect` | the property `SameContract`: ids are equal exactly for producers that name every model alike |

*Frequent items.* `Bracket` alone is not inductive: during a merge the receiver
was reset and knows nothing of most keys. `Covered` adds what is pending to both
ends of the interval: lower bound plus pending at most the truth, upper bound
plus pending at least the truth. `Fresh` (every counter exceeds the error) makes
lower bounds additive when the error rises, and `TruthBounded` (no key weighs
more than the total) shows that the saturating addition of residuals never
saturates. The central lemma is `AddResidualEffect`: re-inserting a residual
`r` for `k` moves `k`'s lower bound up by at most `r`, its upper bound by at
least `r`, and widens all other intervals; there is one case per branch of
`_add_residual`. `MapBounded` follows from a second invariant, `Capacity`, with
the facts of the library on cardinalities: pruning removes at least the minimum,
so there is room again.

`ErrorBound` is a matter of accounts. `Charged` is what a sketch has spent:
`MapSize + 1` units of weight per unit of error, and the lower bounds it
retains. `Accounted` says that this and what is pending never exceed the total,
and equal it while the error is zero, which the decoder checks. The central lemma
is `AddResidualAccounts`: each branch of `_add_residual` charges exactly the
residual. A counter that grows or is stored retains it; pruning by the least
residual takes that much from each of the `MapSize` counters and from the new
one, which pays for the rise of the error. It needs `Capacity` (pruning happens
only with `MapSize` counters in the map) and `Fresh`. Where a merge begins, the
errors add up, what both sides retain becomes pending (`CombinedSum`), and totals
add up, too. The other three properties follow: a key without a counter weighs
at most the error (`HeavyKeysTracked`); a counter is at most the error and the
retained weight together, hence at most the total (`WireClosed`, and no
estimate leaves the range: `NoLateError`). Sums over keys are
those of the community modules, defined by folding in an order nobody fixed;
`SumTheorems` proves once, by induction over a *set* of naturals in place of a
predicate, that the order does not matter and that sums can be split, compared and
changed in one place.

*Lazy heap.* `HeapSound` is not inductive: it does not say which stale pairs lie
in the heap, and one that looks current would give a wrong minimum. `HeapHolds`
does: the pair of each counter is there once, and every other pair is below the
counter of its key or, if its key has none, not above the error. Estimates only
grow, and a counter that returns is stored above the error (`Fresh`), so a pair
of the past never becomes current again (`CurrentIs`, `NeverMissing`).
`SetCounterSound` treats a write, with the heap made anew when it outgrew twice
the map: that is at most the map size of pairs, one for each counter
(`RebuiltSize`). `PeekedKeeps` and `RemoveExpiredKeeps` say that popping loses
stale pairs and pairs of expired counters only (`StillSound`). That the least
current pair has the least estimate of the whole map is `LeastIs`.

For the refinement, `StoreIs`, `PruneIs` and `AddIs` say what the result of
`_add_residual` is in terms of `FrequentItems`, with dicts as functions on all
keys (`AllKeysIs`); then there is one lemma per action that gives both the
invariant and the action of `FrequentItems`. Merges need that the entries
still to be visited are positive (`Pendings`), since the loop of the specification
looks for residuals above 0. `Counters` is the same instance of `FrequentItems`
seen from the module of its proofs (`CountersNext`), so the theorems of
that module are cited rather than proved again.

*Indexed heap.* `Sound` says of one instance what `SlotsConsistent` does, in the
form the proof needs: the slots of the heap know their places (`Placed`) and are
those the map leads to (`Mapped`), all others are free, each once (`Spare`), and
the heap is in order. With `Fresh` and the types of the fields this is
`IndexedInv`. Sifting is treated in two parts. What it moves is of no consequence
to map and free list: `Rearranged` says what stays, and `SwapIs` that both
positions are recorded anew. What it orders is a matter of a relation between
positions and of nothing else: `OrderedBelow` and `OrderedAbove` allow one place to
be out of order, with its parent or with its children, and by `RaisedOrder` and
`LoweredOrder` a swap moves that place one level up or down. A loop is the sequence
of its turns (`RaiseFold`, `LowerFold`, `ExpireFold`, by induction over a set of
naturals); each turn that does anything gets closer to the root, closer to the
leaves or to a shorter heap, so the loop has ended after as many turns as there
are slots (`HeapUpIs`, `HeapDownIs`, `RemoveExpiredIs`). By `TopIsLeast` the top is
the least counter of all, so expiry that stops at the first live top leaves none
behind (`SettledIs`). An insert, a growing counter, a removal at the top and the
filling of a copy are then `InsertCounterIs`, `GrownIs`, `RemoveIs` and `FilledIs`;
the last needs that finitely many hashes can be put in order (`OrderExists`) and
that there are no more counters than slots, which `fromProto` checks. From there
the refinement goes as for Python.

*HLL++.* A register is the greatest rank among its sources: the hashes, and the
registers of bodies, that lie behind the sketch. `MaxExists` gives bounded sets of
naturals a greatest element, and `JoinUnion` makes the join of a union the join of
the joins, so that updates and merges of equal representations are pointwise.
The case that is not, promotion, is `PromotionJoins`: the place a fine register
converts to does not depend on its rank, and the rank it converts to grows with
it, hence converting the join is joining the conversions (`ConversionSpec`,
`DensifiedSpec`). The invariant calls every sketch `Good`: its registers are the
joins of its sources, and it is sparse only below the threshold; there is one
`Good...` lemma per action.

*Bloom and MinHash.* The history variables make "what is behind a sketch" a
state function. One module proves both; the proofs about `Bloom` use nothing of the
assumptions about the hash family. `BitsetExact` and `SignatureExact` are inductive with the type
invariant. Counts need cardinalities (Bloom) or `CountTells` (MinHash: a count
of 0 means nothing was added, unless a body claimed otherwise), and that is what
`JaccardExact` needs for the early returns. Its other half is a fact about least
values under an injective family.

*Intake.* For `DepthCorrect` each kind of object has a `Level`: the number of
objects that may be open around it. A child lies deeper than its parent
(`ChildDeeper`), so no frame is higher on the stack than its kind allows
(`Nested`); the array of a histogram adds one container and is open in rows only
(`Rows`).

`SameScan` has to relate two scans that are not in the same state. `SideBySide`
says how far apart they may be: in step (`InStep`), but that Go has entered a name when
Python has not seen the colon behind it; waiting (`Waiting`), when Go has refused
a name that Python will refuse at the colon; or done and agreed (`Agreed`); and nothing is claimed of Go once Python met an
integer that `int()` refuses. `KeysAgree`, `MembersAgree` and `ColonsAgree` take
one reader each. That equal texts have equal limits and shapes for both is
`ShapesAgree`, where Go's counting of members meets Python's comparison of sets,
and `FullModels`, where Go's limit on members meets Python's on names. `Blamed`
adds that who blames an excess of models saw one, `SurrogateInv` covers the texts
that Go refuses in advance.

`SameParse` takes the checks of the two parsers, in their two orders, to one
verdict; what they find in the decoded fields is the same on both sides, so it
holds for all fields and `SameDecision` needs no more of a state. `IntakeInv` puts
the parts together: what the verdicts are after the scan (`ScannedInv`, from
`SameScanCorrect`), after the envelope (`JudgedInv`, from `EnvelopeVerdicts`) and
after the payload (`SameParse`). A document that only Go's scan let pass has a value
that does not fit, so Go's decoder stops it.

`EnvelopeVerdicts` is about integers that could wrap around: Go checks
an interval in an order in which no addition leaves 64 bits, and Python, without a
limit, finds the same (`IntervalsAgree`). Python has one check that no integer is
negative; in Go the types and the interval amount to it (`SignedFits`).

*Combination.* `CombineMeans` holds for every finite sequence of documents, of
whatever length. It has to say what folds compute, and this prover cannot
instantiate an induction over sequences. `SumTheorems` therefore proves, by induction over
a *set* of naturals, that a fold from the left is the last of a sequence of
steps (`FoldExists`, `FoldSteps`), and each phase of each language becomes such
a sequence of steps (`ScanFold`, `SelectFold`, `AddFold`, `PassFold`,
`WalkFold`). `ArrangementExists` shows that finitely many positions can be
arranged in any order of the kind the code sorts by, so that `Sorted` chooses
one that exists (`InOrderIs`, `PartsIs`).

What a phase knows after `k` documents is then said of the *set* of these:

- Selection (`PySelectionMeans`, `GoPassMeans`): there is no error exactly if
  they are `Consistent`, and then the selected documents are the latest of each
  epoch, in order (`Lists`). The code compares a document with the one selected
  last, and the meaning with all others: `SelectionDecides` and
  `SelectionContinues` show that sorting makes the two the same, since the epoch
  of a new document is the last one or begins with it.
- Adding up (`RunTallies`): count and weight are the sums over the documents
  added, and the payloads those that weigh something, besides the first. Whether
  a limit is exceeded depends on no order since nothing added is negative.
  Go adds up the same documents while it selects (`HeldBack`), and Python's
  reuse of decoded states never makes a difference (`PyAddAgrees`): the
  accumulator is handed out at most once, when it is still nothing else.
- Coverage (`WalkMeans`): the walk over a producer's documents finds an overlap
  exactly if two of them overlap, and otherwise a gap exactly if some instant is
  not observed. It looks at neighbours only; that all others are apart, too, is
  in `WalkedTo`: the documents walked lie before the end of the last one.

`CombineUsable` and `CombineUnusable` put the phases of both languages together.
`OutcomeExact` and `SelectionErrorsFirst` follow for every batch.

*Exchange.* That the consumer never overcounts is no invariant of what the state
holds: a count of 3 does not say which requests were counted. `ExchangeInv`
claims that there is a set `B` of pairs of a producer and an instant
(`Recorded`) such that `handled` counts the members of each producer, a running
process counts those since it started, and a snapshot those of the interval it
observed. `SentRuled` is about any two snapshots: those of one epoch have one
start and grow with the sequence, those of two epochs of a producer do not
overlap, since a process starts where time has got to. There is one lemma per
action. By these, whatever arrived is `Combinable` (`HonestInputs`), and by
`CombineMeans` the result is the sum over latest documents; observed intervals
are disjoint, hence the sum is the cardinality of a part of `B`
(`SeenTogether`): at most what was handled, and all of it if nothing is missing
or partial. For `SourcesAdvance`, the sources are the latest of the inputs
(`SourcesAre`), and the latest of more inputs are the same or later
(`LatestAdvances`).

*Model usage.* Python bounds the sum of a cohort twice and adds the cache tokens
up; Go bounds it once, relying on a comment that the attainable extrema subsume
the other bounds, and subtracts. `BoundsSubsumed` is that comment, for all
integers, and `CohortVerdicts` the equivalence for any value a peer may send. For
a row, Python takes least and greatest over the occupied bins and adds numbers
without a limit, while Go adds the bins up cohort by cohort and refuses a sum that
leaves 64 bits on the way. `LeastOfBins`, `GreatestOfBins` and `CohortSums` show
both ways to give the same, once each cohort is valid; `ShapeInvariant` shows
that all rows of a block have the shape `RowVerdicts` asks for.

`BlocksValid` is inductive with the shapes of the rows once adding is known to
keep each law (`RowsStayValid`). Most laws are equations between sums and add up
term by term. The bounds of a cohort do not: a sum between n times the least and n
times the greatest stays so when extrema are joined (`CohortsStayValid`), and an
empty cohort must stay neutral. The histogram needs that joining the bins of two
rows and adding the rows are interchangeable (`Interchange`, `JoinedAdd`).
`RowsNeverRegress` shows of the same addition that no scalar shrinks and no
extremum moves inwards. `RefusedOnlyWhenFull` is about 70 scalars and the two
sums that are bounded before an attempt is taken: by the laws of a valid row, each
scalar is at most the requests or the tokens of the row (`ScalarsBounded`), these
are at most the totals of the block (`SumsInRange`), and a staged attempt passes
the checks of a row (`WellFormedStaged`). For `RowsExact`, `Exact` defines a row
from the number of times each attempt is behind it; a new row is exact for one
attempt (`RowOfExact`), and exact rows add up (`RowsStayExact`, `MergedExact`).

*Identity.* A registered domain has no NUL, so the first NUL of a message ends its
domain: were the domains of two equal messages of different length, the longer
one would have the NUL of the other message inside. The invariant needed is that
the text consists of bytes.

`ConfigInv` says what settings of two producers can look like: typed, no name
mapped twice, and equal but for maps and slices. `FilledSame` is that a missing policy is
an empty one for both, so both languages keep the same accepted settings, and
`PreimageFacts` that these are written as they are, nothing replaced. Hence ids
bind the settings (`IdsBind`), and settings decide what a model is called
(`Classified`): the classification a caller insists on, else the name in the
map, which is public, else "unmapped".

Only model-checked, and why:

- `MergeEnds`: liveness and ENABLED are out of reach of the prover.
- `AllocationsBounded`, `CanonicalStable`: what a scan, a decoder and an encoder
  compute from a sequence of nested fields. They select fields with `SelectSeq`,
  which is built into the prover without a definition it can expand and with no
  fact in its library, and they add up sizes over what was selected.
- `SameIdentity`, `CanonicalForm`, `EquivalentTextsAgree`: recursion over texts.
- `EstimateSound`, the conversion of a single hash and the bijectivity of `mix64`
  depend on tables and on powers of two; they are checked for small words.

## 5. The scope of `WireClosed`

No statement of the repository was found violated, so there is no run that
expects a violation. One boundary is worth knowing. `WireClosed`, that the
decoder takes whatever the encoder can be asked to write, is about sketches
which this library, in either language, built by updates and merges. The decoder
also takes bodies that no such history produces: with errors too large for what
they retain. Two of those may merge into a sketch with an estimate above its
total weight, which `marshal_binary` writes and `parse` rejects ("inconsistent
total weight"). The guarantees that `spec/profiles.md` (lines 79-82) lists for
merges still hold there: the intervals are right and `max_error` is their width
(`BracketCorrect`, `QueryModesCorrect`, which ask nothing of a body's producer).

## 6. What is not modelled

- **HMAC-SHA256 and the digest of contract ids**: collisions; redaction of secrets.
- **Data of tables**: Unicode (the models have tables of a few characters; both
  languages take Unicode 15.0 as the boundary) and the bias tables. Of the binary64
  arithmetic of the estimates only the additions are modelled, with few bits;
  products, quotients and the logarithm are not. The false-positive estimate of Bloom filters.
- **Characters within a JSON token, bytes within a protobuf field**: escapes,
  the digits of numbers, variable-length integers; negative integers and invalid
  UTF-8 in protobuf fields. Which model-usage values the two decoders leave behind
  where one is odd: the verdicts of the validators are free then (`refusedBy`).
- **Limits on the size of a batch**; the public `compatible`, whose comparison
  `combine` shares; several counters and sketches in one document of
  `SummaryCombine`.
- **Aliasing of Python and Go objects** below an instance (a returned row or
  slice that shares memory): variables of a model are values. **Data races**: the
  library does not support concurrent use of an instance.
- **Generated code, tests, benchmarks, scripts, examples**: not the library. The
  exchange example shaped the environment of `SummaryExchange`.

## 7. Plan

Done, in this order: `FrequentItems` with runs and proofs; the two heaps;
`Hllpp`, `Bloom`, `MinHash` with proofs; the three summary modules; `ModelUsage`
and the theorems about its validators; the intake of documents, with the theorems
about depth and envelopes; identities, with the theorem about messages; estimates
and the hash family.

Then theorems about what these runs check: the accounts of frequent items and
the four properties that follow from them; the laws of model usage under addition;
the agreement of the scans, of the parsers and of the whole intake; contracts;
what combining documents means, with batches and the exchange; the heaps of both
frequent-items sketches and their refinements.

What would come next: the conversion of a single hash, with lemmas
on powers of two; that the orders of the nearest entries agree unless two are equally
near; the budgets of `SketchWire`, with the meaning of its folds.

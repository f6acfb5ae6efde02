---------------------------- MODULE SketchTables ----------------------------
(***************************************************************************)
(* The tables of the code with their values, for the instances of the      *)
(* models to be compared with: profiles.py, the caps of _proto.py and the  *)
(* two tables of the members of a summary document.                        *)
(***************************************************************************)
EXTENDS Naturals, Sequences, FiniteSets, TLC

REGISTERED_DOMAINS ==
  {"prompt:v1", "user:v1", "tool:v1", "retrieval-doc:v1", "session:v1",
   "mcp-session:v1", "mcp-method:v1", "tool-error:v1"}

\* Precisions and promotion threshold; map sizes; bits and hashes; lengths.
HLLPP_PROFILES == [micro |-> <<12, 16, 2 ^ 8>>, small |-> <<14, 18, 2 ^ 10>>, default |-> <<15, 20, 2 ^ 11>>]
FREQUENT_ITEMS_MAP_SIZES == [micro |-> 256, small |-> 512, default |-> 1024]
BLOOM_PROFILES == [micro |-> <<143776, 10>>, small |-> <<1437759, 10>>, default |-> <<19170117, 13>>]
MINHASH_SIGNATURE_LENGTHS == [micro |-> 64, small |-> 128, default |-> 128, k256 |-> 256]

ByteLen(bits) == (bits + 7) \div 8

\* Header shape, entries, bytes, sparse indexes and largest sparse rank.
Row(shape, room, size, keys, rank) ==
  [shape |-> shape, room |-> room, size |-> size, keys |-> keys, rank |-> rank]
PROFILES ==
  << [p \in DOMAIN HLLPP_PROFILES |->
        LET c == HLLPP_PROFILES[p] IN Row(<<c[1], c[2]>>, c[3], 2 ^ c[1], 2 ^ c[2], 64 - c[2] + 1)],
     [p \in DOMAIN FREQUENT_ITEMS_MAP_SIZES |->
        LET n == FREQUENT_ITEMS_MAP_SIZES[p] IN Row(<<n>>, n, 0, 0, 0)],
     [p \in DOMAIN BLOOM_PROFILES |->
        LET c == BLOOM_PROFILES[p] IN Row(c, 0, ByteLen(c[1]), 0, 0)],
     [p \in DOMAIN MINHASH_SIGNATURE_LENGTHS |->
        LET n == MINHASH_SIGNATURE_LENGTHS[p] IN Row(<<n>>, n, 0, 0, 0)] >>

MAX_WIRE_BYTES == 4 * 1024 * 1024
SMALL_WIRE_BYTES == 64 * 1024
MINHASH_WIRE_BYTES == 4 * 1024
BLOOM_WIRE_BYTES == 5 * 2 ^ 19
CAPS == <<SMALL_WIRE_BYTES, SMALL_WIRE_BYTES, BLOOM_WIRE_BYTES, MINHASH_WIRE_BYTES>>
MAX_ENTRIES == 4096

\* The longest header: five scalars, the longest names, two numbers of the
\* shape with tags of two bytes.
HEADER_BYTES == 5 * 2 + (2 + 7) + (2 + 16) + 2 * (2 + 5)

\* The longest entry or word of a body of each kind, its one string of bytes,
\* and its two counters: a tag and a length take at most 4 bytes together,
\* a 64-bit number with its tag at most 11.
ENTRY_BYTES == <<2 + 6 + 6, 2 + 9 + 11 + 11, 0, 8>>
BodyBytes(k, row) == row.room * ENTRY_BYTES[k] + (4 + row.size) + 2 * 11

(* What any sketch can have to say fits what a parser accepts: the caps and  *)
(* the budget of entries refuse no sketch of any profile.                    *)
ASSUME WireFits ==
  \A k \in DOMAIN PROFILES : \A p \in DOMAIN PROFILES[k] :
    /\ BodyBytes(k, PROFILES[k][p]) + 1 <= CAPS[k]
    /\ HEADER_BYTES + 2 + BodyBytes(k, PROFILES[k][p]) + 5 <= CAPS[k]
    /\ CAPS[k] <= MAX_WIRE_BYTES
    /\ k \in {1, 2} => 2 * PROFILES[k][p].room <= MAX_ENTRIES
-----------------------------------------------------------------------------
SHAPES ==
  [root |-> {"accounting_id", "counters", "emitted_at_unix_nano", "epoch", "key_id",
             "observed_end_unix_nano", "observed_start_unix_nano", "producer_id", "scope_id",
             "sequence", "sketches", "version", "window_duration_unix_nano",
             "window_start_unix_nano"},
   extension |-> {"contract_id", "histogram_id", "models", "version"},
   row |-> {"cache_partition_violations", "complete", "excluded", "fields", "histogram",
            "provenance", "requests"},
   fields |-> {"input", "output", "cache_read", "cache_write"},
   field |-> {"tokens", "reported", "missing", "invalid", "conflict", "subset_violation"},
   cohort |-> {"requests", "input_tokens", "output_tokens", "cache_read_input_tokens",
               "cache_write_input_tokens", "input_min", "input_max"},
   bin |-> {"reported", "complete"},
   reported |-> {"requests", "input_tokens"},
   excluded |-> {"invalid_usage", "missing_split", "zero_origin_unknown"},
   provenance |-> {"input", "output"},
   origin |-> {"provider_reported", "inferred", "unavailable", "unknown"},
   payload |-> {"data", "kind"}]

LIMITS ==
  [root |-> 15, counters |-> 128, sketches |-> 16, payload |-> 2, extension |-> 4,
   models |-> 5004, row |-> 7, fields |-> 4, field |-> 6, cohort |-> 7, bin |-> 2,
   reported |-> 2, excluded |-> 3, provenance |-> 2, origin |-> 4]

\* Go's limits that are not the size of a shape.
FREE_LIMITS == [counters |-> 128, sketches |-> 16, models |-> 5004]
=============================================================================

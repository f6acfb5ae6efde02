----------------------------- MODULE HashFamily -----------------------------
(***************************************************************************)
(* hashfamily.py: from one keyed hash the values that a sketch uses, one   *)
(* for each position.  The 64 bits of a word, and with them the shifts and *)
(* the multipliers, are constants; a seed is what a tag hashes to.         *)
(***************************************************************************)
EXTENDS Integers, Bitwise

CONSTANTS
  Bits,         \* 64
  Shifts,       \* <<30, 27, 31>>
  Multipliers,  \* the two of the finalizer
  BLOOM_SEED, MINHASH_SEED

Word == 0 .. 2 ^ Bits - 1
MASK64(n) == n % 2 ^ Bits
ShiftedIn(x, bits) == x ^^ (x \div 2 ^ bits)

mix64(value) ==
  LET x1 == MASK64(ShiftedIn(MASK64(value), Shifts[1]) * Multipliers[1])
      x2 == MASK64(ShiftedIn(x1, Shifts[2]) * Multipliers[2])
  IN MASK64(ShiftedIn(x2, Shifts[3]))

bloom_hash(value, index) == mix64(value ^^ mix64(BLOOM_SEED ^^ MASK64(index)))
minhash(value, index) == mix64(value ^^ mix64(MINHASH_SEED ^^ MASK64(index)))

\* bloom.py: the bits of a value.
Locations(value, hash_count, bit_count) ==
  {bloom_hash(value, i) % bit_count : i \in 0 .. hash_count - 1}

\* What MinHash relies on: no two hashes share a value at a position.
FinalizerAssumption == \A x, y \in Word : mix64(x) = mix64(y) => x = y
ASSUME FinalizerAssumption
=============================================================================

SPECIFICATION BloomSpec
CONSTANTS
  Sketch = {a, b, c}
  Keying <- MCTwoKeyings
  Hash <- MCHash
  Location <- MCLocation
  MAX_UINT64 = 4
  Bits = 4
  Shifts <- MCShifts
  Multipliers <- MCMultipliers
  BLOOM_SEED = 4
  MINHASH_SEED = 4
  FilterBody <- MCBody
INVARIANTS
  BitsetExact
  CountCoversSeen

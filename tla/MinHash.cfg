SPECIFICATION Spec
CONSTANTS
  Sketch = {a, b, c}
  Keying <- MCTwoKeyings
  Hash <- MCHash
  Index <- MCIndex
  Family <- MCFamily
  MAX_UINT64 = 3
  Bits = 2
  Shifts <- MCShifts
  Multipliers <- MCMultipliers
  BLOOM_SEED = 2
  MINHASH_SEED = 2
  Body <- MCBody
INVARIANTS
  SignatureExact
  JaccardExact

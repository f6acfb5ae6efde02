SPECIFICATION Spec
CONSTANTS
  a = a
  b = b
  c = c
  Sketch = {a, b, c}
  Keying <- MCTwoKeyings
  Hash <- MCHash
  Body <- MCBody
  Width = 6
  P = 1
  SP = 3
  Threshold = 2
  Significand = 6
  Log <- MCLog
  RawEstimate <- MCRawEstimate
  Bias <- MCBias
SYMMETRY MCSymmetry
INVARIANTS
  RegistersExact
  ConversionExact
  EstimateSound

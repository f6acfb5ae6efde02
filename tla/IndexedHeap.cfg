SPECIFICATION Spec
CONSTANTS
  Sketch = {a, b}
  Key = {1, 2, 3, 4}
  MapSize = 3
  MaxInt = 5
  Keying <- MCSameKeying
  Weight = {1, 2}
  Received <- MCReceived
INVARIANTS
  SlotsConsistent
PROPERTY
  Implements
SYMMETRY MCSymmetry

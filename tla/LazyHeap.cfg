SPECIFICATION Spec
CONSTANTS
  Sketch = {a, b}
  Key = {1, 2, 3}
  MapSize = 2
  MaxInt = 6
  Keying <- MCSameKeying
  Weight = {1, 2}
  Received <- MCReceived
INVARIANTS
  HeapSound
PROPERTY
  Implements
SYMMETRY MCSymmetry

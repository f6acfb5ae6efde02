SPECIFICATION FairSpec
CONSTANTS
  Sketch = {a, b}
  Key = {1, 2, 3, 4}
  MapSize = 2
  MaxInt = 6
  Keying <- MCSameKeying
  Weight <- MCWeight
  Received <- MCHonest
INVARIANTS
  TypeOK
  Bracket
  ErrorBound
  HeavyKeysTracked
  WireClosed
  NoLateError
PROPERTY
  MergeEnds

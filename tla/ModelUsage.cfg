SPECIFICATION Spec
CONSTANTS
  Owner = {a, b}
  m1 = m1
  m2 = m2
  overflow = overflow
  Model <- MCModel
  Reserved <- MCReserved
  MaxModels = 1
  Attempt <- MCAttempt
  Observed <- MCObserved
  Edge <- MCEdge
  MaxInt = 4
  MaxCollected = 3
INVARIANTS
  RowsExact
  BlocksValid
  RefusedOnlyWhenFull
  SameVerdict
PROPERTIES
  NeverRegresses
SYMMETRY MCSymmetry

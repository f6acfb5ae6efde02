SPECIFICATION ExchangeSpec
CONSTANTS
  Expected <- MCTwo
  Duration = 2
  MAX_INT = 10
  MaxEpoch <- MCTwoEpochs
  MaxReceived = 3
CONSTRAINT MCBound
INVARIANTS
  HonestAccepted
  NeverOvercounts
  CompleteMeansExact
PROPERTIES
  SourcesAdvance
CHECK_DEADLOCK FALSE

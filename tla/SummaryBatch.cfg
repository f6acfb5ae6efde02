SPECIFICATION BatchSpec
CONSTANTS
  Expected <- MCExpected
  Candidate <- MCCandidate
  Duration = 4
  MAX_INT = 5
  MaxBatch = 4
INVARIANTS
  OutcomeExact
  SelectionErrorsFirst
CHECK_DEADLOCK FALSE

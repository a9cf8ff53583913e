SPECIFICATION ReaderSpec
CONSTANTS
  MaxRuns = 3
INVARIANTS
  CompleteIsCurrentGeneration
  FailedLeavesOnlyFatal
  AcceptedIsOneGeneration
PROPERTIES
  ImplementsEvidence
CHECK_DEADLOCK FALSE

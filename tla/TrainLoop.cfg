SPECIFICATION RecordedSpec
CONSTANTS
  Steps = 5
  EvalEvery = 2
  Examples = 2
  ByteOrder <- MCByteOrder
  TokenIds <- MCTokenIds
  CurrentSuite <- MCSuite
  Validation <- MCValidation
  RowsOf <- MCRowsOf
INVARIANTS TrackerFollowsSelector ExportedIsEarliestBest HonestScoresAreEvidence VerdictIgnoresOrder
CHECK_DEADLOCK FALSE

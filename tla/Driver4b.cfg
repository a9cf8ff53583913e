SPECIFICATION FairDriverSpec
CONSTANTS
  d1 = d1
  d2 = d2
  d3 = d3
  Driver <- MCDriver
  Cells = 2
  MaxRuns = 5
  MaxFaults = 4
INVARIANTS
  OneWorker
  AllDoneIsOneGeneration
PROPERTIES
  VerifiedIsKept
  EventuallyDone
CHECK_DEADLOCK FALSE

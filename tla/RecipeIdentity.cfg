SPECIFICATION Spec
CONSTANTS
  NLayers = 4
  Inexact <- MCInexact
  Launches <- MCLaunches
  EvalRequests <- MCEvalRequests
  DriftValues <- MCDriftValues
  MaxEdits = 2
INVARIANTS
  OnlyRoundingStopsAnExport
  PublishedIsUsable
  EvaluatedIsTrained
  ResumedIsPreregistered
CHECK_DEADLOCK FALSE

SPECIFICATION Spec
CONSTANTS
  NLayers = 3
  InPlace = {1, 3}
  Prompts = {"p", "q"}
  Tokens = {"a", "b", "c", "t"}
  PromptLen <- MCPromptLen
  MaxK = 2
  FixedK = 2
  MCRuntimes <- MCConfigs
  Calls <- MCCalls
  MaxFaults = 2
INVARIANTS CallsLeaveNoTrace ScoresDependOnTheCallOnly ControlsCarryNoRecurrence ControlsAreMatched ReportIsTrue TrainingScoresAreTheEvaluators

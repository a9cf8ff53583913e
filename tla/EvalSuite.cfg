SPECIFICATION FairSpec
CONSTANTS
  Cases = 2
  MaxExpandRounds = 1
  MaxRetries = 2
INVARIANTS RequestsStayInBudget DefaultBudgetSuffices
PROPERTY SuiteEnds
CHECK_DEADLOCK FALSE

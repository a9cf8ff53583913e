SPECIFICATION FairWatchdog
CONSTANTS
  Wall = 4
  Teardown = 16
  Poll = 1
  Command = 1
  MaxFaults = 5
INVARIANTS
  ConfirmedIsStopped
  CapsHoldUpToCommands
  UnconfirmedNeedsFaults
PROPERTIES
  EventuallyJudged
CHECK_DEADLOCK FALSE

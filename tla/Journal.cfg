SPECIFICATION JournalSpec
CONSTANTS
  c1 = c1
  c2 = c2
  Content = {c1, c2}
  Message = {m}
  Kinds = {"F"}
  Bulky = {}
  KeepRecent = 1
  MaskDuplicates = TRUE
  MaxLines = 4
  MaxTurns = 3
  MaxAtoms = 1
  MaxSkipped = 1
  MaxFailedAppends = 1
  MaxRollbacks = 1
CHECK_DEADLOCK FALSE
SYMMETRY AnyContent
INVARIANTS ResumeEqualsLive RollbackKeepsTurns RestoredIsSound

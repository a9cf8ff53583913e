SPECIFICATION Spec
CONSTANTS
  id = id
  ood = ood
  Splits <- MCSplits
  PerSplit = 2
  MaxChanges = 0
  Reverts = FALSE
SYMMETRY SplitSymmetry
INVARIANT NotReadyNamesABlocker
CHECK_DEADLOCK FALSE

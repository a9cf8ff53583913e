SPECIFICATION Spec
CONSTANTS
  id = id
  ood = ood
  Splits <- MCSplits
  PerSplit = 2
  MaxChanges = 1
  Reverts = FALSE
SYMMETRY SplitSymmetry
INVARIANTS ReadyIsProven ProvenIsReady
CHECK_DEADLOCK FALSE

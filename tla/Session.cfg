SPECIFICATION Spec
CONSTANTS
  c1 = c1
  c2 = c2
  c3 = c3
  Content = {c1, c2}
  Message = {m}
  Kinds = {"F"}
  Bulky = {c1, c2}
  KeepRecent = 0
  MaskDuplicates = TRUE
  MaxTurns = 3
  MaxAtoms = 2
  MaxSkipped = 1
  MaxFailures = 1
SYMMETRY AnyContent
INVARIANTS IndexesAgree RefsResolve SavedIsLoadable RecentStaysInline

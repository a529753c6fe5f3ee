SPECIFICATION Spec
CONSTANTS
  i1 = i1
  i2 = i2
  l1 = l1
  l2 = l2
  Callers = {i1, l1, l2}
  Low = {l1, l2}
  MaxOpen = 2
  Reserved = 1
  MinWarm = 1
  DialMayFail = TRUE
  MayCancel = {l1, l2}
  MayClose = TRUE
SYMMETRY Symmetry
VIEW View
INVARIANTS
  TypeOK
  WithinProviderLimit
  SlotsAccounted
  LowPriorityBounded

SPECIFICATION FairSpec
CONSTANTS
  i1 = i1
  i2 = i2
  l1 = l1
  l2 = l2
  Callers = {i1, i2}
  Low = {}
  MaxOpen = 1
  Reserved = 0
  MinWarm = 2
  DialMayFail = FALSE
  MayCancel = {}
  MayClose = FALSE
INVARIANT NoStrandedWaiter
PROPERTY FetchReturns

SPECIFICATION FairSpec
CONSTANTS
  Savers = {s1}
  Vals = {x}
  Initial = 2
  MaxNew = 1
  MaxSaves = 1
  MayFail = FALSE
INVARIANT OrderKept
CHECK_DEADLOCK FALSE

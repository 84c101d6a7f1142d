SPECIFICATION FairSpec
CONSTANTS
  Savers = {s1}
  Vals = {x, y}
  Initial = 2
  MaxNew = 1
  MaxSaves = 2
  MayFail = TRUE
INVARIANTS TypeOK  SaveLands Resync
PROPERTY SaveSettles
CHECK_DEADLOCK FALSE

\* every edit and read on a section the server may have and a new one
SPECIFICATION Spec
CONSTANTS
  Named = {a}
  TempIds = {t}
  Opts = {o, p}
  Vals = {x, Blank}
  Blank = Blank
  None = None
  NewBase = 1000
  MaxNew = 2
  WholeReads = TRUE
INVARIANTS TypeOK LayersConsistent LossOnlyByFold
  
CHECK_DEADLOCK FALSE

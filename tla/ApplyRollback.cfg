SPECIFICATION FairSpec
CONSTANTS
  Rollback = 2
  MinRollback = 3
  ReplyDelay = 1
  MaxLosses = 2
  LoseApply = TRUE
  StoreMayFail = TRUE
  MaxApplies = 2
  MaxTime = 10
  ApplyBy = 4
INVARIANTS TypeOK TimerGuardsNew
PROPERTIES KeptStays NewIsDecided ApplyEnds
CHECK_DEADLOCK FALSE

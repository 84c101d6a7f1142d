SPECIFICATION FairSpec
CONSTANTS
  Rollback = 1
  MinRollback = 3
  ReplyDelay = 0
  MaxLosses = 1
  LoseApply = FALSE
  StoreMayFail = FALSE
  MaxApplies = 1
  MaxTime = 6
  ApplyBy = 0
PROPERTY AppliedIsFinal
CHECK_DEADLOCK FALSE

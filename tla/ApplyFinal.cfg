SPECIFICATION Spec
CONSTANTS
  Rollback = 3
  MinRollback = 3
  ReplyDelay = 0
  MaxLosses = 2
  LoseApply = TRUE
  StoreMayFail = FALSE
  MaxApplies = 3
  MaxTime = 11
  ApplyBy = 5
PROPERTY AppliedIsFinal
CHECK_DEADLOCK FALSE

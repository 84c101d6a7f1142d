SPECIFICATION FairSpec
CONSTANTS
  Classes = {a, b}
  MayFail = FALSE
PROPERTY CycleIsReported
CHECK_DEADLOCK FALSE

\* three calls; three classes; three options in a row of dependencies; three choices; two network callers; three packages
SPECIFICATION PageSpec
CONSTANTS
  Calls = {c1, c2, c3}
  Classes = {k1, k2, k3}
  MayFail = TRUE
  Options <- MCOptions
  Needs <- MCNeeds
  Default <- MCDefault
  o1 = o1
  o2 = o2
  o3 = o3
  v = v
  Values = {v}
  None = None
  Bad = Bad
  Required = {o2}
  Retain = {}
  MaxExtra = 2
  Order <- MCOrder
  Placeholder = placeholder
  Nobody = nobody
  d1 = d1
  d2 = d2
  d3 = d3
  Installed <- MCInstalled
  Available <- MCAvailable
  Requirements <- MCRequirements
  Callers = {p1, p2}
  Loads = {l1, l2}
  MaxVersion = 3
INVARIANTS PageTypeOK NoneReadyOnCycle ErrorMeansCycle VisibleIffSatisfied ValueIsAsked NeverOlder 
PROPERTIES OwnReplyOnce CallsSettle AcyclicSettles 
CHECK_DEADLOCK FALSE

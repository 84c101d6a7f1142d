\* a failed save, a reset and another save of a form
SPECIFICATION PageSpec
CONSTANTS
  Calls = {}
  Classes = {}
  MayFail = FALSE
  Options <- MCOptions
  Needs <- MCNeeds
  Default <- MCDefault
  o1 = o1
  o2 = o2
  o3 = o3
  v = v
  Values = {v}
  None = None
  Bad = Bad
  Required = {o2}
  Retain = {}
  MaxExtra = 0
  Order <- MCOrder
  Placeholder = placeholder
  Nobody = nobody
  d1 = d1
  d2 = d2
  d3 = d3
  Installed <- MCInstalled
  Available <- MCAvailable
  Requirements <- MCRequirements
  Callers = {}
  Loads = {}
  MaxVersion = 1
PROPERTY ResetReverts
CHECK_DEADLOCK FALSE

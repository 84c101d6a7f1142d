\* one interface in two zones; a lookup of three addresses; two readers of a database of two slots; four menu nodes
SPECIFICATION RouterSpec
CONSTANTS
  Nets = {n}
  ZoneNames = {a, b}
  MaxZones = 2
  MaxRules = 1
  None = None
  Addrs = {a1, a2}
  Bad = bad
  Ids = {1, 2, 3}
  MaxAddrs = 3
  MaxLimit = 2
  Readers = {r1, r2}
  Slots = 2
  Patience = 0
  MaxTime = 3
  Parent <- MCParent
  Pages = {2, 4}
  Hidden = {}
  Wildcards = {2}
  Guarded = {1, 3}
  Groups = {g}
INVARIANTS RouterTypeOK  AnswersAreOwn EarlyMeansAll ReadersSeeOrder  
CHECK_DEADLOCK FALSE

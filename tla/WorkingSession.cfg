SPECIFICATION FairSpec
CONSTANTS
  o1 = o1
  o2 = o2
  o3 = o3
  Owners = {o1, o2}
  MaxBeat = 2
  None = None
  Empty = Empty
  Torn = Torn
INVARIANTS LoneSessionOwns 
PROPERTIES  DeadIsStale
CHECK_DEADLOCK FALSE

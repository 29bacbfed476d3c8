SPECIFICATION Spec
CONSTANTS
  p1 = p1
  p2 = p2
  sA = sA
  sB = sB
  Procs = {p1, p2}
  Records = {1, 2, 3}
  Scopes = {sA, sB}
  Savers <- MCSavers
  ScopeOf <- MCScopeOf
  MaxSaves = 3
  Index = Index
  Absent = Absent
  Empty = Empty
  Garbled = Garbled
  None = None
INVARIANTS IndexHonest FindIsSound
PROPERTIES RecordsAdvance StoreSpec
CHECK_DEADLOCK FALSE

SPECIFICATION FairSpec
CONSTANTS
  q1 = q1
  q2 = q2
  q3 = q3
  Conns = {q1, q2, q3}
  Silent = {q3}
  Malformed = {q2}
  MaxDepth = 1
  TTLs = {0, 1}
  MaxAge = 2
INVARIANT DepthExact
PROPERTIES OverloadIsReal AcceptedIsAnswered SlotsComeBack IdleServerStops
CHECK_DEADLOCK FALSE

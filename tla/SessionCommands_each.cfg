SPECIFICATION Spec
CONSTANTS
  n = n
  p = p
  k = k
  x = x
  Commands = {n, p, k, x}
  Kind <- MCEach
  Sessions = {s1, s2, s3}
  CanLoad = TRUE
  MayRefuse = TRUE
  None = None
INVARIANTS SentIsRecorded  AgentsGone
PROPERTIES SealedIsFinal OwnSession
SYMMETRY Symmetry
CHECK_DEADLOCK FALSE

SPECIFICATION Spec
CONSTANTS
  n = n
  p = p
  k = k
  x = x
  Commands = {n, p, k}
  Kind <- MCCancel
  Sessions = {s1, s2, s3}
  CanLoad = TRUE
  MayRefuse = FALSE
  None = None
PROPERTY CancelReaches
CHECK_DEADLOCK FALSE

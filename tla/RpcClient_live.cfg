SPECIFICATION FairSpec
CONSTANTS
  c1 = c1
  c2 = c2
  k1 = k1
  k2 = k2
  Calls = {c1, c2}
  TimedCalls = {c1}
  InReqs = {k1}
  AskReqs = {k1}
  MaxIds = 2
  PipeCap = 2
  MaxNoise = 1
  NoCall = NoCall
  NoReq = NoReq
PROPERTIES TimedCallReturns   
CHECK_DEADLOCK FALSE

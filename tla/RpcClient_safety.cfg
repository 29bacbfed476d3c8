SPECIFICATION Spec
CONSTANTS
  c1 = c1
  c2 = c2
  k1 = k1
  k2 = k2
  Calls = {c1, c2}
  TimedCalls = {c1, c2}
  InReqs = {k1, k2}
  AskReqs = {k1}
  MaxIds = 2
  PipeCap = 2
  MaxNoise = 1
  NoCall = NoCall
  NoReq = NoReq
SYMMETRY CallSymmetry
INVARIANTS OwnAnswer OneWakeup ReaderNeverBlocks NoLeakedEntry RepliedOnce
PROPERTIES ContractSpec
CHECK_DEADLOCK FALSE

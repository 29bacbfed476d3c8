SPECIFICATION Spec
CONSTANTS
  p1 = p1
  p2 = p2
  Prompts = {p1}
  Kinds = {"chunk", "full"}
  MaxUpdates = 2
  MaxReplay = 1
  LateReplay = 0
  PipeCap = 2
  Load = Load
  None = None
INVARIANT FullMessageAlone
CHECK_DEADLOCK FALSE

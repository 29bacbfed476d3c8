SPECIFICATION Spec
CONSTANTS
  p1 = p1
  p2 = p2
  Prompts = {p1, p2}
  Kinds = {"chunk"}
  MaxUpdates = 2
  MaxReplay = 2
  LateReplay = 1
  PipeCap = 2
  Load = Load
  None = None
SYMMETRY PromptSymmetry
INVARIANTS  StreamedBeforeReturn ReplaySuppressed
CHECK_DEADLOCK FALSE

SPECIFICATION Spec
CONSTANTS
  MaxRequests = 4
  MaxCreates = 2
  PipeCap = 1
  MaxOut = 1
  Torn = Torn
  Named = {1, 2}
INVARIANTS NamesOneProcess WaitIsTruthful OutputCompleteAfterWait
PROPERTIES AnsweredUnlessHeld
CHECK_DEADLOCK FALSE

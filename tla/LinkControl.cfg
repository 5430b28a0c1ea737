SPECIFICATION ControlFairSpec
CONSTANTS
  FillThreshold = 1
  FifoDepth = 2
INVARIANTS NotPendingMeansDone NoClearLost
PROPERTIES SwitchWasAskedTwice FifoStartsFilled SelectTakesEffect NoSpuriousClear ClearsArrive

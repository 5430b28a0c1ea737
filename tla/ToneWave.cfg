SPECIFICATION Spec
CONSTANTS
  LutDepth = 2
  StepWidth = 2
  Half = 8
  Lut <- MCLut
  Freq = {0, 1, 3, 8, 15}
  Offset = {0, 4, 7, 13}
  Amp = {0, 7, 8, 15}
INVARIANTS ValidIsTone

SPECIFICATION ToolSpec
CONSTANTS
  Link <- MCLink
  Group <- MCGroup
  GroupOf <- MCGroupOf
  Fed <- MCFed
  LmfcPeriod = 2
  LutDepth = 2
  StepWidth = 1
  Half = 4
  Lut <- MCLut
  FillThreshold = 1
  FifoDepth = 2
  Tone <- MCTone
INVARIANTS ContinuousData

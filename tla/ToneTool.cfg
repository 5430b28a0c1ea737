SPECIFICATION ToolFairSpec
CONSTANTS
  Field <- MCField
  Control = "conv_enable"
  Value <- MCValue
  Default <- MCDefault
  AllOn = 1
  Gap = 2
PROPERTIES RetuneTakesEffect

SPECIFICATION DriverSpec
CONSTANTS
  Field <- MCField
  Control = "conv_enable"
  Value <- MCValue
  Default <- MCDefault
  Gap = 2
  Frequency = "freq"
  Settings <- MCSettings
  Standard <- MCDefault
  AllConverters = 3
INVARIANTS ToneIsWhole
PROPERTIES ToneFrozen ToneTakesEffect PlaysAsAsked

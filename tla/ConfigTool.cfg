SPECIFICATION FairSpec
CONSTANTS
  PollLimit = 3
  RegisterAt <- MCRegisterAt
  Number <- MCNumber
  WordRange = 8
  DEFAULT_TONE_HZ = 1
  DEFAULT_FS_HZ = 6
  DAC_SUBSYS_SPAN = 7
  OptionWord <- MCOptionWord
  MaxWords = 5
  Line <- MCLine
INVARIANTS SuccessMeansConfigured NeverBlind ParsedAsGiven
PROPERTIES AnswerIsOwn RunEnds HealthyComesUp

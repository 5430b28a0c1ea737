SPECIFICATION FairSpec
CONSTANTS
  Zero = 0
  NoRead = NoRead
  NotYet = NotYet
  Nothing = Nothing
  amp = amp
  err = err
  WriteReg <- MCWriteReg
  ClearReg <- MCClearReg
  StatusReg = {}
  OtherReg = {}
  ResetValue <- MCResetValue
  Value = {0, 1}
  Id = {i1, i2}
  MaxWrites = 2
INVARIANTS AnswersMatch
PROPERTIES ImplementsRegFile AccessesAnswered

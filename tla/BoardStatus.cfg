SPECIFICATION BoardSpec
CONSTANTS
  HoldOff = 2
  LmfcPeriod = 2
  RstHold = 4
INVARIANTS ReadyWasHeld LockIsFresh CoreComesLast
PROPERTIES ReadyComes LockIsSeen

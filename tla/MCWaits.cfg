SPECIFICATION WaitsFairSpec
CONSTANTS
  Word = 16
  Interval = 3
  MaxBytes = 2
  SettleDelay = 1
  XferTimeout = 2
  SettleTurn = 2
  XferTurn = 2
INVARIANTS
  WholeExchange
  NothingOverrun
  NeverTooLong
PROPERTIES
  AlarmsComeInTime
  NeverCutShort
  WaitsEnd

SPECIFICATION UartFairSpec
CONSTANTS
  BufLen = 3
  Depth = 2
  Threshold = 1
  Timeout = 2
  Numbers = 6
  MaxCount = 3
INVARIANTS
  UartTypeOK
  NoTextIsStranded
PROPERTIES
  TextArrivesInOrder
  WritesReturn

SPECIFICATION KeysFairSpec
CONSTANTS
  Rollover = 2
  HidCodes = {4, 22, 26, 82}
INVARIANTS
  KeysTypeOK
PROPERTIES
  ImplementsKeyPorts
  KeysReachTheGame

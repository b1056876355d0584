CONSTANTS
  KeyCodes <- MCKeyCodes
  WinScore = 1
  Inputs <- OneKeyInputs
SPECIFICATION PongSpec
INVARIANTS
  PaddleInReach
PROPERTIES
  ImplementsBall
  ServesAreFair

CONSTANTS
  KeyCodes <- PlayingKeys
  PaddleHeights <- ChosenHeights
  WinScore = 1
SPECIFICATION BallFairSpec
INVARIANTS
  OnTrack
  BouncesTurnInward
  AlwaysReturnable
  HitsMatchThePicture
  BallIsSeen
PROPERTIES
  NeverWrapsRound
  PointsAreLostOutward
  HitsSendTheBallAcross

CONSTANTS
  KeyCodes <- AllKeys
  PaddleHeights <- HeadOnHeights
  WinScore = 2
SPECIFICATION BallFairSpec
PROPERTIES
  FollowsTheRulesFairly

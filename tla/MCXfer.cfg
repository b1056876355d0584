SPECIFICATION XferFairSpec
CONSTANTS
  NakLimit = 2
  RetryLimit = 3
  NBytes = 8
  Endpoints <- MCEndpoints
  MaxPkt0 = 8
  Asks <- MCAsks
  MaxReports = 2
  MaxRequests = 2
  Errors = {5}
INVARIANTS
  XferTypeOK
  AnswersAreWhole
  CommandsTakeEffect
PROPERTIES
  DeliversReportsFairly
  TransfersEnd

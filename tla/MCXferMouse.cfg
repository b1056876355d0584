SPECIFICATION XferSpec
CONSTANTS
  NakLimit = 3
  RetryLimit = 3
  NBytes = 8
  Endpoints <- MCMouse
  MaxPkt0 = 8
  Asks <- MCAsks
  MaxReports = 3
  MaxRequests = 1
  Errors = {5}
INVARIANT NakMeansNoNewData

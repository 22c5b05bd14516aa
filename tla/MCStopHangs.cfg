SPECIFICATION PipesCloseSpec
CONSTANTS
  Proc = {p1}
  MaxStarts = 1
  MaxRequests = 1
  Configs <- OneConfig
PROPERTIES
  StopReturns
CHECK_DEADLOCK FALSE

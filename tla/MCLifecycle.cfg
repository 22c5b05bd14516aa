SPECIFICATION FairSpec
CONSTANTS
  Proc = {p1}
  MaxStarts = 2
  MaxRequests = 2
  Configs <- OneConfig
INVARIANTS
  SignalsGoToNewest
  RunningIsWatched
PROPERTIES
  StopReapsChild
  ExitNoticed
  StopReturnsOrLosesWait
CHECK_DEADLOCK FALSE

SPECIFICATION AppFairSpec
CONSTANTS
  db = db
  cache = cache
  app = app
  Proc = {app}
  DependsOn <- Dependencies
  Signals = {"TERM", "USR1", "USR2"}
  MaxSignals = 2
  MaxStarts = 2
  MaxRequests = 3
  Configs <- Always
INVARIANTS
  MainExitLeavesNothing
PROPERTIES
  StoppedMeansGone
  TermEndsSupervisor
CHECK_DEADLOCK FALSE

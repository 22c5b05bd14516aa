SPECIFICATION AppSpec
CONSTANTS
  db = db
  cache = cache
  app = app
  Proc = {app}
  DependsOn <- Dependencies
  Signals = {"TERM"}
  MaxSignals = 1
  MaxStarts = 2
  MaxRequests = 1
  Configs <- Always
INVARIANTS
  ShutdownLeavesNoChild
CHECK_DEADLOCK FALSE

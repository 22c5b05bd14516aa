SPECIFICATION AppSpec
CONSTANTS
  db = db
  cache = cache
  app = app
  Proc = {app}
  DependsOn <- Dependencies
  Signals = {"USR2"}
  MaxSignals = 1
  MaxStarts = 2
  MaxRequests = 2
  Configs <- Never
INVARIANTS
  RestartAllCompletes
CHECK_DEADLOCK FALSE

SPECIFICATION SlowSpec
CONSTANTS
  db = db
  cache = cache
  app = app
  Proc = {db, cache, app}
  DependsOn <- Dependencies
  Signals = {}
  MaxSignals = 0
  MaxStarts = 1
  MaxRequests = 1
  Configs <- Never
INVARIANTS
  DependenciesLaunchedFirst
PROPERTIES
  StartAllEnds
CHECK_DEADLOCK FALSE

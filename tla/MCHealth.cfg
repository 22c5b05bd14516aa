SPECIFICATION FairSpec
CONSTANTS
  Proc = {web, db}
INVARIANTS
  NoCheckAfterStop
PROPERTIES
  StopReturnsUnlessHeld
  FirstResult
CHECK_DEADLOCK FALSE

SPECIFICATION Spec
CONSTANTS
  Stream = {out, err}
  MaxSize = 2
  MaxBackups = 1
  Sizes = {1, 2}
  Faults = {"close", "rename", "glob", "stat", "remove", "open", "write", "stdout"}
  MaxChunks = 4
  MaxSeconds = 2
INVARIANTS
  AcceptedIsKept
  OldestRemovedFirst
  SizeIsTracked
  PrintedIsLogged
  CutOffHasCause
PROPERTIES
  BackupsBounded
CHECK_DEADLOCK FALSE

SPECIFICATION Spec
CONSTANTS
  Proc = {p1}
  MaxStarts = 3
  MaxRequests = 1
  Configs <- AllConfigs
INVARIANTS
  TypeOK
  WithinBudget
  LaunchesAccountedFor
  OneLiveChild
PROPERTIES
  ImplementsSupervisor
CHECK_DEADLOCK FALSE

SPECIFICATION Spec
CONSTANTS
  N = 2
  Checked = {1}
  MaxRestarts = 1
INVARIANTS
  EndpointsAgree
  CountersFollowState
PROPERTIES
  HealthyIsEarned
  NoReplyAfterStop
CHECK_DEADLOCK FALSE

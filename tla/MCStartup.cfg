SPECIFICATION Spec
CONSTANTS
  Absent = Absent
  Malformed = Malformed
  Unlimited = Unlimited
  Empty = Empty
  Lines <- AllLines
INVARIANTS
  TypeOK
  AcceptedIsRunnable
  OptionsFollowTheirRun
  SourcesAgree
  RoundTrip
CHECK_DEADLOCK FALSE

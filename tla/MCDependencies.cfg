SPECIFICATION Spec
CONSTANTS
  N = 4
  Graphs <- SmallGraphs
INVARIANTS
  StackIsPath
  AcceptsOnlyAcyclic
  RejectsOnlyCircular
  DependenciesFirst
  OrderIsComplete
  AlgorithmsAgree
PROPERTIES
  BothEnd
CHECK_DEADLOCK FALSE

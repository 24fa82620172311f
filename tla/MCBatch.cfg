SPECIFICATION BatchFairSpec
CONSTANTS
  a = a
  b = b
  c = c
  d = d
  NoId = NoId
  RequestIds = {a, b, c, d}
  Bodies <- AllBodies
  maxBatchRequests = 4
INVARIANTS
  RejectsExactly
  DependenciesFirst
PROPERTIES
  Answered
CHECK_DEADLOCK FALSE

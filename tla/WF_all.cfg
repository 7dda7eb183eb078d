SPECIFICATION FairSpec
CONSTANTS
  a = a
  b = b
  c = c
  x1 = x1
  x2 = x2
  NoId = NoId
  Task <- MCTask
  Order <- MCOrder
  Exec <- MCExec
  Id = {i1}
  GraphsOf <- MCGraphsOf
  MaxParallel = 2
  MaxCancels = 2
INVARIANT TypeOK
INVARIANT DependenciesFirst
INVARIANT AtMostParallel
INVARIANT ReturnIsQuiet
PROPERTY CancelStops
PROPERTY GetsOn
PROPERTY ExecuteEnds
CHECK_DEADLOCK FALSE

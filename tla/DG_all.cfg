SPECIFICATION Spec
CONSTANTS
  a = a
  b = b
  c = c
  d = d
  Task <- MCTask
  Order <- MCOrder
INVARIANT DependentsAreInverse
INVARIANT SortIsTopological
INVARIANT AllDependenciesIsClosure
INVARIANT CriticalPathIsLongest

SPECIFICATION Spec
CONSTANTS
  c1 = c1
  c2 = c2
  f1 = f1
  f2 = f2
  small = small
  smaller = smaller
  large = large
  Nothing = Nothing
  Model = {small, smaller, large}
  Dimension <- MCDimension
  Settings <- MCSettings
  Caller = {c1, c2}
  Text = {q1, q2, q3}
  CacheSize = 2
  MaxStarts = 3
  MaxAsks = 4
INVARIANTS
  VectorsCompatible
  QueryCacheConsistent
  GapsUnique
SYMMETRY Symmetry
CHECK_DEADLOCK FALSE

SPECIFICATION CountedSpec
CONSTANTS
  a = a
  b = b
  c = c
  d = d
  s1 = s1
  s2 = s2
  CacheKeys = {a, b, c, d}
  Seeds = {s1, s2}
  Columns = {0, 1, 2}
  Index <- MC_Index
  MaxCounter = 2
  ResetAfter = 3
  Balances = {0}
  Versions = {1, 2}
  Nothing = Nothing
  WindowCapacity = 1
  ProbationCapacity = 1
  ProtectedCapacity = 1
SYMMETRY RowsAreAlike
INVARIANTS
  NeverUnderestimates
  ExactWhenAlone
PROPERTIES
  DisplacedWereColder

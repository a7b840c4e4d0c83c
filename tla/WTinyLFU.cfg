SPECIFICATION Spec
CONSTANTS
  a = a
  b = b
  c = c
  d = d
  s1 = s1
  CacheKeys = {a, b, c, d}
  Seeds = {s1}
  Columns = {0, 1, 2}
  Index <- MC_Index
  MaxCounter = 2
  ResetAfter = 3
  Balances = {0}
  Versions = {1, 2}
  Nothing = Nothing
  WindowCapacity = 1
  ProbationCapacity = 2
  ProtectedCapacity = 1
SYMMETRY CollidingAreAlike
INVARIANTS
  CacheOK
PROPERTIES
  ImplementsContract
  ScansDisplaceOnlyColder

SPECIFICATION SpecBoth
CONSTANTS
  CacheKeys = {a, b, c, d}
  Balances = {0, 1}
  Versions = {1, 2}
  Nothing = Nothing
  ProbationCapacity = 1
  ProtectedCapacity = 2
SYMMETRY KeysAreAlike
INVARIANTS
  CacheOK
  NeverAheadOfBaseline
PROPERTIES
  ImplementsContract
  BaselineImplementsContract

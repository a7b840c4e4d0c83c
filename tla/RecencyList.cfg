SPECIFICATION Spec
CONSTANTS
  Nodes = {n1, n2, n3, n4}
  Lists = {window, probation, protected}
  Nobody = Nobody
INVARIANTS
  WellLinked
  NeverRaises
PROPERTIES
  ImplementsOrder

SPECIFICATION Spec
INVARIANTS
  NullsAreHandled

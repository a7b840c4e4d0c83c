SPECIFICATION Spec
INVARIANTS
  ServesItsSchema
  SchemaFollowsRevision
  OnlyThisStopsStart

SPECIFICATION FairSpec
CONSTANTS
  a = a
  b = b
  c = c
  Component = {a, b, c}
  Manifests <- MixedManifests
  Confirmable = {a}
  Unimplemented = {c}
  Quiet = {b}
  MaxBoots = 1
INVARIANTS
  RecordsAreComplete
  DependencyOrder
  GapsAreExplained
  PassesAreFew
PROPERTIES
  Terminates
  ImplementsDesiredState

SPECIFICATION Spec
CONSTANT MaxBoots = 4
INVARIANTS
  RestartsOnce
  OneRun

SPECIFICATION KeyFairSpec
CONSTANTS
  MaxKeyBoots = 2
INVARIANTS
  Level3HasKey
PROPERTY
  InterventionEnds

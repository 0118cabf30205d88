SPECIFICATION Spec
CONSTANTS
  c1 = c1
  c2 = c2
  c3 = c3
  Crit = {c1, c2, c3}
  g1 = g1
  g2 = g2
  Sub = {g1, g2}
  Column = {"name"}
  Value = {"a", "b"}
  Condition = {"="}
  NoValue = {}
  Unchecked = {}
  Row = {"a", "b", "empty"}
  Passes <- MCPasses
  DefaultLogic = "AND"
  DepthLimit = 3
  ApiDetails <- SomeDetails
  PreDefined <- AnyOfTwo
  None = None
SYMMETRY Symmetry
CONSTRAINT OneAtATime
INVARIANTS
  TreeIsSound
  RowsAreMeant
  SavedIsCurrent
  PageFollowsTree
PROPERTIES
  MovesKeepCriteria
  RebuildGivesState

SPECIFICATION FairSpec
CONSTANTS
  Runs = {"startup"}
  ByHand = {}
  Location = "AWS"
  MaxBoots = 3
PROPERTY
  IdleIsReclaimed

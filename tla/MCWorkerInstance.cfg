SPECIFICATION Spec
CONSTANTS
  Runs = {"first", "second"}
  ByHand = {"first", "second"}
  Location = "GCP"
  MaxBoots = 3
INVARIANTS
  RunIsMarked
  NoTaskWhileApplying

SPECIFICATION Spec
CONSTANTS
  NumInput = 1
  NumOutput = 3
  ListSizes = {1, 2}
  GroupSizes = {1}
  CandEpochs = {1}
  AllocMayFail = FALSE
  OutgrowScores = FALSE
  HeapValues = {0}
  MaxHidden = 4
INVARIANTS
  BestCandidateIntact
  AlwaysDefined
  AllocatedOnRecord
PROPERTIES
  RoomIsMade
  GrowsTheNetwork

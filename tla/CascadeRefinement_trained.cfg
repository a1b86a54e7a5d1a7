SPECIFICATION Spec
CONSTANTS
  NumInput = 1
  NumOutput = 2
  ListSizes = {1}
  GroupSizes = {1}
  CandEpochs = {1}
  AllocMayFail = FALSE
  OutgrowScores = FALSE
  HeapValues = {0}
  MaxHidden = 2
PROPERTIES
  InsertsCandidateAsTrained

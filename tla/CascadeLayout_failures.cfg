SPECIFICATION Spec
CONSTANTS
  NumInput = 1
  NumOutput = 2
  ListSizes = {1, 2}
  GroupSizes = {1}
  CandEpochs = {0, 1}
  AllocMayFail = TRUE
  OutgrowScores = TRUE
  HeapValues = {0, 6, 1000}
  MaxHidden = 2
INVARIANTS
  TypeOK
  LayersPartitionNeurons
  WeightsPartition
  ConnectionsRestored
  LayoutInv
CHECK_DEADLOCK FALSE

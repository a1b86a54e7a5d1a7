SPECIFICATION PropagationSpec
CONSTANTS
  LayerSizes <- Sizes
  Rates = {1, 3, 5}
  Whole = 4
  UIntModulus = 65536
  Seeds = {0, 1}
  LearningRate = 1
  LearningMomentum = 1
  MaxRounds = 2
INVARIANTS
  ConnectionsShared
  WellConnected
  ReportsMatch
  RunIsWeightedSum
PROPERTIES
  RandomDrawsEnd
  SlopesAreDerivatives
  IncrementalFollowsGradient

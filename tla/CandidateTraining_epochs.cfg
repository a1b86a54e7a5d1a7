SPECIFICATION CandidateSpec
CONSTANTS
  LayerSizes <- Sizes
  Rates = {4}
  Whole = 4
  UIntModulus = 65536
  Seeds = {0, 1}
  LearningRate = 1
  LearningMomentum = 0
  MaxRounds = 0
  CandidateCounts = {1, 2}
  CandidateSeeds = {1, 2}
  RandomBias <- Bias
  MaxOutEpochs = 2
  MaxCandEpochs = 2
PROPERTIES
  ScoreIsErrorRemoved
  EpochsFollowError

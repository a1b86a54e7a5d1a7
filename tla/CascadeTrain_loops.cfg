SPECIFICATION Spec
CONSTANTS
  MaxError = 2
  One = 2
  MaxBitFail = 1
  MinScore <- NegativeScore
  Fraction = 1
  Whole = 2
  CandidateLimit = 1
  OutEpochs = {1, 5}
  CandEpochs = {0, 4}
  OutQuotas = {1, 2}
  CandQuotas = {2}
  StopFunctions = {"MSE", "BIT"}
  UIntModulus = 16
  AllocMayFail = TRUE
  CallerMayTest = TRUE
  MaxNeurons = 2
  DesiredErrors = {1}
  ReportIntervals = {0, 1}
INVARIANTS
  CandidatesHaveAnError
  ImprovedStagnates
  EpochsReported
PROPERTIES
  EachChangeGetsItsQuota
  Terminates

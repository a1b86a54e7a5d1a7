SPECIFICATION Spec
CONSTANTS
  Slopes <- SomeSlopes
  DeltaZero = 1000
  DeltaMin = 0
  DeltaMax = 1500
  DataSizes = {0, 1}
  EpochLimits = {0, 1, 3}
  ReportIntervals = {0, 3}
  AllocMayFail = TRUE
  MaxEpochs = 3
  MaxConnections = 2
INVARIANTS
  ArraysAreThere
  SlopesCountOnce
  LastEpochReported
PROPERTIES
  RpropStepsUsable
  QuickpropDivides
  TrainingEnds

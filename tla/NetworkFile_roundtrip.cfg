SPECIFICATION FileSpec
CONSTANTS
  LayerSizes <- Sizes
  Rates = {10, 30, 38, 40}
  Whole = 40
  UIntModulus = 65536
  Remainders = {0, 3}
  Grid = 10
  Weights <- SomeWeights
  One = 100
  ListLengths = {0, 1, 2}
  IntWidth = 8
  AllocMayFail = TRUE
INVARIANTS
  SavedIsLoaded
  RefusedCleanly
  FixedPointFits

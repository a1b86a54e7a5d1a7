SPECIFICATION Spec
CONSTANTS
  num_input = 2
  num_output = 1
  Columns <- SomeColumns
  Ranges <- SomeRanges
  AllocMayFail = TRUE
  MaxCalls = 3
INVARIANTS
  DescaleUndoesScale
  FittedRange
PROPERTIES
  RangeReached

SPECIFICATION Spec
CONSTANTS
  Objects = {a, b}
  Examples <- SomeExamples
  Shapes <- SomeShapes
  One = 100
  Grid = 10
  UIntModulus = 16
  AllocMayFail = TRUE
  MaxData = 3
  MaxCalls = 4
SYMMETRY Symmetry
INVARIANTS
  RowsAreExamples
  LossesExcused
  MessageMatchesNumber

SPECIFICATION Spec
CONSTANTS
  Launches <- UnkeyedLaunches
  Batches <- BatchesOf
  PageTokens = 6
  Pages = 3
  MaxTokens = 14
  MaxSteps = 2
CHECK_DEADLOCK FALSE
INVARIANTS RowsExact

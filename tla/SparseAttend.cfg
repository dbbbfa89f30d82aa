SPECIFICATION AttendSpec
CONSTANTS
  Launches <- SmallLaunches
  Batches <- BatchesOf
  PageTokens = 6
  Pages = 3
  MaxTokens = 14
  MaxSteps = 2
  TileColumns = 4
  FinalTile = 2
  SplitTile = 4
  PerSplit = 2
  HeadGroups = 1
  Occupancy = 4
  Units = 24
CHECK_DEADLOCK FALSE
INVARIANTS RowsExact WriteGrouped ChunksFit SlotsExact AttendExact

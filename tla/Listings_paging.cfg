SPECIFICATION FairSpec
CONSTANTS
  Rows = 4
  PageSize = 2
  MaxLines = 3
  MaxRows = 2
  Filters <- MCFilters
  Matching <- MCMatching
  Late = 1
  Queries = 2
INVARIANTS IInv WalkMissesNothing ExportAgrees
PROPERTY CatchesUp
CHECK_DEADLOCK FALSE

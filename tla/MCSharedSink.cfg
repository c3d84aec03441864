CONSTANTS
  Rows = 3
  RowsPerLine = 2
  Limit = 2
  MaxSaves = 1
SPECIFICATION Spec
\* The process ends.
CHECK_DEADLOCK FALSE
INVARIANTS
  NoRowTwice
  CountedRowsArrive
  CheckpointReadable
  CheckpointNotAhead
  CompleteHasAllRows

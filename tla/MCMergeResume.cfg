CONSTANTS
  a = a
  b = b
  c = c
  x = x
  Total = 3
  Docs <- AllDocs
  Contents = {a, b, c, x}
  Unfit = {x}
  BufferRows = 2
  HashBatch = 2
  IndexChoices = {TRUE, FALSE}
  NearLayers = TRUE
  FastFails = TRUE
  MaxSessions = 3
SPECIFICATION MCSpec
SYMMETRY Symmetry
INVARIANTS
  OutputAheadOfCheckpoint
  NoRepeats
  OnReference
  CompleteIsReference
PROPERTIES
  RowsAreKept

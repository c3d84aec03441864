CONSTANTS
  a = a
  b = b
  c = c
  x = x
  Total = 2
  Docs <- MCDocs
  Contents = {a, b, c, x}
  Unfit = {x}
  BufferRows = 2
  HashBatch = 2
  IndexChoices = {FALSE}
  NearLayers = TRUE
  FastFails = FALSE
  MaxSessions = 3
SPECIFICATION MCSpec
INVARIANTS
  OutputIsStable

\* A row is four tokens; a chunk may hold a document longer than a row, and
\* three tokens and a chunk do not fit into the first carry array.
CONSTANTS
  SeqLen = 3
  MinDoc = 2
  MaxSegments = 2
  ReadChunk = 6
  Shards = 2
  Contents <- MCContents
SPECIFICATION StreamSpec
\* The stream ends with the last shard.
CHECK_DEADLOCK FALSE
INVARIANTS
  InOrderOnce
  LossIsExplained
  DocumentsAreSeparated
  WindowsAsOverwritten

CONSTANTS
  a = a
  b = b
  c = c
  x = x
  blank = blank
  Sources = {1, 2}
  Files <- MCFiles
  Blank = blank
  Unfit = {x}
  Weight <- MCWeight
  BufferRows = 1
  ReadAhead = 2
  MaxSessions = 4
SPECIFICATION Spec
\* Sessions are used up.
CHECK_DEADLOCK FALSE
INVARIANTS
  ReaderMeetsCheckpoint
  CountersMatchOutput
  NoRepeats
  MixFollowsWeights
PROPERTIES
  CompletesWithEveryContent

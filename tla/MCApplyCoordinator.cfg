CONSTANTS
  Total = 5
  ApplyMayRaise = TRUE
SPECIFICATION MCSpec
INVARIANTS
  WrittenInOrder
  NothingLost
  DoneMeansDrained
PROPERTIES
  ImplementsOrderedOutput
  EventuallyWritten

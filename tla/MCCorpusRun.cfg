CONSTANTS
  Runs = {1}
  Sources = {1, 2}
  Optional = {2}
  Offered <- MCOffered
  Cap <- MCCap
  Base = 3
  Digits <- MCDigits
  MaxStarts = 4
  MaxRollbacks = 1
SPECIFICATION Spec
INVARIANTS
  PublishedTogether
  PublishedIsMerged
PROPERTIES
  VersionsAreKept
CHECK_DEADLOCK FALSE

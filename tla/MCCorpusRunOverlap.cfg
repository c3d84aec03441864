CONSTANTS
  Runs = {1, 2}
  Sources = {1, 2}
  Optional = {2}
  Offered <- MCOffered
  Cap <- MCCap
  Base = 10
  Digits <- MCDigits
  MaxStarts = 2
  MaxRollbacks = 0
SPECIFICATION Spec
INVARIANT PublishedTogether
CHECK_DEADLOCK FALSE

CONSTANTS
  Total = 3
  Kinds = {"terminal", "normal"}
  MaxBatch = 2
  IngestQueue = 1
  FastQueue = 2
  CleanQueue = 2
  HeavyBatch = 2
  SurvivorCap = 1
  MaxCompleted = 2
  SlotLimit <- MCSlotLimit
  Faults = {"fast_fails", "heavy_fails", "apply_raises", "reader_raises", "time_limit", "stop_signal", "join_expires"}
SPECIFICATION MCSpec
INVARIANTS
  EachLineInOnePlace
  SlotsExceededByHeadOnly
  CompleteUpToFirstLoss
PROPERTIES
  UsesCoordinatorAsSpecified

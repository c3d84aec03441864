CONSTANTS
  Total = 3
  Kinds = {"terminal", "huge"}
  MaxBatch = 3
  IngestQueue = 1
  FastQueue = 1
  CleanQueue = 1
  HeavyBatch = 1
  SurvivorCap = 1
  MaxCompleted = 2
  SlotLimit <- MCSlotLimit
  Faults = {"heavy_fails", "time_limit", "stop_signal"}
SPECIFICATION MCFairSpec
PROPERTIES
  AskedToEnd
  CompletesUnlessClogged

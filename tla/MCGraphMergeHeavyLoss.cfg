CONSTANTS
  Total = 2
  Kinds = {"terminal", "normal"}
  MaxBatch = 1
  IngestQueue = 1
  FastQueue = 1
  CleanQueue = 1
  HeavyBatch = 1
  SurvivorCap = 2
  MaxCompleted = 2
  SlotLimit <- MCSlotLimit
  Faults = {"heavy_fails"}
SPECIFICATION MCSpec
INVARIANTS
  CompleteMeansAllWritten

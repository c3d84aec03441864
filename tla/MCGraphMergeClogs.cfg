CONSTANTS
  Total = 2
  Kinds = {"terminal", "normal"}
  MaxBatch = 2
  IngestQueue = 1
  FastQueue = 1
  CleanQueue = 1
  HeavyBatch = 1
  SurvivorCap = 2
  MaxCompleted = 1
  SlotLimit <- MCSlotLimit
  Faults = {}
SPECIFICATION MCFairSpec
PROPERTIES
  Completes

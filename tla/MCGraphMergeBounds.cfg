CONSTANTS
  Total = 5
  Kinds = {"terminal", "normal"}
  MaxBatch = 2
  IngestQueue = 1
  FastQueue = 1
  CleanQueue = 1
  HeavyBatch = 1
  SurvivorCap = 1
  MaxCompleted = 1
  SlotLimit <- MCSlotLimit
  Faults = {}
SPECIFICATION MCSpec
INVARIANTS
  ApplyBufferBounded
  LanesBounded

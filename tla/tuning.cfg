\* The bounds of the code on a machine where the memory multiplier is largest, so
\* that it works against every reduction; tasks below and above the batch size.
CONSTANTS
  MinBatch = 4
  MaxBatch = 20
  MemoryGB = 32
  AdjustInterval = 1
  InputCounts = {1, 3, 7, 23}
  Performances = {6, 8, 10, 13, 16}
SPECIFICATION TuningFairSpec
INVARIANTS TuningTypeOK SizeInBounds
PROPERTIES SlowShrinks

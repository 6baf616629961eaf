CONSTANTS
  None = None
  MinBatch = 4
  MaxBatch = 20
  MemoryGB = 8
  AdjustInterval = 1
  MaxInputs = 2
  Performances = {6}
  Cores = 2
  MaxThreads = {1}
SPECIFICATION FairSpec
INVARIANTS MaxThreadsKept

\* Tasks of up to four inputs, in batches of at most two to four, on two cores.
CONSTANTS
  None = None
  MinBatch = 1
  MaxBatch = 4
  MemoryGB = 4
  AdjustInterval = 1
  MaxInputs = 4
  Performances = {8, 16}
  Cores = 2
  MaxThreads = {None, 1}
SPECIFICATION FairSpec
INVARIANTS TypeOK ProofsInOrder NoProofLost
PROPERTIES EveryTaskEnds

\* One task more than the limit may be fetched, and two events fill the queue.
CONSTANTS
  None = None
  MaxTasks = 2
  Capacity = 2
  MaxFetches = 3
SPECIFICATION FairSpec
INVARIANTS TypeOK ReportsMatch
PROPERTIES HeardSignalEndsSession ImplementsWorkCycle
CHECK_DEADLOCK FALSE

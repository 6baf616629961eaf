CONSTANTS
  None = None
  MaxTasks = 1
  Capacity = 8
  MaxFetches = 1
SPECIFICATION FairSpec
PROPERTIES MaxTasksEndSession
CHECK_DEADLOCK FALSE

\* The wait, the retries and the window; one difficulty.  The times are small
\* but keep their order in the code: the window outlasts the interval here, so
\* that it can bind at all.
CONSTANTS
  None = None
  MinInterval = 1
  MaxRequests = 3
  TimeWindow = 3
  DefaultRetryDelay = 2
  MaxRetries = 2
  RetryAfters = {0, 2, 5}
  ServerErrorDelay = 1
  ExtraRetryDelay = 1
  MaxRetryDelay = 4
  MaxDifficulty = 2
  ServerDifficulties = {2}
  Durations = {1}
  PromotionThreshold = 2
  FetchPause = 1
SPECIFICATION FairSpec
INVARIANTS QueueBounded OldestInFront
PROPERTIES FirstRequestWaits KeepsFetching

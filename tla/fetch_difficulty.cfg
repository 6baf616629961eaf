\* The adaptive difficulty without an override, over the whole ladder, with a
\* server that may assign anything and tasks on both sides of the threshold.  As
\* in the code the interval outlasts the window, which admits as many requests
\* as one call makes attempts.
CONSTANTS
  None = None
  MinInterval = 1
  MaxRequests = 2
  TimeWindow = 0
  DefaultRetryDelay = 1
  MaxRetries = 2
  RetryAfters = {}
  ServerErrorDelay = 1
  ExtraRetryDelay = 0
  MaxRetryDelay = 1
  MaxDifficulty = None
  ServerDifficulties = {0, 1, 3, 8}
  Durations = {419, 420}
  PromotionThreshold = 420
  FetchPause = 0
SPECIFICATION Spec
INVARIANTS DifficultyEarned WindowNeverBinds

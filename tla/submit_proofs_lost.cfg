CONSTANTS
  None = None
  MinInterval = 1
  MaxRequests = 1
  TimeWindow = 0
  DefaultRetryDelay = 1
  MaxRetries = 3
  RetryAfters = {2}
  ServerErrorDelay = 1
  ExtraRetryDelay = 0
  MaxRetryDelay = 2
  MaxProofs = 2
  MaxSubmissions = 2
  Hour = 2
  Delay = 1
SPECIFICATION FairSpec
INVARIANTS ProofsInEveryAttempt

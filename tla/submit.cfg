\* Two calls with three attempts, tasks of up to two proofs, every kind of error;
\* the timer is only written, so its times do not matter here.  An hour is two
\* units, and a thread may be held up for one between reading the clock and the lock.
CONSTANTS
  None = None
  MinInterval = 1
  MaxRequests = 1
  TimeWindow = 0
  DefaultRetryDelay = 1
  MaxRetries = 3
  RetryAfters = {2}
  ServerErrorDelay = 1
  ExtraRetryDelay = 0
  MaxRetryDelay = 2
  MaxProofs = 2
  MaxSubmissions = 2
  Hour = 2
  Delay = 1
SPECIFICATION FairSpec
INVARIANTS TypeOK SuccessIsAccepted HashRetriesIntact RateLimitEndsCall AtMostOncePerHour
PROPERTIES EverySubmissionEnds

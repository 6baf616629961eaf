---------------------------- MODULE NetworkClient ----------------------------
(***************************************************************************)
(* The error handling both request loops of network/client.rs share: what  *)
(* the client does with the answer to one attempt.  fetch_task and         *)
(* submit_proof are the same loop around different requests; TaskFetcher   *)
(* and ProofSubmitter supply the request.                                  *)
(***************************************************************************)
EXTENDS RequestTimer

CONSTANTS
  MaxRetries,        \* max_retries of the client
  RetryAfters,       \* the Retry-After values the server may send
  ServerErrorDelay,  \* the delay assumed after a 5xx (30 s in the code)
  ExtraRetryDelay,   \* added to every delay of the server (10 s)
  MaxRetryDelay      \* the longest delay that is honoured (600 s)

ASSUME ClientAssumption ==
  /\ MaxRetries \in Nat \ {0}
  /\ RetryAfters \subseteq Nat
  /\ {ServerErrorDelay, ExtraRetryDelay, MaxRetryDelay} \subseteq Nat

VARIABLE attempts    \* failed attempts of the current call

\* OrchestratorError, by what the client's decisions depend on.
Errors ==
  [kind : {"reqwest", "decode"}, retry_after : {None}] \cup
  [kind : {"http_429", "http_4xx", "http_5xx", "http_other"},
   retry_after : RetryAfters \cup {None}]

RetryAfterSeconds(e) ==
  IF e.kind = "http_5xx" THEN ServerErrorDelay ELSE e.retry_after

ServerRetryDelay(e) ==
  IF RetryAfterSeconds(e) = None THEN None
  ELSE LET padded == RetryAfterSeconds(e) + ExtraRetryDelay
       IN IF padded < MaxRetryDelay THEN padded ELSE MaxRetryDelay

\* A fault: a rate-limited request is sent again at once.
RetriesRateLimit(e) == e.kind # "http_other"

ShouldRetry(e) == e.kind \in {"reqwest", "decode", "http_4xx", "http_5xx"}

\* A fault: the attempt that just failed is not counted.
GivesUpLate(e) == attempts >= MaxRetries \/ ~ShouldRetry(e)

\* The call returns e; otherwise the request is sent again.
GivesUp(e) == attempts + 1 >= MaxRetries \/ ~ShouldRetry(e)

AttemptFails(e) ==
  /\ RecordFailure(ServerRetryDelay(e))
  /\ attempts' = attempts + 1
=============================================================================

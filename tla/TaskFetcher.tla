----------------------------- MODULE TaskFetcher -----------------------------
(***************************************************************************)
(* workers/fetcher.rs with the fetch loop of network/client.rs: the wait   *)
(* for the request timer, the choice of the difficulty, the request and    *)
(* its immediate retries, and the record of what the node has managed to   *)
(* prove.  The worker around it only calls fetch_task again after the task *)
(* is finished or a pause has passed.                                      *)
(***************************************************************************)
EXTENDS NetworkClient

CONSTANTS
  MaxDifficulty,       \* config.max_difficulty, an option
  ServerDifficulties,  \* the difficulties the server may assign
  Durations,           \* seconds a task may take
  PromotionThreshold,  \* PROMOTION_THRESHOLD_SECS
  FetchPause           \* the worker's pause after a failed fetch (1 s)

\* The enum TaskDifficulty, by rank: Small, SmallMedium, Medium, Large,
\* ExtraLarge, ExtraLarge2, ..., ExtraLarge5.
Difficulty == 0..8
Small == 0
SmallMedium == 1
ExtraLarge5 == 8

ASSUME FetcherAssumption ==
  /\ MaxDifficulty \in Difficulty \cup {None}
  /\ ServerDifficulties \subseteq Difficulty
  /\ Durations \subseteq Nat
  /\ PromotionThreshold \in Nat
  /\ FetchPause \in Nat

VARIABLES
  pc,          \* where the worker is in its cycle
  sleep_left,  \* what is left of the current sleep
  requested,   \* max_difficulty of the request under way
  task,        \* the difficulty of the task in hand
  last_requested_difficulty,
  last_success,   \* last_success_difficulty and last_success_duration_secs
  since_answer,   \* history: age of the last answer of the server
  hold_left,      \* history: what is left of the delay of the last failed call
  completed       \* history: the <<difficulty, seconds>> of completed tasks

fetcherVars ==
  <<pc, sleep_left, requested, task, last_requested_difficulty, last_success>>
history == <<since_answer, hold_left, completed>>
vars == <<timerVars, attempts, fetcherVars, history>>

Success == Difficulty \X Durations

TypeOK ==
  /\ TimerTypeOK
  /\ attempts \in 0..MaxRetries
  /\ pc \in {"idle", "checking", "timing", "sleeping", "sent", "working", "pausing"}
  /\ sleep_left \in Nat
  /\ requested \in Difficulty
  /\ task \in Difficulty
  /\ last_requested_difficulty \in Difficulty \cup {None}
  /\ last_success \in Success \cup {None}
  /\ since_answer \in 0..MinInterval
  /\ hold_left \in Nat
  /\ completed \subseteq Success

Init ==
  /\ TimerInit
  /\ attempts = 0
  /\ pc = "idle"
  /\ sleep_left = 0
  /\ requested = Small
  /\ task = Small
  /\ last_requested_difficulty = None
  /\ last_success = None
  /\ since_answer = MinInterval
  /\ hold_left = 0
  /\ completed = {}

-----------------------------------------------------------------------------
(***************************************************************************)
(* The wait.  fetch_task asks the timer once for its first log line and    *)
(* then loops: can_proceed, and if it says no, time_until_next and a sleep *)
(* of that length.  Time may pass between any two of these calls.          *)
(***************************************************************************)

\* The difficulty after `success': the next one up, unless the task took too
\* long or there is none.
Promoted(success) ==
  IF success[2] < PromotionThreshold /\ success[1] < ExtraLarge5
  THEN success[1] + 1 ELSE success[1]

DesiredDifficulty ==
  CASE MaxDifficulty # None -> MaxDifficulty
    [] MaxDifficulty = None /\ last_success # None -> Promoted(last_success)
    [] OTHER -> SmallMedium

BeginFetch ==
  /\ pc = "idle"
  /\ CheckTimer
  /\ pc' = "checking"
  /\ UNCHANGED <<attempts, sleep_left, requested, task, last_requested_difficulty,
                 last_success, history>>

Blocked ==
  /\ pc = "checking"
  /\ ~CanProceed
  /\ CheckTimer
  /\ pc' = "timing"
  /\ UNCHANGED <<attempts, sleep_left, requested, task, last_requested_difficulty,
                 last_success, history>>

\* A wait of zero goes straight back to the check.
StartSleep ==
  /\ pc = "timing"
  /\ AskTimer
  /\ sleep_left' = TimeUntilNext
  /\ pc' = IF TimeUntilNext > 0 THEN "sleeping" ELSE "checking"
  /\ UNCHANGED <<attempts, requested, task, last_requested_difficulty,
                 last_success, history>>

WakeUp ==
  /\ pc = "sleeping"
  /\ sleep_left = 0
  /\ pc' = "checking"
  /\ UNCHANGED <<timerVars, attempts, sleep_left, requested, task,
                 last_requested_difficulty, last_success, history>>

SendRequest ==
  /\ pc = "checking"
  /\ CanProceed
  /\ CheckTimer
  /\ attempts' = 0
  /\ requested' = DesiredDifficulty
  /\ pc' = "sent"
  /\ UNCHANGED <<sleep_left, task, last_requested_difficulty, last_success, history>>

-----------------------------------------------------------------------------
(***************************************************************************)
(* The answer.  The server may assign another difficulty than the one      *)
(* requested; that one is remembered.  A failed attempt is either sent     *)
(* again at once or ends the call.                                         *)
(***************************************************************************)

\* A fault: the difficulty asked for is remembered, not the one assigned.
GotTaskAsRequested(actual) ==
  /\ pc = "sent"
  /\ RecordSuccess
  /\ task' = actual
  /\ last_requested_difficulty' = requested
  /\ pc' = "working"
  /\ since_answer' = 0
  /\ UNCHANGED <<attempts, sleep_left, requested, last_success, hold_left, completed>>

GotTask(actual) ==
  /\ pc = "sent"
  /\ RecordSuccess
  /\ task' = actual
  /\ last_requested_difficulty' = actual
  /\ pc' = "working"
  /\ since_answer' = 0
  /\ UNCHANGED <<attempts, sleep_left, requested, last_success, hold_left, completed>>

RetryFetch(e) ==
  /\ pc = "sent"
  /\ ~GivesUp(e)
  /\ AttemptFails(e)
  /\ since_answer' = 0
  /\ UNCHANGED <<fetcherVars, hold_left, completed>>

FetchFails(e) ==
  /\ pc = "sent"
  /\ GivesUp(e)
  /\ AttemptFails(e)
  /\ sleep_left' = FetchPause
  /\ pc' = "pausing"
  /\ since_answer' = 0
  /\ hold_left' = IF ServerRetryDelay(e) = None THEN DefaultRetryDelay
                  ELSE ServerRetryDelay(e)
  /\ UNCHANGED <<requested, task, last_requested_difficulty, last_success, completed>>

EndPause ==
  /\ pc = "pausing"
  /\ sleep_left = 0
  /\ pc' = "idle"
  /\ UNCHANGED <<timerVars, attempts, sleep_left, requested, task,
                 last_requested_difficulty, last_success, history>>

\* The task is proved and its proof accepted after `secs' seconds.
CompleteTask(secs) ==
  /\ pc = "working"
  /\ last_success' = <<last_requested_difficulty, secs>>
  /\ completed' = completed \cup {<<task, secs>>}
  /\ pc' = "idle"
  /\ UNCHANGED <<timerVars, attempts, sleep_left, requested, task,
                 last_requested_difficulty, since_answer, hold_left>>

\* Proving or submitting failed; nothing of the fetcher changes.
AbandonTask ==
  /\ pc = "working"
  /\ pc' = "idle"
  /\ UNCHANGED <<timerVars, attempts, sleep_left, requested, task,
                 last_requested_difficulty, last_success, history>>

Tick ==
  /\ Elapse
  /\ sleep_left' = Less(sleep_left)
  /\ since_answer' = Older(since_answer, MinInterval)
  /\ hold_left' = Less(hold_left)
  /\ UNCHANGED <<attempts, pc, requested, task, last_requested_difficulty,
                 last_success, completed>>

Answer ==
  \/ \E actual \in ServerDifficulties : GotTask(actual)
  \/ \E e \in Errors : RetryFetch(e) \/ FetchFails(e)

Work == (\E secs \in Durations : CompleteTask(secs)) \/ AbandonTask

Step ==
  \/ BeginFetch \/ Blocked \/ StartSleep \/ WakeUp \/ SendRequest
  \/ Answer \/ EndPause \/ Work

Next == Step \/ Tick

\* The worker keeps running, every request is answered or times out (the
\* HTTP client has a timeout), and time passes.
Spec == Init /\ [][Next]_vars
FairSpec == Spec /\ WF_vars(Step) /\ WF_vars(Tick)

-----------------------------------------------------------------------------
(***************************************************************************)
(* Properties                                                              *)
(***************************************************************************)

\* The queue of request instants stays bounded: the window admits at most
\* MaxRequests - 1 earlier requests before a call, and the call adds one
\* entry per attempt.
QueueBounded == Len(request_ages) <= MaxRequests - 1 + MaxRetries

\* The first request of a call leaves no sooner than the minimum interval
\* after the last answer and never within the delay of the last failed call,
\* however sleeps, checks and the passing of time interleave.
FirstRequestWaits ==
  [][pc = "checking" /\ pc' = "sent" => since_answer >= MinInterval /\ hold_left = 0]_vars

\* Without an override the node asks for SmallMedium or for something it has
\* earned: a difficulty it has completed, or the next one up if it completed
\* the one below it fast enough.
DifficultyEarned ==
  pc = "sent" /\ MaxDifficulty = None /\ requested # SmallMedium =>
    \E done \in completed :
      \/ requested = done[1]
      \/ requested = done[1] + 1 /\ done[2] < PromotionThreshold

\* A worker that keeps running keeps asking for tasks: no delay, no full
\* window and no wait of zero stops it for good.
KeepsFetching == []<>(pc = "sent")
=============================================================================

-------------------------- MODULE TaskFetcherProofs --------------------------
(***************************************************************************)
(* The safety properties of TaskFetcher, for all times, limits, retries,   *)
(* errors and difficulties.  They follow from one inductive invariant.     *)
(***************************************************************************)
EXTENDS TaskFetcher, FiniteSetTheorems, SequenceTheorems, TLAPS

-----------------------------------------------------------------------------
(***************************************************************************)
(* The operations of the request timer and of the client's error handling, *)
(* for every interval, window, limit and delay: what each does to the type *)
(* of the timer, to the order of the recorded requests and to their ages.  *)
(***************************************************************************)

Ages == 0..TimeWindow + 1

\* No recorded request is younger than the last one, as far as ages are told
\* apart; this is what keeps the window from binding.
AgesFollow ==
  \A i \in 1..Len(request_ages) :
    request_ages[i] >= since_last \/ request_ages[i] = TimeWindow + 1

-----------------------------------------------------------------------------

\* Pruning drops a prefix of the queue.
LEMMA PrunedIsSuffix ==
  ASSUME request_ages \in Seq(Ages)
  PROVE  \E k \in 0..Len(request_ages) :
           /\ Pruned \in Seq(Ages)
           /\ Len(Pruned) = Len(request_ages) - k
           /\ \A i \in 1..Len(Pruned) : Pruned[i] = request_ages[i + k]
<1> DEFINE expired == {i \in 1..Len(request_ages) : request_ages[i] > TimeWindow}
           k == Cardinality(expired)
<1>1. Len(request_ages) \in Nat
  OBVIOUS
<1>2. /\ IsFiniteSet(1..Len(request_ages))
      /\ Cardinality(1..Len(request_ages)) = Len(request_ages)
  BY <1>1, FS_Interval
<1>3. k \in 0..Len(request_ages)
  <2>1. expired \in SUBSET (1..Len(request_ages))
    OBVIOUS
  <2>2. IsFiniteSet(expired) /\ k <= Len(request_ages)
    BY <1>2, <2>1, FS_Subset
  <2>3. k \in Nat
    BY <2>2, FS_CardinalityType
  <2> QED
    BY <2>2, <2>3, <1>1
<1>4. Pruned = SubSeq(request_ages, k + 1, Len(request_ages))
  BY DEF Pruned
<1> HIDE DEF k
<1>5. /\ Pruned \in Seq(Ages)
      /\ Len(Pruned) = Len(request_ages) - k
      /\ \A i \in 1..Len(Pruned) : Pruned[i] = request_ages[i + k]
  BY <1>1, <1>3, <1>4
<1> QED
  BY <1>3, <1>5

\* When every recorded request has left the window, nothing is left of them.
LEMMA AllExpired ==
  ASSUME request_ages \in Seq(Ages),
         \A i \in 1..Len(request_ages) : request_ages[i] > TimeWindow
  PROVE  Len(Pruned) = 0
<1> DEFINE n == Len(request_ages)
<1>1. n \in Nat
  OBVIOUS
<1>2. {i \in 1..n : request_ages[i] > TimeWindow} = 1..n
  OBVIOUS
<1>3. Cardinality(1..n) = n
  BY <1>1, FS_Interval
<1>4. Pruned = SubSeq(request_ages, n + 1, n)
  BY <1>2, <1>3 DEF Pruned
<1> QED
  BY <1>1, <1>4

-----------------------------------------------------------------------------

\* Every operation keeps the type of the timer.
LEMMA ElapseType ==
  ASSUME TimerTypeOK, Elapse
  PROVE  TimerTypeOK'
BY TimerAssumption DEF TimerTypeOK, Elapse, Older, Less

LEMMA PruneType ==
  ASSUME TimerTypeOK, UNCHANGED <<since_last, retry_left>>,
         request_ages' \in {request_ages, Pruned}
  PROVE  TimerTypeOK'
BY PrunedIsSuffix DEF TimerTypeOK, Ages

LEMMA SuccessType ==
  ASSUME TimerTypeOK, RecordSuccess
  PROVE  TimerTypeOK'
BY TimerAssumption DEF TimerTypeOK, RecordSuccess, Recorded

LEMMA FailureType ==
  ASSUME TimerTypeOK, NEW delay \in Nat \cup {None}, RecordFailure(delay)
  PROVE  TimerTypeOK'
BY TimerAssumption DEF TimerTypeOK, RecordFailure, Recorded

\* What time_until_next returns is a length of time.
LEMMA WaitType ==
  ASSUME TimerTypeOK
  PROVE  TimeUntilNext \in Nat
<1> DEFINE interval == MinInterval - since_last
           window   == IF WindowHolds THEN TimeWindow - Head(Pruned) ELSE 0
<1>1. interval \in Nat
  BY TimerAssumption DEF TimerTypeOK
<1>2. window \in Int
  <2>1. CASE WindowHolds
    <3>1. PICK k \in 0..Len(request_ages) :
            Pruned \in Seq(Ages) /\ Len(Pruned) = Len(request_ages) - k
      BY PrunedIsSuffix DEF TimerTypeOK, Ages
    <3>2. Len(Pruned) >= 1
      BY <2>1, <3>1, TimerAssumption DEF WindowHolds
    <3>3. Head(Pruned) \in Ages
      BY <3>1, <3>2
    <3> QED
      BY <2>1, <3>3, TimerAssumption DEF Ages
  <2>2. CASE ~WindowHolds
    BY <2>2
  <2> QED
    BY <2>1, <2>2
<1> HIDE DEF interval, window
<1>3. TimeUntilNext = CASE ServerHolds -> retry_left
                       [] ~ServerHolds /\ interval >= window -> interval
                       [] OTHER -> window
  BY DEF TimeUntilNext, interval, window
<1> QED
  BY <1>1, <1>2, <1>3 DEF TimerTypeOK, ServerHolds

-----------------------------------------------------------------------------

\* Every operation keeps the oldest request in front, and with the type
\* no request younger than the last one.
LEMMA ElapseOrder ==
  ASSUME TimerTypeOK, OldestInFront, AgesFollow, Elapse
  PROVE  OldestInFront' /\ AgesFollow'
<1> DEFINE n == Len(request_ages)
<1>1. /\ n \in Nat
      /\ \A i \in 1..n : request_ages[i] \in Ages
      /\ since_last \in 0..MinInterval
  <2>1. request_ages \in Seq(Ages) /\ since_last \in 0..MinInterval
    BY DEF TimerTypeOK, Ages
  <2> QED
    BY <2>1
<1>2. Len(request_ages') = n
  BY <1>1 DEF Elapse
<1>3. \A i \in 1..n : request_ages'[i] = Older(request_ages[i], TimeWindow + 1)
  BY <1>1 DEF Elapse
<1>4. since_last' = Older(since_last, MinInterval)
  BY DEF Elapse
<1>5. ASSUME NEW i \in 1..n, NEW j \in 1..n, i <= j
      PROVE  request_ages'[i] >= request_ages'[j]
  <2>1. request_ages[i] >= request_ages[j]
    BY <1>5 DEF OldestInFront
  <2> QED
    BY <1>1, <1>3, <2>1, TimerAssumption DEF Older, Ages
<1>6. ASSUME NEW i \in 1..n
      PROVE  request_ages'[i] >= since_last' \/ request_ages'[i] = TimeWindow + 1
  <2>1. request_ages[i] >= since_last \/ request_ages[i] = TimeWindow + 1
    BY DEF AgesFollow
  <2> QED
    BY <1>1, <1>3, <1>4, <2>1, TimerAssumption DEF Older, Ages
<1> HIDE DEF n
<1>7. OldestInFront'
  BY <1>2, <1>5 DEF OldestInFront
<1>8. AgesFollow'
  BY <1>2, <1>6 DEF AgesFollow
<1> QED
  BY <1>7, <1>8

LEMMA PruneOrder ==
  ASSUME TimerTypeOK, OldestInFront, AgesFollow,
         UNCHANGED <<since_last, retry_left>>, request_ages' \in {request_ages, Pruned}
  PROVE  OldestInFront' /\ AgesFollow'
<1>1. CASE request_ages' = request_ages
  BY <1>1 DEF OldestInFront, AgesFollow
<1>2. CASE request_ages' = Pruned
  <2>1. PICK k \in 0..Len(request_ages) :
          /\ Len(Pruned) = Len(request_ages) - k
          /\ \A i \in 1..Len(Pruned) : Pruned[i] = request_ages[i + k]
    BY PrunedIsSuffix DEF TimerTypeOK, Ages
  <2>2. Len(request_ages) \in Nat
    BY DEF TimerTypeOK
  <2>3. \A i \in 1..Len(Pruned) : i + k \in 1..Len(request_ages)
    BY <2>1, <2>2
  <2>4. Len(Pruned) \in Nat
    BY <2>1, <2>2
  <2>5. OldestInFront'
    <3> SUFFICES ASSUME NEW i \in 1..Len(Pruned), NEW j \in 1..Len(Pruned), i <= j
                 PROVE  Pruned[i] >= Pruned[j]
      BY <1>2 DEF OldestInFront
    <3>1. i + k \in 1..Len(request_ages) /\ j + k \in 1..Len(request_ages) /\ i + k <= j + k
      BY <2>2, <2>3, <2>4
    <3>2. request_ages[i + k] >= request_ages[j + k]
      BY <3>1 DEF OldestInFront
    <3> QED
      BY <3>2, <2>1
  <2>6. AgesFollow'
    <3> SUFFICES ASSUME NEW i \in 1..Len(Pruned)
                 PROVE  Pruned[i] >= since_last \/ Pruned[i] = TimeWindow + 1
      BY <1>2 DEF AgesFollow
    <3> QED
      BY <2>1, <2>3 DEF AgesFollow
  <2> QED
    BY <2>5, <2>6
<1> QED
  BY <1>1, <1>2

LEMMA RecordOrder ==
  ASSUME TimerTypeOK, OldestInFront, AgesFollow,
         since_last' = 0, request_ages' = Recorded
  PROVE  OldestInFront' /\ AgesFollow'
<1> DEFINE n == Len(request_ages)
<1>1. /\ n \in Nat
      /\ Len(request_ages') = n + 1
      /\ \A i \in 1..n : request_ages'[i] = request_ages[i] /\ request_ages[i] \in Ages
      /\ request_ages'[n + 1] = 0
  BY TimerAssumption DEF TimerTypeOK, Recorded, Ages
<1> HIDE DEF n
<1>2. \A i \in 1..n + 1 : i \in 1..n \/ i = n + 1
  BY <1>1
<1>3. \A i \in 1..n + 1 : request_ages'[i] >= 0
  BY <1>1, <1>2, TimerAssumption DEF Ages
<1>4. OldestInFront'
  <2> SUFFICES ASSUME NEW i \in 1..n + 1, NEW j \in 1..n + 1, i <= j
               PROVE  request_ages'[i] >= request_ages'[j]
    BY <1>1 DEF OldestInFront
  <2>1. CASE j = n + 1
    BY <2>1, <1>1, <1>3
  <2>2. CASE j # n + 1
    <3>1. i \in 1..n /\ j \in 1..n
      BY <2>2, <1>1
    <3> QED
      BY <3>1, <1>1 DEF OldestInFront, n
  <2> QED
    BY <2>1, <2>2
<1>5. AgesFollow'
  BY <1>1, <1>3 DEF AgesFollow
<1> QED
  BY <1>4, <1>5

\* Once the interval has passed and outlasts the window, every request in the
\* queue has left the window.
LEMMA IntervalOutlastsWindow ==
  ASSUME TimerTypeOK, AgesFollow
  PROVE  WindowNeverBinds
<1> SUFFICES ASSUME MinInterval > TimeWindow, ~IntervalHolds
             PROVE  ~WindowHolds
  BY DEF WindowNeverBinds
<1>1. since_last = MinInterval
  BY TimerAssumption DEF TimerTypeOK, IntervalHolds
<1>2. \A i \in 1..Len(request_ages) : request_ages[i] > TimeWindow
  BY <1>1, TimerAssumption DEF AgesFollow, TimerTypeOK
<1>3. Len(Pruned) = 0
  BY <1>2, AllExpired DEF TimerTypeOK, Ages
<1> QED
  BY <1>3, TimerAssumption DEF WindowHolds

-----------------------------------------------------------------------------

\* The delay the client takes from an error is a length of time or absent.
LEMMA DelayType ==
  ASSUME NEW e \in Errors
  PROVE  ServerRetryDelay(e) \in Nat \cup {None}
<1>1. RetryAfterSeconds(e) \in Nat \cup {None}
  BY ClientAssumption DEF Errors, RetryAfterSeconds
<1> QED
  BY <1>1, ClientAssumption DEF ServerRetryDelay

\* A failed attempt keeps the type and sets the delay to that of the error.
LEMMA AttemptFailsEffect ==
  ASSUME TimerTypeOK, NEW e \in Errors, AttemptFails(e)
  PROVE  /\ TimerTypeOK'
         /\ since_last' = 0 /\ request_ages' = Recorded
         /\ retry_left' = IF ServerRetryDelay(e) = None THEN DefaultRetryDelay
                          ELSE ServerRetryDelay(e)
         /\ attempts' = attempts + 1
<1>1. RecordFailure(ServerRetryDelay(e)) /\ attempts' = attempts + 1
  BY DEF AttemptFails
<1>2. TimerTypeOK'
  BY <1>1, DelayType, FailureType
<1> QED
  BY <1>1, <1>2 DEF RecordFailure

-----------------------------------------------------------------------------
(***************************************************************************)
(* The task fetcher                                                        *)
(***************************************************************************)

\* A call starts with room in the window and adds one request per attempt.
CallFitsWindow ==
  /\ Len(request_ages) <= MaxRequests - 1 + MaxRetries
  /\ pc = "sent" => /\ attempts < MaxRetries
                    /\ Len(request_ages) <= MaxRequests - 1 + attempts

\* What the history says of the last answer is what the timer remembers, and
\* the timer remembers the delay of the last failed call until it is over.
TimerKnows ==
  /\ since_answer = since_last
  /\ hold_left <= retry_left
  /\ pc = "sent" => hold_left = 0

\* The success the next difficulty is derived from did happen.
SuccessIsReal ==
  /\ pc = "working" => last_requested_difficulty = task
  /\ last_success # None => last_success \in completed

FetcherInv ==
  /\ TypeOK
  /\ OldestInFront
  /\ AgesFollow
  /\ CallFitsWindow
  /\ TimerKnows
  /\ SuccessIsReal
  /\ DifficultyEarned

-----------------------------------------------------------------------------

LEMMA DesiredType ==
  ASSUME TypeOK
  PROVE  DesiredDifficulty \in Difficulty
<1>1. CASE MaxDifficulty # None
  BY <1>1, FetcherAssumption DEF DesiredDifficulty
<1>2. CASE MaxDifficulty = None /\ last_success # None
  <2>1. last_success[1] \in Difficulty
    BY <1>2 DEF TypeOK, Success
  <2>2. Promoted(last_success) \in Difficulty
    BY <2>1 DEF Promoted, Difficulty, ExtraLarge5
  <2> QED
    BY <1>2, <2>2 DEF DesiredDifficulty
<1>3. CASE MaxDifficulty = None /\ last_success = None
  BY <1>3 DEF DesiredDifficulty, SmallMedium, Difficulty
<1> QED
  BY <1>1, <1>2, <1>3

\* What is asked for without an override is SmallMedium or derived from the
\* last success.
LEMMA DesiredEarned ==
  ASSUME TypeOK, MaxDifficulty = None, DesiredDifficulty # SmallMedium
  PROVE  /\ last_success # None
         /\ \/ DesiredDifficulty = last_success[1]
            \/ /\ DesiredDifficulty = last_success[1] + 1
               /\ last_success[2] < PromotionThreshold
BY DEF DesiredDifficulty, Promoted

-----------------------------------------------------------------------------

LEMMA InitInv == Init => FetcherInv
<1> SUFFICES ASSUME Init PROVE FetcherInv
  OBVIOUS
<1> USE DEF Init, TimerInit
<1>1. request_ages = <<>> /\ Len(request_ages) = 0
  OBVIOUS
<1>2. TypeOK
  BY TimerAssumption, ClientAssumption, FetcherAssumption
     DEF TypeOK, TimerTypeOK, Difficulty, Small
<1>3. OldestInFront /\ AgesFollow
  BY <1>1 DEF OldestInFront, AgesFollow
<1>4. CallFitsWindow
  BY <1>1, TimerAssumption, ClientAssumption DEF CallFitsWindow
<1>5. TimerKnows /\ SuccessIsReal /\ DifficultyEarned
  BY DEF TimerKnows, SuccessIsReal, DifficultyEarned
<1> QED
  BY <1>2, <1>3, <1>4, <1>5 DEF FetcherInv

\* Steps that only look at the timer, or leave it alone.
LEMMA LookInv ==
  ASSUME FetcherInv, BeginFetch \/ Blocked \/ StartSleep \/ WakeUp \/ EndPause \/ AbandonTask
  PROVE  FetcherInv'
<1> USE DEF FetcherInv
<1>1. /\ UNCHANGED <<since_last, retry_left>>
      /\ request_ages' \in {request_ages, Pruned}
  BY DEF BeginFetch, Blocked, StartSleep, WakeUp, EndPause, AbandonTask,
         CheckTimer, AskTimer, timerVars
<1>2. /\ UNCHANGED <<attempts, requested, task, last_requested_difficulty, last_success,
                     since_answer, hold_left, completed>>
      /\ pc' \in {"idle", "checking", "timing", "sleeping"}
      /\ sleep_left' \in {sleep_left, TimeUntilNext}
  BY DEF BeginFetch, Blocked, StartSleep, WakeUp, EndPause, AbandonTask, history
<1>3. TimerTypeOK' /\ OldestInFront' /\ AgesFollow'
  BY <1>1, PruneType, PruneOrder DEF TypeOK
<1>4. TypeOK'
  BY <1>2, <1>3, WaitType DEF TypeOK
<1>5. PICK k \in 0..Len(request_ages) : Len(Pruned) = Len(request_ages) - k
  BY PrunedIsSuffix DEF TypeOK, TimerTypeOK, Ages
<1>6. CallFitsWindow'
  BY <1>1, <1>2, <1>5, TimerAssumption, ClientAssumption
     DEF CallFitsWindow, TypeOK, TimerTypeOK
<1>7. TimerKnows' /\ SuccessIsReal' /\ DifficultyEarned'
  BY <1>1, <1>2 DEF TimerKnows, SuccessIsReal, DifficultyEarned
<1> QED
  BY <1>3, <1>4, <1>6, <1>7

LEMMA SendInv ==
  ASSUME FetcherInv, SendRequest
  PROVE  FetcherInv'
<1> USE DEF FetcherInv
<1>1. Len(Pruned) \in Nat
  <2>1. Pruned \in Seq(Ages)
    BY PrunedIsSuffix DEF TypeOK, TimerTypeOK, Ages
  <2> QED
    BY <2>1
<1>2. /\ UNCHANGED <<since_last, retry_left>>
      /\ request_ages' = Pruned
      /\ retry_left = 0 /\ Len(Pruned) < MaxRequests
  <2>1. CanProceed /\ CheckTimer
    BY DEF SendRequest
  <2>2. ~ServerHolds /\ ~IntervalHolds /\ ~WindowHolds
    BY <2>1 DEF CanProceed
  <2> QED
    BY <1>1, <2>1, <2>2, TimerAssumption
       DEF CheckTimer, WindowHolds, ServerHolds, TypeOK, TimerTypeOK
<1>3. /\ UNCHANGED <<sleep_left, task, last_requested_difficulty, last_success,
                     since_answer, hold_left, completed>>
      /\ pc' = "sent" /\ attempts' = 0 /\ requested' = DesiredDifficulty
  BY DEF SendRequest, history
<1>4. TimerTypeOK' /\ OldestInFront' /\ AgesFollow'
  BY <1>2, PruneType, PruneOrder DEF TypeOK
<1>5. TypeOK'
  BY <1>3, <1>4, DesiredType, ClientAssumption DEF TypeOK
<1>6. CallFitsWindow'
  BY <1>1, <1>2, <1>3, TimerAssumption, ClientAssumption DEF CallFitsWindow
<1>7. TimerKnows'
  BY <1>2, <1>3 DEF TimerKnows, TypeOK
<1>8. SuccessIsReal'
  BY <1>3 DEF SuccessIsReal
<1>9. DifficultyEarned'
  <2> SUFFICES ASSUME MaxDifficulty = None, DesiredDifficulty # SmallMedium
               PROVE  \E done \in completed :
                        \/ DesiredDifficulty = done[1]
                        \/ DesiredDifficulty = done[1] + 1 /\ done[2] < PromotionThreshold
    BY <1>3 DEF DifficultyEarned
  <2> QED
    BY DesiredEarned DEF SuccessIsReal
<1> QED
  BY <1>4, <1>5, <1>6, <1>7, <1>8, <1>9

LEMMA AnswerInv ==
  ASSUME FetcherInv, Answer
  PROVE  FetcherInv'
<1> USE DEF FetcherInv
<1>1. Len(request_ages) \in Nat /\ Len(Recorded) = Len(request_ages) + 1
  BY DEF TypeOK, TimerTypeOK, Recorded
<1>2. ASSUME NEW actual \in ServerDifficulties, GotTask(actual) PROVE FetcherInv'
  <2>1. /\ RecordSuccess
        /\ UNCHANGED <<attempts, sleep_left, requested, last_success, hold_left, completed>>
        /\ task' = actual /\ last_requested_difficulty' = actual
        /\ pc = "sent" /\ pc' = "working" /\ since_answer' = 0
    BY <1>2 DEF GotTask
  <2>2. since_last' = 0 /\ request_ages' = Recorded /\ retry_left' = retry_left
    BY <2>1 DEF RecordSuccess
  <2>3. TimerTypeOK' /\ OldestInFront' /\ AgesFollow'
    BY <2>1, <2>2, SuccessType, RecordOrder DEF TypeOK
  <2>4. TypeOK'
    BY <2>1, <2>3, FetcherAssumption, TimerAssumption DEF TypeOK
  <2>5. CallFitsWindow'
    BY <1>1, <2>1, <2>2, TimerAssumption, ClientAssumption DEF CallFitsWindow, TypeOK
  <2>6. TimerKnows' /\ SuccessIsReal' /\ DifficultyEarned'
    BY <2>1, <2>2 DEF TimerKnows, SuccessIsReal, DifficultyEarned
  <2> QED
    BY <2>3, <2>4, <2>5, <2>6
<1>3. ASSUME NEW e \in Errors, RetryFetch(e) \/ FetchFails(e) PROVE FetcherInv'
  <2>1. /\ AttemptFails(e)
        /\ pc = "sent" /\ since_answer' = 0
        /\ UNCHANGED <<requested, task, last_requested_difficulty, last_success, completed>>
        /\ \/ /\ RetryFetch(e)
              /\ attempts + 1 < MaxRetries /\ UNCHANGED <<pc, sleep_left, hold_left>>
           \/ /\ FetchFails(e)
              /\ pc' = "pausing" /\ sleep_left' = FetchPause
              /\ hold_left' = IF ServerRetryDelay(e) = None THEN DefaultRetryDelay
                              ELSE ServerRetryDelay(e)
    BY <1>3, ClientAssumption DEF RetryFetch, FetchFails, GivesUp, fetcherVars, TypeOK
  <2>2. /\ TimerTypeOK'
        /\ since_last' = 0 /\ request_ages' = Recorded
        /\ retry_left' = IF ServerRetryDelay(e) = None THEN DefaultRetryDelay
                         ELSE ServerRetryDelay(e)
        /\ attempts' = attempts + 1
    BY <2>1, AttemptFailsEffect DEF TypeOK
  <2>3. OldestInFront' /\ AgesFollow'
    BY <2>2, RecordOrder DEF TypeOK
  <2>4. retry_left' \in Nat
    BY <2>2 DEF TimerTypeOK
  <2>5. TypeOK'
    <3>1. attempts' \in 0..MaxRetries
      BY <2>1, <2>2, ClientAssumption DEF CallFitsWindow, TypeOK
    <3>2. hold_left' \in Nat /\ sleep_left' \in Nat
      BY <2>1, <2>2, <2>4, FetcherAssumption DEF TypeOK
    <3>3. pc' \in {"sent", "pausing"}
      BY <2>1
    <3> QED
      BY <2>1, <2>2, <3>1, <3>2, <3>3, TimerAssumption DEF TypeOK
  <2>6. CallFitsWindow'
    <3>1. attempts \in Nat
      BY DEF TypeOK
    <3> QED
      BY <1>1, <2>1, <2>2, <3>1, TimerAssumption, ClientAssumption DEF CallFitsWindow
  <2>7. TimerKnows'
    BY <2>1, <2>2, <2>4 DEF TimerKnows
  <2>8. SuccessIsReal' /\ DifficultyEarned'
    BY <2>1 DEF SuccessIsReal, DifficultyEarned
  <2> QED
    BY <2>2, <2>3, <2>5, <2>6, <2>7, <2>8
<1> QED
  BY <1>2, <1>3 DEF Answer

LEMMA CompleteInv ==
  ASSUME FetcherInv, NEW secs \in Durations, CompleteTask(secs)
  PROVE  FetcherInv'
<1> USE DEF FetcherInv
<1>1. /\ UNCHANGED <<timerVars, attempts, sleep_left, requested, task,
                     last_requested_difficulty, since_answer, hold_left>>
      /\ pc = "working" /\ pc' = "idle"
      /\ last_success' = <<task, secs>>
      /\ completed' = completed \cup {<<task, secs>>}
  BY DEF CompleteTask, SuccessIsReal
<1>2. UNCHANGED <<since_last, request_ages, retry_left>>
  BY <1>1 DEF timerVars
<1>3. <<task, secs>> \in Success
  BY DEF Success, TypeOK
<1>4. TypeOK'
  BY <1>1, <1>2, <1>3 DEF TypeOK, TimerTypeOK
<1>5. OldestInFront' /\ AgesFollow' /\ CallFitsWindow'
  BY <1>1, <1>2 DEF OldestInFront, AgesFollow, CallFitsWindow
<1>6. TimerKnows' /\ SuccessIsReal' /\ DifficultyEarned'
  BY <1>1, <1>2 DEF TimerKnows, SuccessIsReal, DifficultyEarned
<1> QED
  BY <1>4, <1>5, <1>6

LEMMA TickInv ==
  ASSUME FetcherInv, Tick
  PROVE  FetcherInv'
<1> USE DEF FetcherInv
<1>1. /\ Elapse
      /\ UNCHANGED <<attempts, pc, requested, task, last_requested_difficulty,
                     last_success, completed>>
      /\ sleep_left' = Less(sleep_left) /\ hold_left' = Less(hold_left)
      /\ since_answer' = Older(since_answer, MinInterval)
  BY DEF Tick
<1>2. TimerTypeOK' /\ OldestInFront' /\ AgesFollow'
  BY <1>1, ElapseType, ElapseOrder DEF TypeOK
<1>3. /\ since_last' = Older(since_last, MinInterval)
      /\ retry_left' = Less(retry_left)
      /\ Len(request_ages') = Len(request_ages)
  BY <1>1 DEF Elapse, TypeOK, TimerTypeOK
<1>4. TypeOK'
  BY <1>1, <1>2, TimerAssumption DEF TypeOK, Less, Older
<1>5. CallFitsWindow'
  BY <1>1, <1>3 DEF CallFitsWindow
<1>6. TimerKnows'
  BY <1>1, <1>3 DEF TimerKnows, Less, TypeOK, TimerTypeOK
<1>7. SuccessIsReal' /\ DifficultyEarned'
  BY <1>1 DEF SuccessIsReal, DifficultyEarned
<1> QED
  BY <1>2, <1>4, <1>5, <1>6, <1>7

LEMMA StutterInv ==
  ASSUME FetcherInv, UNCHANGED vars
  PROVE  FetcherInv'
BY DEF FetcherInv, TypeOK, TimerTypeOK, OldestInFront, AgesFollow, CallFitsWindow,
       TimerKnows, SuccessIsReal, DifficultyEarned, vars, timerVars, fetcherVars, history

LEMMA StepInv == FetcherInv /\ [Next]_vars => FetcherInv'
<1> SUFFICES ASSUME FetcherInv, [Next]_vars PROVE FetcherInv'
  OBVIOUS
<1>1. CASE BeginFetch \/ Blocked \/ StartSleep \/ WakeUp \/ EndPause \/ AbandonTask
  BY <1>1, LookInv
<1>2. CASE SendRequest
  BY <1>2, SendInv
<1>3. CASE Answer
  BY <1>3, AnswerInv
<1>4. CASE \E secs \in Durations : CompleteTask(secs)
  BY <1>4, CompleteInv
<1>5. CASE Tick
  BY <1>5, TickInv
<1>6. CASE UNCHANGED vars
  BY <1>6, StutterInv
<1> QED
  BY <1>1, <1>2, <1>3, <1>4, <1>5, <1>6 DEF Next, Step, Work

LEMMA Invariance == Spec => []FetcherInv
BY InitInv, StepInv, PTL DEF Spec

-----------------------------------------------------------------------------
(***************************************************************************)
(* The theorems                                                            *)
(***************************************************************************)

\* Type correctness: among others, no sleep is of negative length.
THEOREM TypeCorrect == Spec => []TypeOK
<1>1. FetcherInv => TypeOK
  BY DEF FetcherInv
<1> QED
  BY <1>1, Invariance, PTL

\* The queue of request instants never outgrows the window and one call.
THEOREM QueueStaysBounded == Spec => []QueueBounded
<1>1. FetcherInv => QueueBounded
  BY DEF FetcherInv, CallFitsWindow, QueueBounded
<1> QED
  BY <1>1, Invariance, PTL

\* The loops that prune the queue from its front may stop at the first request
\* inside the window.
THEOREM OldestStaysInFront == Spec => []OldestInFront
<1>1. FetcherInv => OldestInFront
  BY DEF FetcherInv
<1> QED
  BY <1>1, Invariance, PTL

\* No request of a new call leaves before the interval since the last answer
\* and the delay of the last failed call are over.
THEOREM FirstRequestsWait == Spec => FirstRequestWaits
<1>1. ASSUME FetcherInv, [Next]_vars, pc = "checking", pc' = "sent"
      PROVE  since_answer >= MinInterval /\ hold_left = 0
  <2>1. SendRequest
    BY <1>1 DEF Next, Step, Work, Answer, BeginFetch, Blocked, StartSleep, WakeUp,
                EndPause, AbandonTask, CompleteTask, GotTask, RetryFetch, FetchFails,
                Tick, vars, fetcherVars
  <2>2. since_last >= MinInterval /\ retry_left = 0
    BY <1>1, <2>1, TimerAssumption
       DEF SendRequest, CanProceed, IntervalHolds, ServerHolds, FetcherInv, TypeOK, TimerTypeOK
  <2> QED
    BY <1>1, <2>2 DEF FetcherInv, TimerKnows, TypeOK
<1>2. FetcherInv /\ [Next]_vars =>
        [pc = "checking" /\ pc' = "sent" => since_answer >= MinInterval /\ hold_left = 0]_vars
  BY <1>1
<1> QED
  BY <1>2, Invariance, PTL DEF Spec, FirstRequestWaits

\* Whatever the server assigns, no difficulty is asked for that is not earned.
THEOREM DifficultyIsEarned == Spec => []DifficultyEarned
<1>1. FetcherInv => DifficultyEarned
  BY DEF FetcherInv
<1> QED
  BY <1>1, Invariance, PTL

\* With an interval longer than the window the limit of requests is idle.
THEOREM WindowIsIdle == Spec => []WindowNeverBinds
<1>1. FetcherInv => WindowNeverBinds
  BY IntervalOutlastsWindow DEF FetcherInv, TypeOK
<1> QED
  BY <1>1, Invariance, PTL
=============================================================================

---------------------------- MODULE RequestTimer ----------------------------
(***************************************************************************)
(* The request timer of src/clients/cli/src/network/request_timer.rs: a    *)
(* minimum interval between requests, a maximum number of requests per     *)
(* time window and a retry delay after a failure.                          *)
(*                                                                         *)
(* Instants are kept as ages: now.duration_since(t) is the age of t and    *)
(* retry_until.duration_since(now) is what is left of a delay.  An age     *)
(* stops growing at the first value no comparison of the code tells apart  *)
(* from a larger one, so time is unbounded and the states are finite.  A   *)
(* missing instant is an age that has stopped growing, a missing deadline  *)
(* a delay of which nothing is left: the code treats both alike.           *)
(***************************************************************************)
EXTENDS Integers, Sequences, FiniteSets

CONSTANTS
  MinInterval,        \* config.min_interval
  MaxRequests,        \* config.max_requests
  TimeWindow,         \* config.time_window
  DefaultRetryDelay,  \* config.default_retry_delay
  None                \* an absent option

ASSUME TimerAssumption ==
  /\ MinInterval \in Nat
  /\ MaxRequests \in Nat \ {0}
  /\ TimeWindow \in Nat
  /\ DefaultRetryDelay \in Nat
  /\ None \notin Nat

VARIABLES
  since_last,    \* age of last_request_time
  request_ages,  \* the ages of request_times, front first
  retry_left     \* what is left until server_retry_until

timerVars == <<since_last, request_ages, retry_left>>

TimerTypeOK ==
  /\ since_last \in 0..MinInterval
  /\ request_ages \in Seq(0..TimeWindow + 1)
  /\ retry_left \in Nat

TimerInit ==
  /\ since_last = MinInterval
  /\ request_ages = <<>>
  /\ retry_left = 0

-----------------------------------------------------------------------------

Older(age, cap) == IF age < cap THEN age + 1 ELSE age

Less(left) == IF left > 0 THEN left - 1 ELSE 0

\* One unit of time passes.
Elapse ==
  /\ since_last' = Older(since_last, MinInterval)
  /\ request_ages' = [i \in 1..Len(request_ages) |->
                        Older(request_ages[i], TimeWindow + 1)]
  /\ retry_left' = Less(retry_left)

-----------------------------------------------------------------------------

ServerHolds == retry_left > 0

IntervalHolds == since_last < MinInterval

\* A fault: the requests that have left the window are never dropped.
PrunedNothing == request_ages

\* The queue without the requests that are older than the window.
Pruned ==
  LET expired == Cardinality({i \in 1..Len(request_ages) :
                                request_ages[i] > TimeWindow})
  IN SubSeq(request_ages, expired + 1, Len(request_ages))

WindowHolds == Len(Pruned) >= MaxRequests

\* A fault: the retry delay of a failure does not hold the next request back.
CanProceedDuringDelay == ~IntervalHolds /\ ~WindowHolds

\* What can_proceed returns, and the state it leaves behind: the queue is
\* pruned only when neither of the two earlier checks returned.
CanProceed == ~ServerHolds /\ ~IntervalHolds /\ ~WindowHolds

CheckTimer ==
  /\ request_ages' = IF ServerHolds \/ IntervalHolds
                     THEN request_ages ELSE Pruned
  /\ UNCHANGED <<since_last, retry_left>>

\* What time_until_next returns, and the state it leaves behind.
TimeUntilNext ==
  LET interval == MinInterval - since_last
      window   == IF WindowHolds THEN TimeWindow - Head(Pruned) ELSE 0
  IN CASE ServerHolds -> retry_left
       [] ~ServerHolds /\ interval >= window -> interval
       [] OTHER -> window

AskTimer ==
  /\ request_ages' = IF ServerHolds THEN request_ages ELSE Pruned
  /\ UNCHANGED <<since_last, retry_left>>

\* A fault: the newest request is put at the front of the queue.
RecordedInFront == <<0>> \o request_ages

\* The queue with a request that is answered now.
Recorded == Append(request_ages, 0)

RecordSuccess ==
  /\ since_last' = 0
  /\ request_ages' = Recorded
  /\ UNCHANGED retry_left

RecordFailure(delay) ==
  /\ since_last' = 0
  /\ request_ages' = Recorded
  /\ retry_left' = IF delay = None THEN DefaultRetryDelay ELSE delay

-----------------------------------------------------------------------------
(***************************************************************************)
(* Properties of the timer, whoever uses it                                *)
(***************************************************************************)

\* The front of the queue is the oldest request, which is what both pruning
\* loops and the wait for the oldest one to expire rely on.
OldestInFront ==
  \A i, j \in 1..Len(request_ages) : i <= j => request_ages[i] >= request_ages[j]

\* With the times of the code, where the interval outlasts the window, the limit
\* of requests per window never decides: once the interval has passed, every
\* request has left the window, however many attempts each call made.
WindowNeverBinds ==
  MinInterval > TimeWindow => (~IntervalHolds => ~WindowHolds)
=============================================================================

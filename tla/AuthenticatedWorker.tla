------------------------- MODULE AuthenticatedWorker -------------------------
(***************************************************************************)
(* workers/authenticated_worker.rs: the task that runs fetch, prove and    *)
(* submit in a cycle, reports every step on the bounded event queue, stops *)
(* after max_tasks and can be cancelled at any await by the shutdown       *)
(* signal.  Each value of worker_pc is an await; what happens between two  *)
(* awaits is one action.  TaskFetcher, ProofPipeline and ProofSubmitter    *)
(* say how a fetch, a proof and a submission end.                          *)
(***************************************************************************)
EXTENDS Integers, Sequences, FiniteSets

CONSTANTS
  MaxTasks,    \* max_tasks, an option
  None,
  Capacity,    \* EVENT_QUEUE_SIZE
  MaxFetches   \* bound: tasks fetched in a behaviour

ASSUME WorkerAssumption ==
  /\ None \notin Nat
  /\ MaxTasks \in Nat \cup {None}
  /\ Capacity \in Nat \ {0}
  /\ MaxFetches \in Nat

VARIABLES
  worker_pc,
  tasks_completed,
  queue,            \* the event channel
  receiver_open,    \* its receiver has not been dropped
  shutdown_pending, \* the receivers that have a shutdown signal waiting
  max_subscribed,   \* the session listens for the completion of max_tasks
  max_pending,      \* that signal is waiting for the session
  signalled,        \* history: the worker sent that signal
  fetched,          \* tasks fetched so far; they are numbered in that order
  accepted          \* history: the tasks of which the server took a proof

workerVars == <<worker_pc, tasks_completed, queue, receiver_open, shutdown_pending,
                max_subscribed, max_pending, signalled, fetched, accepted>>

\* The awaits that only report a step, with the event and the next await.
Report ==
  [adjusted      |-> [event |-> "adjusted",     next |-> "got"],
   got           |-> [event |-> "got_task",     next |-> "announce"],
   announce      |-> [event |-> "proving",      next |-> "proving"],
   fetch_failed  |-> [event |-> "fetch_error",  next |-> "fetch_pause"],
   prove_failed  |-> [event |-> "prove_error",  next |-> "give_up"],
   give_up       |-> [event |-> "waiting",      next |-> "pause"],
   proved        |-> [event |-> "proved",       next |-> "submit"],
   submit        |-> [event |-> "submitting",   next |-> "submitting"],
   submit_failed |-> [event |-> "submit_error", next |-> "finish"],
   finish        |-> [event |-> "waiting",      next |-> "pause"]]

Pauses == {"fetch_pause", "pause", "max_pause"}

WorkerPc ==
  DOMAIN Report \cup Pauses \cup
  {"fetch", "proving", "submitting", "submitted", "completed", "report_max", "exited"}

Event == {Report[pc].event : pc \in DOMAIN Report} \cup
         {"ready", "fetch_notice", "submitted", "completed", "max_reached"}

WorkerTypeOK ==
  /\ worker_pc \in WorkerPc
  /\ tasks_completed \in 0..MaxFetches
  /\ queue \in Seq(Event) /\ Len(queue) <= Capacity
  /\ receiver_open \in BOOLEAN
  /\ shutdown_pending \subseteq {"worker", "session"}
  /\ max_subscribed \in BOOLEAN
  /\ max_pending \in BOOLEAN
  /\ signalled \in BOOLEAN
  /\ fetched \in 0..MaxFetches
  /\ accepted \subseteq 1..MaxFetches

\* `run' has queued its first event before the task is spawned.
WorkerInit ==
  /\ worker_pc = "fetch"
  /\ tasks_completed = 0
  /\ queue = <<"ready">>
  /\ receiver_open = TRUE
  /\ shutdown_pending = {}
  /\ max_subscribed = FALSE /\ max_pending = FALSE /\ signalled = FALSE
  /\ fetched = 0
  /\ accepted = {}

-----------------------------------------------------------------------------

\* A fault: the channel is not bounded.
SendUnbounded(event) == queue' = Append(queue, event)

\* A fault: an event that does not fit replaces the oldest one.
SendOverwrites(event) ==
  queue' = Append(IF Len(queue) < Capacity THEN queue ELSE Tail(queue), event)

\* sender.send(event).await: waits for room, gives up if the receiver is gone.
Send(event) ==
  IF receiver_open
  THEN Len(queue) < Capacity /\ queue' = Append(queue, event)
  ELSE UNCHANGED queue

\* The oldest event is received.
Receive ==
  /\ queue # <<>>
  /\ queue' = Tail(queue)
  /\ UNCHANGED <<worker_pc, tasks_completed, receiver_open, shutdown_pending,
                 max_subscribed, max_pending, signalled, fetched, accepted>>

\* shutdown_sender.send(()): every receiver there is has the signal waiting.
Broadcast(receivers) ==
  /\ shutdown_pending' = shutdown_pending \cup receivers
  /\ UNCHANGED <<worker_pc, tasks_completed, queue, receiver_open, max_subscribed,
                 max_pending, signalled, fetched, accepted>>

\* The session subscribes to the completion of max_tasks.
ListenForMax ==
  /\ max_subscribed' = TRUE
  /\ UNCHANGED <<worker_pc, tasks_completed, queue, receiver_open, shutdown_pending,
                 max_pending, signalled, fetched, accepted>>

signals == <<receiver_open, shutdown_pending, max_subscribed, max_pending, signalled>>

ReportStep ==
  /\ worker_pc \in DOMAIN Report
  /\ Send(Report[worker_pc].event)
  /\ worker_pc' = Report[worker_pc].next
  /\ UNCHANGED <<tasks_completed, signals, fetched, accepted>>

\* fetch_task tells of the fetch or of every wait for the request timer.
FetchNotice ==
  /\ worker_pc = "fetch"
  /\ Send("fetch_notice")
  /\ UNCHANGED <<worker_pc, tasks_completed, signals, fetched, accepted>>

\* It returns a task, of the difficulty asked for or another, or fails.
FetchEnds ==
  /\ worker_pc = "fetch"
  /\ \/ /\ fetched < MaxFetches
        /\ fetched' = fetched + 1
        /\ worker_pc' \in {"adjusted", "got"}
     \/ /\ worker_pc' = "fetch_failed"
        /\ UNCHANGED fetched
  /\ UNCHANGED <<tasks_completed, queue, signals, accepted>>

ProveEnds ==
  /\ worker_pc = "proving"
  /\ worker_pc' \in {"proved", "prove_failed"}
  /\ UNCHANGED <<tasks_completed, queue, signals, fetched, accepted>>

\* The server takes the proof; the worker may be cancelled before it hears.
ServerTakesProof ==
  /\ worker_pc = "submitting"
  /\ fetched \notin accepted
  /\ accepted' = accepted \cup {fetched}
  /\ UNCHANGED <<worker_pc, tasks_completed, queue, signals, fetched>>

\* A fault: the result of the submission is not looked at.
SubmitEndsUnchecked ==
  /\ worker_pc = "submitting"
  /\ worker_pc' \in {"submitted", "submit_failed", "finish"}
  /\ UNCHANGED <<tasks_completed, queue, signals, fetched, accepted>>

\* submit_proof returns: Ok only after the server took the proof; an error the
\* server answered, or that is all the client saw, is reported, one of the
\* serializer is not.
SubmitEnds ==
  /\ worker_pc = "submitting"
  /\ \/ fetched \in accepted /\ worker_pc' = "submitted"
     \/ worker_pc' = "submit_failed"
     \/ fetched \notin accepted /\ worker_pc' = "finish"
  /\ UNCHANGED <<tasks_completed, queue, signals, fetched, accepted>>

\* The report of the success, then the count of it before the next await.
CountTask ==
  /\ worker_pc = "submitted"
  /\ Send("submitted")
  /\ tasks_completed' = tasks_completed + 1
  /\ worker_pc' = "completed"
  /\ UNCHANGED <<signals, fetched, accepted>>

\* A fault: the count is compared with the limit before the task just counted.
MaxReachedLate == MaxTasks # None /\ tasks_completed > MaxTasks

MaxReached == MaxTasks # None /\ tasks_completed >= MaxTasks

ReportCompleted ==
  /\ worker_pc = "completed"
  /\ Send("completed")
  /\ worker_pc' = IF MaxReached THEN "max_pause" ELSE "finish"
  /\ UNCHANGED <<tasks_completed, signals, fetched, accepted>>

EndSleep ==
  /\ worker_pc \in Pauses
  /\ worker_pc' = CASE worker_pc = "fetch_pause" -> "pause"
                    [] worker_pc = "pause"       -> "fetch"
                    [] worker_pc = "max_pause"   -> "report_max"
  /\ UNCHANGED <<tasks_completed, queue, signals, fetched, accepted>>

\* The last report, the signal to whoever listens by now, and the exit.
SignalMax ==
  /\ worker_pc = "report_max"
  /\ Send("max_reached")
  /\ signalled' = TRUE
  /\ max_pending' = max_subscribed
  /\ worker_pc' = "exited"
  /\ UNCHANGED <<tasks_completed, receiver_open, shutdown_pending, max_subscribed,
                 fetched, accepted>>

\* A fault: the worker looks for the signal only between two cycles.
StopBetweenCycles ==
  /\ worker_pc = "fetch"
  /\ "worker" \in shutdown_pending
  /\ shutdown_pending' = shutdown_pending \ {"worker"}
  /\ worker_pc' = "exited"
  /\ UNCHANGED <<tasks_completed, queue, receiver_open, max_subscribed, max_pending,
                 signalled, fetched, accepted>>

\* select! takes the shutdown signal at any await of the work cycle, which is
\* dropped there; the pause between two cycles is outside select!.
StopWorker ==
  /\ worker_pc \notin {"pause", "exited"}
  /\ "worker" \in shutdown_pending
  /\ shutdown_pending' = shutdown_pending \ {"worker"}
  /\ worker_pc' = "exited"
  /\ UNCHANGED <<tasks_completed, queue, receiver_open, max_subscribed, max_pending,
                 signalled, fetched, accepted>>

WorkerStep ==
  \/ ReportStep \/ FetchNotice \/ FetchEnds \/ ProveEnds \/ SubmitEnds
  \/ CountTask \/ ReportCompleted \/ EndSleep \/ SignalMax

Worker == WorkerStep \/ ServerTakesProof \/ StopWorker

-----------------------------------------------------------------------------

\* How many of these events wait in the queue.
Queued(event) == Cardinality({i \in 1..Len(queue) : queue[i] = event})

\* The worker as an abstract work cycle.  A maximum of zero still lets one task
\* be completed, and without a maximum no number of tasks is too many.
CycleLimit ==
  CASE MaxTasks = None -> MaxFetches + 1
    [] MaxTasks = 0    -> 1
    [] OTHER           -> MaxTasks

CyclePhase ==
  CASE worker_pc = "exited" -> "stopped"
    [] worker_pc \in {"fetch", "fetch_failed", "fetch_pause", "finish", "pause"} -> "idle"
    [] worker_pc \in {"completed", "max_pause", "report_max"} -> "counted"
    [] OTHER -> "working"

Cycle == INSTANCE WorkCycle WITH
  Limit <- CycleLimit, begun <- fetched, taken <- accepted,
  counted <- tasks_completed, phase <- CyclePhase
=============================================================================

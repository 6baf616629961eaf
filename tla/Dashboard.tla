------------------------------ MODULE Dashboard ------------------------------
(***************************************************************************)
(* ui/dashboard/updaters.rs: what the dashboard makes of the events of the *)
(* worker, one at a time and in their order.  Events are told apart by     *)
(* their text, which is a name here.  The activity log, the countdown of a *)
(* wait and the metrics of the machine are for display only; the fetching  *)
(* state never leaves Idle, the text that would start it is never sent.    *)
(***************************************************************************)
EXTENDS Integers

CONSTANT Most  \* bound: tasks in a behaviour

VARIABLE dashboard

Statuses == {"None", "Proved", "Proof Failed", "Success", "Submit Failed"}

DashboardTypeOK ==
  dashboard \in [tasks_fetched    : 0..Most,
                 tasks_submitted  : 0..Most,
                 last_task_status : Statuses,
                 step2            : BOOLEAN,  \* step2_start_time is set
                 prover_state     : {"Waiting", "Proving"}]

DashboardInit ==
  dashboard = [tasks_fetched |-> 0, tasks_submitted |-> 0,
               last_task_status |-> "None", step2 |-> FALSE,
               prover_state |-> "Waiting"]

-----------------------------------------------------------------------------

HandleTaskFetcherEvent(event) ==
  /\ event = "got_task"
  /\ dashboard' = [dashboard EXCEPT !.tasks_fetched = @ + 1, !.step2 = TRUE]

\* A fault: only a proof stops the clock of the task.
HandleProverEventKeepsTime(event) ==
  \/ /\ event = "proved"
     /\ dashboard' = IF dashboard.step2
                     THEN [dashboard EXCEPT !.last_task_status = "Proved", !.step2 = FALSE]
                     ELSE dashboard
  \/ /\ event = "prove_error"
     /\ dashboard' = [dashboard EXCEPT !.last_task_status = "Proof Failed"]

\* A proof counts only if its task was seen to begin.
HandleProverEvent(event) ==
  \/ /\ event = "proved"
     /\ dashboard' = IF dashboard.step2
                     THEN [dashboard EXCEPT !.last_task_status = "Proved", !.step2 = FALSE]
                     ELSE dashboard
  \/ /\ event = "prove_error"
     /\ dashboard' = [dashboard EXCEPT !.last_task_status = "Proof Failed", !.step2 = FALSE]

\* A fault: a task whose beginning was missed is submitted but not fetched.
SubmittedAsSeen ==
  [dashboard EXCEPT !.tasks_submitted = @ + 1, !.last_task_status = "Success"]

\* There are no fewer tasks fetched than submitted, whatever was missed.
Submitted ==
  LET submitted == dashboard.tasks_submitted + 1
  IN [dashboard EXCEPT !.tasks_submitted = submitted,
                       !.tasks_fetched = IF @ < submitted THEN submitted ELSE @,
                       !.last_task_status = "Success"]

HandleProofSubmitterEvent(event) ==
  \/ event = "submitted" /\ dashboard' = Submitted
  \/ /\ event = "submit_error"
     /\ dashboard' = [dashboard EXCEPT !.last_task_status = "Submit Failed"]

\* The state changes that carry a state of the prover; the start of a
\* submission carries none.
StateOf ==
  [ready |-> "Waiting", proving |-> "Proving", waiting |-> "Waiting",
   completed |-> "Waiting", max_reached |-> "Waiting"]

HandleStateChange(event) ==
  /\ event \in DOMAIN StateOf
  /\ dashboard' = [dashboard EXCEPT !.prover_state = StateOf[event]]

\* The events that only go to the activity log.
OnlyLogged == {"adjusted", "fetch_notice", "fetch_error", "submitting"}

ProcessEvent(event) ==
  \/ HandleTaskFetcherEvent(event)
  \/ HandleProverEvent(event)
  \/ HandleProofSubmitterEvent(event)
  \/ HandleStateChange(event)
  \/ event \in OnlyLogged /\ UNCHANGED dashboard
=============================================================================

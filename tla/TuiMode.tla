------------------------------- MODULE TuiMode -------------------------------
(***************************************************************************)
(* session/tui_mode.rs and the loop of ui/app.rs around the worker: the    *)
(* version check while the worker already runs, then per frame the check   *)
(* for the completion of max_tasks, the events, the keys; leaving the loop *)
(* signals the worker and drops the event receiver, then the worker is     *)
(* joined.  The dashboard handles in a frame the events it takes in it.    *)
(* The terminal does not fail.                                             *)
(***************************************************************************)
EXTENDS AuthenticatedWorker

VARIABLES
  main_pc,    \* where run_tui_mode or ui::run is
  screen,     \* app.current_screen; the login screen is never reached
  dashboard,  \* its state, once it is on the screen
  unseen      \* history: reports of an accepted proof that the splash screen took

INSTANCE Dashboard WITH Most <- MaxFetches

uiVars == <<screen, dashboard, unseen>>
vars == <<workerVars, main_pc, uiVars>>

TypeOK ==
  /\ WorkerTypeOK
  /\ main_pc \in {"version_check", "frame", "events", "keys", "joining", "done"}
  /\ screen \in {"splash", "dashboard"}
  /\ DashboardTypeOK
  /\ unseen \in 0..MaxFetches

Init ==
  /\ WorkerInit
  /\ main_pc = "version_check"
  /\ screen = "splash"
  /\ DashboardInit
  /\ unseen = 0

-----------------------------------------------------------------------------

OpenApp ==
  /\ main_pc = "version_check"
  /\ main_pc' = "frame"
  /\ ListenForMax
  /\ UNCHANGED uiVars

\* A fault: the loop is left without a word to the worker.
LeaveUnsignalled ==
  /\ main_pc' = "joining"
  /\ receiver_open' = FALSE
  /\ queue' = <<>>
  /\ max_pending' = FALSE /\ max_subscribed' = FALSE
  /\ UNCHANGED <<shutdown_pending, worker_pc, tasks_completed, signalled, fetched,
                 accepted, uiVars>>

\* The signal to the worker, then the return drops the app with its receivers.
Leave ==
  /\ main_pc' = "joining"
  /\ shutdown_pending' = shutdown_pending \cup {"worker"}
  /\ receiver_open' = FALSE
  /\ queue' = <<>>
  /\ max_pending' = FALSE /\ max_subscribed' = FALSE
  /\ UNCHANGED <<worker_pc, tasks_completed, signalled, fetched, accepted, uiVars>>

MaxTasksDone == main_pc = "frame" /\ max_pending /\ Leave

NoSignal ==
  /\ main_pc = "frame"
  /\ ~max_pending
  /\ main_pc' = "events"
  /\ UNCHANGED <<workerVars, uiVars>>

\* A frame first takes all events there are and then processes them, in the order
\* they came; nobody reads the state in between, so one step does both for one
\* event.  The splash screen has no use for events and drops them.
TakeEvent ==
  /\ main_pc = "events"
  /\ Receive
  /\ \/ /\ screen = "dashboard"
        /\ ProcessEvent(Head(queue))
        /\ UNCHANGED unseen
     \/ /\ screen = "splash"
        /\ unseen' = unseen + (IF Head(queue) = "submitted" THEN 1 ELSE 0)
        /\ UNCHANGED dashboard
  /\ UNCHANGED <<main_pc, screen>>

Draw ==
  /\ main_pc = "events"
  /\ queue = <<>>
  /\ main_pc' = "keys"
  /\ UNCHANGED <<workerVars, uiVars>>

\* A fault: the next frame begins after the check for the signal.
SkipsCheck ==
  /\ main_pc = "keys"
  /\ main_pc' = "events"
  /\ screen' \in {screen, "dashboard"}
  /\ UNCHANGED <<workerVars, dashboard, unseen>>

\* Nothing pressed, a key with no effect, or the end of the splash screen, by
\* its time (the keys are not polled then) or by a key.
NextFrame ==
  /\ main_pc = "keys"
  /\ main_pc' = "frame"
  /\ screen' \in {screen, "dashboard"}
  /\ UNCHANGED <<workerVars, dashboard, unseen>>

PressQuit == main_pc = "keys" /\ Leave

JoinWorker ==
  /\ main_pc = "joining"
  /\ worker_pc = "exited"
  /\ main_pc' = "done"
  /\ UNCHANGED <<workerVars, uiVars>>

Main == OpenApp \/ MaxTasksDone \/ NoSignal \/ TakeEvent \/ Draw \/ NextFrame \/ JoinWorker

OfWorker == Worker /\ UNCHANGED <<main_pc, uiVars>>

Next == OfWorker \/ Main \/ PressQuit

\* As in HeadlessMode; nobody has to press a key.
Spec == Init /\ [][Next]_vars

FairSpec ==
  /\ Spec
  /\ WF_vars(WorkerStep /\ UNCHANGED <<main_pc, uiVars>>)
  /\ SF_vars(StopWorker /\ UNCHANGED <<main_pc, uiVars>>)
  /\ WF_vars(Main)

-----------------------------------------------------------------------------
(***************************************************************************)
(* Properties                                                              *)
(***************************************************************************)

\* While the app is open every counted task is counted on the screen, waits in
\* the queue or came during the splash screen; and the server accepted its proof.
ReportsMatch ==
  /\ receiver_open =>
       dashboard.tasks_submitted + unseen + Queued("submitted") = tasks_completed
  /\ tasks_completed <= Cardinality(accepted)

\* The dashboard may open in the middle of a task and miss how it began.  Still
\* it shows no more tasks submitted than fetched and none that was not fetched.
FetchesMatch ==
  receiver_open =>
    /\ dashboard.tasks_submitted <= dashboard.tasks_fetched
    /\ dashboard.tasks_fetched + Queued("got_task") <= fetched

\* The awaits behind the announcement of a proof and before the next Waiting;
\* those behind Got task and before the report of the proof.
Announced == {"proving", "prove_failed", "give_up", "proved", "submit", "submitting",
              "submit_failed", "submitted", "completed", "finish", "exited"}
Proving == {"announce", "proving", "prove_failed", "proved", "exited"}

NoneQueued(events) == \A i \in 1..Len(queue) : queue[i] \notin events

\* What the dashboard shows of the prover is so, as soon as it has seen all the
\* events that say otherwise: it never stays at Proving, and the clock of a task
\* never runs on, while the worker fetches, sleeps or has failed.
StateShownIsReal ==
  receiver_open =>
    /\ dashboard.prover_state = "Proving" /\ NoneQueued(DOMAIN StateOf) =>
         worker_pc \in Announced
    /\ dashboard.step2 /\ NoneQueued({"proved", "prove_error"}) =>
         worker_pc \in Proving

\* Leaving the screen ends the program: the worker stops wherever it is.
LeavingEnds == main_pc = "joining" ~> main_pc = "done"

\* The completion of max_tasks, once it has reached the app, ends the program.
HeardMaxEndsSession == max_pending ~> main_pc = "done"
=============================================================================

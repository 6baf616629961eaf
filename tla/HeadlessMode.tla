---------------------------- MODULE HeadlessMode ----------------------------
(***************************************************************************)
(* session/headless_mode.rs around the worker: the version check while the *)
(* worker already runs, the task that waits for Ctrl+C, the two            *)
(* subscriptions, the loop that prints events until a signal arrives, and  *)
(* the wait for the worker.  A broadcast signal reaches the receivers that *)
(* exist when it is sent and no other.                                     *)
(***************************************************************************)
EXTENDS AuthenticatedWorker

VARIABLES
  main_pc,  \* where run_headless_mode is
  ctrl_c,   \* the Ctrl+C task: none, spawned, armed (it listens), fired
  shown     \* history: the reports of an accepted proof that were printed

vars == <<workerVars, main_pc, ctrl_c, shown>>

TypeOK ==
  /\ WorkerTypeOK
  /\ main_pc \in {"version_check", "subscribe", "subscribe_max", "listening",
                  "joining", "done"}
  /\ ctrl_c \in {"none", "spawned", "armed", "fired"}
  /\ shown \in 0..MaxFetches

Init ==
  /\ WorkerInit
  /\ main_pc = "version_check"
  /\ ctrl_c = "none"
  /\ shown = 0

-----------------------------------------------------------------------------

VersionChecked ==
  /\ main_pc = "version_check"
  /\ main_pc' = "subscribe"
  /\ ctrl_c' = "spawned"
  /\ UNCHANGED <<workerVars, shown>>

\* The spawned task runs for the first time; before that Ctrl+C kills the
\* process, which is a stop of everything and not modelled.
ArmCtrlC ==
  /\ ctrl_c = "spawned"
  /\ ctrl_c' = "armed"
  /\ UNCHANGED <<workerVars, main_pc, shown>>

SessionListens == main_pc \notin {"version_check", "subscribe"}

\* The signal goes to the receivers there are; the task ends with it.
PressCtrlC ==
  /\ ctrl_c = "armed"
  /\ ctrl_c' = "fired"
  /\ Broadcast(IF SessionListens THEN {"worker", "session"} ELSE {"worker"})
  /\ UNCHANGED <<main_pc, shown>>

Subscribe ==
  /\ main_pc = "subscribe"
  /\ main_pc' = "subscribe_max"
  /\ UNCHANGED <<workerVars, ctrl_c, shown>>

SubscribeMax ==
  /\ main_pc = "subscribe_max"
  /\ main_pc' = "listening"
  /\ ListenForMax
  /\ UNCHANGED <<ctrl_c, shown>>

PrintEvent ==
  /\ main_pc = "listening"
  /\ Receive
  /\ shown' = shown + (IF Head(queue) = "submitted" THEN 1 ELSE 0)
  /\ UNCHANGED <<main_pc, ctrl_c>>

\* Either signal ends the loop; select! may take it before waiting events.
\* Nobody receives events from here on, but the receiver stays open.
LeaveLoop ==
  /\ main_pc = "listening"
  /\ "session" \in shutdown_pending \/ max_pending
  /\ main_pc' = "joining"
  /\ UNCHANGED <<workerVars, ctrl_c, shown>>

JoinWorker ==
  /\ main_pc = "joining"
  /\ worker_pc = "exited"
  /\ main_pc' = "done"
  /\ UNCHANGED <<workerVars, ctrl_c, shown>>

Main ==
  VersionChecked \/ Subscribe \/ SubscribeMax \/ PrintEvent \/ LeaveLoop \/ JoinWorker

OfWorker == Worker /\ UNCHANGED <<main_pc, ctrl_c, shown>>

Next == OfWorker \/ Main \/ ArmCtrlC \/ PressCtrlC

\* The runtime keeps polling every task.  select! polls its branches in random
\* order, so a signal that waits is taken in the end: by the worker (strong
\* fairness, the pause between two cycles suspends it) and by the loop that
\* prints.  Nobody has to press Ctrl+C and the server has to do nothing.
Spec == Init /\ [][Next]_vars

FairSpec ==
  /\ Spec
  /\ WF_vars(WorkerStep /\ UNCHANGED <<main_pc, ctrl_c, shown>>)
  /\ SF_vars(StopWorker /\ UNCHANGED <<main_pc, ctrl_c, shown>>)
  /\ WF_vars(Main)
  /\ WF_vars(LeaveLoop)
  /\ WF_vars(ArmCtrlC)

-----------------------------------------------------------------------------
(***************************************************************************)
(* Properties                                                              *)
(***************************************************************************)

\* The user sees what happened: every task that was counted is printed or
\* waits in the queue, once, and the server accepted its proof.
ReportsMatch ==
  /\ shown + Queued("submitted") = tasks_completed
  /\ tasks_completed <= Cardinality(accepted)

\* A signal the session has received ends it: the worker stops wherever it is,
\* also at the full queue nobody empties any more.
HeardSignalEndsSession ==
  ("session" \in shutdown_pending \/ max_pending) ~> main_pc = "done"

\* The worker does the work cycle and no more: it counts only what the server
\* accepted and nothing begins after the last task.
ImplementsWorkCycle == Cycle!Spec

-----------------------------------------------------------------------------
(***************************************************************************)
(* Statements of the sources that the code does not keep                   *)
(***************************************************************************)

\* authenticated_worker.rs: "Send shutdown signal to trigger application exit".
\* The signal of a worker that is done before the session subscribes is lost.
MaxTasksEndSession == signalled ~> main_pc = "done"
=============================================================================

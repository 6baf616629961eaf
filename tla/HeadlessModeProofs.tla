------------------------- MODULE HeadlessModeProofs -------------------------
(***************************************************************************)
(* The safety properties of the headless session, for every limit, queue   *)
(* capacity and number of tasks: what is printed is what was counted, and  *)
(* the worker within the session implements the abstract work cycle.       *)
(***************************************************************************)
EXTENDS HeadlessMode, AuthenticatedWorkerProofs

\* Every counted task has been reported once: to the user, or to the queue.
Reported == shown + Queued("submitted") = tasks_completed

HeadlessInv ==
  /\ WorkerInv
  /\ TypeOK
  /\ receiver_open
  /\ Reported

-----------------------------------------------------------------------------

LEMMA InitInv == Init => HeadlessInv
<1> SUFFICES ASSUME Init PROVE HeadlessInv
  OBVIOUS
<1>1. WorkerInv
  BY WorkerInitInv DEF Init
<1>2. TypeOK
  BY <1>1, WorkerAssumption DEF Init, TypeOK, WorkerInv
<1>3. Queued("submitted") = 0
  BY InitQueued DEF Init
<1> QED
  BY <1>1, <1>2, <1>3 DEF Init, WorkerInit, HeadlessInv, Reported

\* The worker reports a task as accepted when it counts it, and then only.
LEMMA WorkerReports ==
  ASSUME HeadlessInv, OfWorker
  PROVE  Reported'
<1>1. queue \in Seq(Event) /\ queue' \in Seq(Event)
  BY WorkerInvStep DEF HeadlessInv, WorkerInv, WorkerTypeOK, OfWorker
<1>2. Queued("submitted") \in Nat /\ Queued("submitted")' \in Nat
  BY <1>1, QueuedIsCounted, CountedFinite
<1>3. Queued("submitted")' + tasks_completed = Queued("submitted") + tasks_completed'
  BY WorkerCounts DEF HeadlessInv, OfWorker
<1>4. tasks_completed \in Nat /\ tasks_completed' \in Nat /\ shown \in Nat /\ shown' = shown
  BY WorkerInvStep, WorkerAssumption
     DEF HeadlessInv, TypeOK, WorkerInv, WorkerTypeOK, OfWorker
<1> QED
  BY <1>2, <1>3, <1>4 DEF HeadlessInv, Reported

\* A report printed leaves the queue.
LEMMA PrintReports ==
  ASSUME HeadlessInv, PrintEvent
  PROVE  Reported' /\ WorkerInv' /\ receiver_open'
<1>1. queue \in Seq(Event) /\ Len(queue) <= Capacity /\ queue # <<>> /\ queue' = Tail(queue)
  BY DEF HeadlessInv, WorkerInv, WorkerTypeOK, PrintEvent, Receive
<1>2. Queued("submitted") =
        Queued("submitted")' + (IF Head(queue) = "submitted" THEN 1 ELSE 0)
  BY <1>1, QueuedIsCounted, CountedTail
<1>3. queue' \in Seq(Event) /\ Len(queue') <= Capacity
  BY <1>1, WorkerAssumption
<1>4. Queued("submitted")' \in Nat
  BY <1>3, QueuedIsCounted, CountedFinite
<1>5. Reported'
  BY <1>2, <1>4, WorkerAssumption
     DEF HeadlessInv, Reported, PrintEvent, Receive, TypeOK, WorkerTypeOK
<1>6. WorkerInv' /\ receiver_open'
  BY <1>3, SessionStepInv DEF HeadlessInv, WorkerInv, WorkerTypeOK, PrintEvent, Receive
<1> QED
  BY <1>5, <1>6

\* Everything else the session does leaves the events and the counts alone.
LEMMA QuietStep ==
  ASSUME HeadlessInv,
         UNCHANGED <<worker_pc, tasks_completed, queue, receiver_open, fetched,
                     accepted, shown, max_pending, signalled>>,
         shutdown_pending' \subseteq {"worker", "session"}, max_subscribed' \in BOOLEAN
  PROVE  Reported' /\ WorkerInv' /\ receiver_open'
<1>1. Reported' /\ receiver_open'
  BY DEF HeadlessInv, Reported, Queued
<1>2. WorkerInv'
  BY SessionStepInv DEF HeadlessInv, WorkerInv, WorkerTypeOK
<1> QED
  BY <1>1, <1>2

LEMMA QuietSteps ==
  ASSUME HeadlessInv,
         \/ VersionChecked \/ ArmCtrlC \/ PressCtrlC \/ Subscribe \/ SubscribeMax
         \/ LeaveLoop \/ JoinWorker \/ UNCHANGED vars
  PROVE  Reported' /\ WorkerInv' /\ receiver_open'
<1>1. shutdown_pending \subseteq {"worker", "session"} /\ max_subscribed \in BOOLEAN
  BY DEF HeadlessInv, WorkerInv, WorkerTypeOK
<1>2. CASE PressCtrlC
  BY <1>1, <1>2, QuietStep DEF PressCtrlC, Broadcast
<1>3. CASE SubscribeMax
  BY <1>1, <1>3, QuietStep DEF SubscribeMax, ListenForMax
<1>4. CASE VersionChecked \/ ArmCtrlC \/ Subscribe \/ LeaveLoop \/ JoinWorker
           \/ UNCHANGED vars
  <2>1. UNCHANGED workerVars /\ UNCHANGED shown
    BY <1>4 DEF VersionChecked, ArmCtrlC, Subscribe, LeaveLoop, JoinWorker, vars
  <2> QED
    BY <1>1, <2>1, QuietStep DEF workerVars
<1> QED
  BY <1>2, <1>3, <1>4

LEMMA StepInv == HeadlessInv /\ [Next]_vars => HeadlessInv'
<1> SUFFICES ASSUME HeadlessInv, [Next]_vars PROVE HeadlessInv'
  OBVIOUS
<1>1. Reported' /\ WorkerInv' /\ receiver_open'
  <2>1. CASE OfWorker
    <3>1. receiver_open'
      BY <2>1, WorkerLeavesReceiver DEF OfWorker, HeadlessInv
    <3> QED
      BY <2>1, <3>1, WorkerInvStep, WorkerReports DEF OfWorker, HeadlessInv
  <2>2. CASE PrintEvent
    BY <2>2, PrintReports
  <2> QED
    BY <2>1, <2>2, QuietSteps DEF Next, Main
<1>2. shown' \in Nat
  BY WorkerAssumption DEF HeadlessInv, TypeOK, Next, Main, OfWorker, VersionChecked,
     ArmCtrlC, PressCtrlC, Subscribe, SubscribeMax, PrintEvent, LeaveLoop, JoinWorker, vars
<1>3. shown' \in 0..MaxFetches
  <2>1. queue' \in Seq(Event) /\ tasks_completed' \in 0..MaxFetches
    BY <1>1 DEF WorkerInv, WorkerTypeOK
  <2>2. Queued("submitted")' \in Nat
    BY <2>1, QueuedIsCounted, CountedFinite
  <2> QED
    BY <1>1, <1>2, <2>1, <2>2, WorkerAssumption DEF Reported
<1>4. /\ main_pc' \in {"version_check", "subscribe", "subscribe_max", "listening",
                        "joining", "done"}
      /\ ctrl_c' \in {"none", "spawned", "armed", "fired"}
  BY DEF HeadlessInv, TypeOK, Next, Main, OfWorker, VersionChecked, ArmCtrlC,
     PressCtrlC, Subscribe, SubscribeMax, PrintEvent, LeaveLoop, JoinWorker, vars
<1> QED
  BY <1>1, <1>3, <1>4 DEF HeadlessInv, TypeOK, WorkerInv

LEMMA Invariance == Spec => []HeadlessInv
BY InitInv, StepInv, PTL DEF Spec

-----------------------------------------------------------------------------
(***************************************************************************)
(* Theorems                                                                *)
(***************************************************************************)

\* Every variable of the worker, its queue and the session keeps its type; the
\* queue never holds more events than it has room for.
THEOREM SessionTypeCorrect == Spec => []TypeOK
<1>1. HeadlessInv => TypeOK
  BY DEF HeadlessInv
<1> QED
  BY <1>1, Invariance, PTL

\* Every counted task is printed or waits in the queue, once, and no more tasks
\* are counted than the server took proofs, wherever the worker is cancelled.
THEOREM ReportsAlwaysMatch == Spec => []ReportsMatch
<1>1. HeadlessInv => ReportsMatch
  <2> SUFFICES ASSUME HeadlessInv PROVE ReportsMatch
    OBVIOUS
  <2>1. tasks_completed <= Cardinality(accepted)
    BY SettledSize, WorkerAssumption
       DEF HeadlessInv, WorkerInv, WorkerTypeOK, CountsAccepted
  <2> QED
    BY <2>1 DEF HeadlessInv, Reported, ReportsMatch
<1> QED
  BY <1>1, Invariance, PTL

\* However the worker is stopped, it never counts more tasks than max_tasks; a
\* maximum of zero counts as one.
THEOREM LimitIsKept == Spec => [](tasks_completed <= CycleLimit)
<1>1. HeadlessInv => tasks_completed <= CycleLimit
  BY DEF HeadlessInv, WorkerInv, BelowLimit
<1> QED
  BY <1>1, Invariance, PTL

-----------------------------------------------------------------------------

\* What the session does is no step of the cycle.
LEMMA RefinedSession ==
  ASSUME Main \/ ArmCtrlC \/ PressCtrlC \/ UNCHANGED vars
  PROVE  [Cycle!Next]_(Cycle!cycleVars)
<1>1. UNCHANGED <<worker_pc, fetched, accepted, tasks_completed>>
  BY DEF Main, VersionChecked, ArmCtrlC, PressCtrlC, Subscribe, SubscribeMax, PrintEvent,
     LeaveLoop, JoinWorker, Broadcast, ListenForMax, Receive, vars, workerVars
<1>2. CyclePhase' = CyclePhase
  BY <1>1 DEF CyclePhase
<1> QED
  BY <1>1, <1>2, CycleStuts

\* The worker of the session, cancelled at any await, does the abstract work
\* cycle: tasks one at a time, counted once and only after the server took the
\* proof, and none begun at the limit or after a stop.
THEOREM WorkerImplementsCycle == Spec => ImplementsWorkCycle
<1>1. Init => Cycle!Init
  BY RefinedInit DEF Init
<1>2. HeadlessInv /\ [Next]_vars => [Cycle!Next]_(Cycle!cycleVars)
  BY RefinedWorker, RefinedSession DEF Next, OfWorker, HeadlessInv
<1> QED
  BY <1>1, <1>2, Invariance, PTL DEF Spec, ImplementsWorkCycle, Cycle!Spec
=============================================================================

---------------------------- MODULE TuiModeProofs ----------------------------
(***************************************************************************)
(* The safety properties of the dashboard session, for every limit, queue  *)
(* capacity and number of tasks.  What the screen may still come to show   *)
(* is in the queue, so the invariant speaks of every end of it.            *)
(***************************************************************************)
EXTENDS TuiMode, AuthenticatedWorkerProofs

\* Every counted task is counted on the screen, waits in the queue, or came
\* during the splash screen.
Reported == dashboard.tasks_submitted + unseen + Queued("submitted") = tasks_completed

\* A task is fetched and not yet announced.
Unannounced == IF worker_pc \in {"adjusted", "got"} THEN 1 ELSE 0

\* Whatever is received of the queue, the rest announces no more tasks than were
\* fetched and not completed when it began.
RestFits ==
  \A k \in 0..Len(queue) :
    Cardinality(Counted(queue, k, "got_task")) + Unannounced + tasks_completed
      <= Cardinality(Counted(queue, k, "submitted")) + fetched

\* The screen has not seen more than happened.
ScreenFits ==
  /\ dashboard.tasks_submitted <= dashboard.tasks_fetched
  /\ dashboard.tasks_fetched + Queued("got_task") + Unannounced <= fetched

\* Once the queue is empty something will be shown that one event starts and
\* others end, provided that it is shown now or that the start is in the queue.
WillShow(q, shown, start, ends) ==
  \/ shown /\ \A i \in 1..Len(q) : q[i] \notin ends
  \/ \E i \in 1..Len(q) :
       /\ q[i] = start
       /\ \A j \in i + 1..Len(q) : q[j] \notin ends

ShowsProving ==
  WillShow(queue, dashboard.prover_state = "Proving", "proving", DOMAIN StateOf) =>
    worker_pc \in Announced

ShowsTask ==
  WillShow(queue, dashboard.step2, "got_task", {"proved", "prove_error"}) =>
    worker_pc \in Proving

\* The receiver is there while the app is open, and the dashboard has seen
\* nothing while the splash screen is shown.
AppOpen ==
  /\ receiver_open <=> main_pc \notin {"joining", "done"}
  /\ screen = "splash" => DashboardInit

Consistent == Reported /\ RestFits /\ ScreenFits /\ ShowsProving /\ ShowsTask

TuiInv ==
  /\ WorkerInv
  /\ TypeOK
  /\ AppOpen
  /\ receiver_open => Consistent

\* The type of the dashboard without the bound on its counts.
ScreenType ==
  dashboard \in [tasks_fetched    : Nat,
                 tasks_submitted  : Nat,
                 last_task_status : Statuses,
                 step2            : BOOLEAN,
                 prover_state     : {"Waiting", "Proving"}]

-----------------------------------------------------------------------------
(***************************************************************************)
(* What will be shown, and what one event does to the screen               *)
(***************************************************************************)

LEMMA WillShowAppend ==
  ASSUME NEW q \in Seq(Event), NEW new \in Event, NEW shown, NEW start, NEW ends,
         WillShow(Append(q, new), shown, start, ends)
  PROVE  new = start \/ (new \notin ends /\ WillShow(q, shown, start, ends))
<1> DEFINE longer == Append(q, new)
<1>1. /\ Len(q) \in Nat
      /\ Len(longer) = Len(q) + 1
      /\ \A i \in 1..Len(q) : longer[i] = q[i]
      /\ longer[Len(q) + 1] = new
  OBVIOUS
<1> HIDE DEF longer
<1>2. CASE shown /\ \A i \in 1..Len(longer) : longer[i] \notin ends
  <2>1. new \notin ends
    BY <1>1, <1>2
  <2>2. \A i \in 1..Len(q) : q[i] \notin ends
    BY <1>1, <1>2
  <2> QED
    BY <1>2, <2>1, <2>2 DEF WillShow
<1>3. ASSUME NEW i \in 1..Len(longer), longer[i] = start,
             \A j \in i + 1..Len(longer) : longer[j] \notin ends,
             new # start
      PROVE  new \notin ends /\ WillShow(q, shown, start, ends)
  <2>1. i \in 1..Len(q) /\ q[i] = start
    BY <1>1, <1>3
  <2>2. new \notin ends /\ \A j \in i + 1..Len(q) : q[j] \notin ends
    BY <1>1, <1>3, <2>1
  <2> QED
    BY <2>1, <2>2 DEF WillShow
<1> QED
  BY <1>2, <1>3 DEF WillShow, longer

LEMMA WillShowTail ==
  ASSUME NEW q \in Seq(Event), q # <<>>, NEW before, NEW after, NEW start, NEW ends,
         after => Head(q) = start \/ (before /\ Head(q) \notin ends),
         WillShow(Tail(q), after, start, ends)
  PROVE  WillShow(q, before, start, ends)
<1> DEFINE rest == Tail(q)
<1>1. /\ Len(q) \in Nat \ {0}
      /\ Len(rest) = Len(q) - 1
      /\ \A i \in 1..Len(rest) : rest[i] = q[i + 1]
      /\ Head(q) = q[1]
  OBVIOUS
<1> HIDE DEF rest
<1>2. CASE after /\ \A i \in 1..Len(rest) : rest[i] \notin ends
  <2>1. \A i \in 2..Len(q) : i - 1 \in 1..Len(rest) /\ rest[i - 1] = q[i]
    BY <1>1
  <2>2. \A i \in 2..Len(q) : q[i] \notin ends
    BY <1>2, <2>1
  <2>3. \A i \in 1..Len(q) : i = 1 \/ i \in 2..Len(q)
    BY <1>1
  <2>4. 1 \in 1..Len(q) /\ 1 + 1 = 2
    BY <1>1
  <2>5. CASE Head(q) = start
    BY <1>1, <2>2, <2>4, <2>5 DEF WillShow
  <2>6. CASE before /\ Head(q) \notin ends
    BY <1>1, <2>2, <2>3, <2>6 DEF WillShow
  <2> QED
    BY <1>2, <2>5, <2>6
<1>3. ASSUME NEW i \in 1..Len(rest), rest[i] = start,
             \A j \in i + 1..Len(rest) : rest[j] \notin ends
      PROVE  WillShow(q, before, start, ends)
  <2>1. i + 1 \in 1..Len(q) /\ q[i + 1] = start
    BY <1>1, <1>3
  <2>2. ASSUME NEW j \in i + 1 + 1..Len(q) PROVE q[j] \notin ends
    <3>1. j - 1 \in i + 1..Len(rest) /\ j - 1 \in 1..Len(rest) /\ (j - 1) + 1 = j
      BY <1>1
    <3> QED
      BY <1>1, <1>3, <3>1
  <2> QED
    BY <2>1, <2>2 DEF WillShow
<1> QED
  BY <1>2, <1>3 DEF WillShow, rest

LEMMA StatesShown ==
  /\ DOMAIN StateOf = {"ready", "proving", "waiting", "completed", "max_reached"}
  /\ \A event \in DOMAIN StateOf :
       StateOf[event] = IF event = "proving" THEN "Proving" ELSE "Waiting"
BY DEF StateOf

\* What an event may change of what the screen shows.
LEMMA EventShown ==
  ASSUME ScreenType, NEW event, ProcessEvent(event)
  PROVE  /\ ScreenType'
         /\ dashboard'.tasks_submitted =
              IF event = "submitted" THEN dashboard.tasks_submitted + 1
              ELSE dashboard.tasks_submitted
         /\ dashboard'.tasks_fetched =
              CASE event = "got_task" -> dashboard.tasks_fetched + 1
                [] event = "submitted" /\ dashboard.tasks_fetched <= dashboard.tasks_submitted ->
                     dashboard.tasks_submitted + 1
                [] OTHER -> dashboard.tasks_fetched
         /\ dashboard'.prover_state = "Proving" =>
              \/ event = "proving"
              \/ dashboard.prover_state = "Proving" /\ event \notin DOMAIN StateOf
         /\ dashboard'.step2 =>
              \/ event = "got_task"
              \/ dashboard.step2 /\ event \notin {"proved", "prove_error"}
<1> USE StatesShown DEF ScreenType
<1>1. CASE HandleTaskFetcherEvent(event)
  <2> DEFINE n == dashboard.tasks_fetched + 1
  <2>0. /\ n \in Nat /\ event = "got_task"
        /\ dashboard' = [dashboard EXCEPT !.tasks_fetched = n, !.step2 = TRUE]
    BY <1>1 DEF HandleTaskFetcherEvent
  <2> HIDE DEF n
  <2>1. ScreenType' /\ event = "got_task"
    BY <2>0
  <2>2. /\ dashboard'.tasks_fetched = dashboard.tasks_fetched + 1
        /\ dashboard'.tasks_submitted = dashboard.tasks_submitted
        /\ dashboard'.prover_state = dashboard.prover_state
    BY <1>1 DEF HandleTaskFetcherEvent
  <2> HIDE DEF ScreenType
  <2> QED
    BY <2>1, <2>2
<1>2. CASE HandleProverEvent(event)
  BY <1>2 DEF HandleProverEvent, Statuses
<1>3. CASE HandleProofSubmitterEvent(event)
  <2>1. CASE event = "submitted" /\ dashboard' = Submitted
    <3> DEFINE n == dashboard.tasks_submitted + 1
               f == IF dashboard.tasks_fetched < n THEN n ELSE dashboard.tasks_fetched
    <3>1. dashboard.tasks_fetched \in Nat /\ dashboard.tasks_submitted \in Nat
      OBVIOUS
    <3>2. dashboard' = [dashboard EXCEPT !.tasks_submitted = n, !.tasks_fetched = f,
                                         !.last_task_status = "Success"]
      BY <2>1, Zenon DEF Submitted
    <3>3. /\ dashboard'.tasks_fetched = f
          /\ dashboard'.tasks_submitted = dashboard.tasks_submitted + 1
          /\ dashboard'.prover_state = dashboard.prover_state
          /\ dashboard'.step2 = dashboard.step2
      BY <3>2
    <3>4. "Success" \in Statuses
      BY DEF Statuses
    <3> HIDE DEF ScreenType
    <3>5. n \in Nat /\ f \in Nat
      BY <3>1
    <3> HIDE DEF n, f
    <3>6. ScreenType'
      BY <3>2, <3>4, <3>5 DEF ScreenType
    <3> QED
      BY <2>1, <3>1, <3>3, <3>6 DEF n, f
  <2>2. CASE event = "submit_error"
    BY <1>3, <2>2 DEF HandleProofSubmitterEvent, Statuses
  <2> QED
    BY <1>3, <2>1, <2>2 DEF HandleProofSubmitterEvent
<1>4. CASE HandleStateChange(event)
  BY <1>4 DEF HandleStateChange
<1>5. CASE event \in OnlyLogged /\ UNCHANGED dashboard
  BY <1>5 DEF OnlyLogged
<1> QED
  BY <1>1, <1>2, <1>3, <1>4, <1>5 DEF ProcessEvent

-----------------------------------------------------------------------------
(***************************************************************************)
(* The steps of the worker                                                 *)
(***************************************************************************)

\* A task that is not announced is not completed either.
LEMMA CompletedFit == WorkerInv => tasks_completed + Unannounced <= fetched
<1> SUFFICES ASSUME WorkerInv PROVE tasks_completed + Unannounced <= fetched
  OBVIOUS
<1>1. /\ tasks_completed \in Nat /\ fetched \in Nat
      /\ tasks_completed <= Cardinality(Settled)
      /\ Cardinality(Settled) \in Nat /\ Cardinality(accepted) \in Nat
      /\ Cardinality(Settled) <= Cardinality(accepted) /\ Cardinality(accepted) <= fetched
  BY SettledSize, WorkerAssumption DEF WorkerInv, WorkerTypeOK, CountsAccepted
<1>2. CASE worker_pc \in {"adjusted", "got"}
  <2> DEFINE others == fetched - 1
  <2>1. accepted \subseteq 1..others /\ others \in Nat
    BY <1>1, <1>2 DEF WorkerInv, CountsAccepted, Unsubmitted, InHand
  <2> HIDE DEF others
  <2>2. IsFiniteSet(1..others) /\ Cardinality(1..others) = others
    BY <2>1, FS_Interval
  <2>3. Cardinality(accepted) <= others
    BY <2>1, <2>2, FS_Subset
  <2> QED
    BY <1>1, <1>2, <2>1, <2>3 DEF Unannounced, others
<1>3. CASE worker_pc \notin {"adjusted", "got"}
  BY <1>1, <1>3 DEF Unannounced
<1> QED
  BY <1>2, <1>3

\* A report is the right one for where the worker goes.
LEMMA ReportShows ==
  ASSUME ReportStep
  PROVE  LET event == Report[worker_pc].event
         IN /\ event \in Event /\ event # "submitted"
            /\ (IF event = "got_task" THEN 1 ELSE 0) + Unannounced' <= Unannounced
            /\ event = "proving" => worker_pc' \in Announced
            /\ event \notin DOMAIN StateOf /\ worker_pc \in Announced =>
                 worker_pc' \in Announced
            /\ event = "got_task" => worker_pc' \in Proving
            /\ event \notin {"proved", "prove_error"} /\ worker_pc \in Proving =>
                 worker_pc' \in Proving
<1>1. worker_pc \in DOMAIN Report /\ worker_pc' = Report[worker_pc].next
  BY DEF ReportStep
<1> QED
  BY <1>1, StatesShown DEF Report, Event, Unannounced, Announced, Proving

\* What a step of the worker sends, and what it may do to the task in hand.
LEMMA WorkerShows ==
  ASSUME WorkerInv, Worker
  PROVE  \/ /\ UNCHANGED <<queue, tasks_completed>>
            /\ fetched' \in Nat /\ Unannounced' + fetched <= Unannounced + fetched'
            /\ worker_pc \in Announced => worker_pc' \in Announced
            /\ worker_pc \in Proving => worker_pc' \in Proving
         \/ \E event \in Event :
              /\ Send(event)
              /\ tasks_completed' = IF event = "submitted" THEN tasks_completed + 1
                                    ELSE tasks_completed
              /\ fetched' = fetched
              /\ (IF event = "got_task" THEN 1 ELSE 0) + Unannounced' <= Unannounced
              /\ event = "proving" => worker_pc' \in Announced
              /\ event \notin DOMAIN StateOf /\ worker_pc \in Announced =>
                   worker_pc' \in Announced
              /\ event = "got_task" => worker_pc' \in Proving
              /\ event \notin {"proved", "prove_error"} /\ worker_pc \in Proving =>
                   worker_pc' \in Proving
<1>1. CASE ReportStep
  BY <1>1, ReportShows DEF ReportStep
<1>2. {"fetch_notice", "submitted", "completed", "max_reached"} \subseteq Event
  BY DEF Event
<1>3. CASE FetchNotice
  BY <1>2, <1>3, StatesShown DEF FetchNotice, Unannounced, Announced, Proving
<1>4. CASE CountTask
  BY <1>2, <1>4, StatesShown DEF CountTask, Unannounced, Announced, Proving
<1>5. CASE ReportCompleted
  BY <1>2, <1>5, StatesShown DEF ReportCompleted, Unannounced, Announced, Proving
<1>6. CASE SignalMax
  BY <1>2, <1>6, StatesShown DEF SignalMax, Unannounced, Announced, Proving
<1>7. fetched \in Nat
  BY WorkerAssumption DEF WorkerInv, WorkerTypeOK
<1>8. CASE FetchEnds
  BY <1>7, <1>8 DEF FetchEnds, Unannounced, Announced, Proving
<1>9. CASE ProveEnds \/ SubmitEnds \/ EndSleep \/ ServerTakesProof \/ StopWorker
  BY <1>7, <1>9 DEF ProveEnds, SubmitEnds, EndSleep, Pauses, ServerTakesProof, StopWorker,
                    Unannounced, Announced, Proving
<1> QED
  BY <1>1, <1>3, <1>4, <1>5, <1>6, <1>8, <1>9 DEF Worker, WorkerStep

-----------------------------------------------------------------------------
(***************************************************************************)
(* The invariant                                                           *)
(***************************************************************************)

LEMMA ScreenTyped ==
  ASSUME TypeOK
  PROVE  ScreenType /\ unseen \in Nat
BY WorkerAssumption DEF TypeOK, DashboardTypeOK, ScreenType

\* What the counts say bounds them, so that their type need not be shown apart.
LEMMA CountsBounded ==
  WorkerInv /\ ScreenType /\ unseen \in Nat /\ Reported /\ ScreenFits =>
    DashboardTypeOK /\ unseen \in 0..MaxFetches
<1> SUFFICES ASSUME WorkerInv, ScreenType, unseen \in Nat, Reported, ScreenFits
             PROVE  DashboardTypeOK /\ unseen \in 0..MaxFetches
  OBVIOUS
<1>1. /\ tasks_completed \in 0..MaxFetches /\ fetched \in 0..MaxFetches
      /\ Queued("submitted") \in Nat /\ Queued("got_task") \in Nat
      /\ Unannounced \in Nat
  BY QueuedType DEF WorkerInv, WorkerTypeOK, Unannounced
<1>2. dashboard.tasks_fetched \in Nat /\ dashboard.tasks_submitted \in Nat
  BY DEF ScreenType
<1>3. /\ dashboard.tasks_fetched \in 0..MaxFetches
      /\ dashboard.tasks_submitted \in 0..MaxFetches
      /\ unseen \in 0..MaxFetches
  BY <1>1, <1>2, WorkerAssumption DEF Reported, ScreenFits
<1>4. DashboardTypeOK
  BY <1>3 DEF ScreenType, DashboardTypeOK
<1> QED
  BY <1>3, <1>4

LEMMA InitInv == Init => TuiInv
<1> SUFFICES ASSUME Init PROVE TuiInv
  OBVIOUS
<1> USE DEF Init
<1>1. WorkerInv
  BY WorkerInitInv
<1>2. dashboard = [tasks_fetched |-> 0, tasks_submitted |-> 0, last_task_status |-> "None",
                   step2 |-> FALSE, prover_state |-> "Waiting"]
  BY DEF DashboardInit
<1>3. TypeOK
  BY <1>1, <1>2, WorkerAssumption DEF TypeOK, WorkerInv, DashboardTypeOK, Statuses
<1>4. AppOpen
  BY DEF AppOpen, WorkerInit
<1>5. queue = <<"ready">> /\ Len(queue) = 1 /\ queue[1] = "ready" /\ worker_pc = "fetch"
      /\ fetched = 0 /\ tasks_completed = 0
  BY DEF WorkerInit
<1>6. Queued("submitted") = 0 /\ Queued("got_task") = 0
  BY InitQueued
<1>7. Reported /\ ScreenFits
  BY <1>2, <1>5, <1>6 DEF Reported, ScreenFits, Unannounced
<1>8. RestFits
  <2> SUFFICES ASSUME NEW k \in 0..Len(queue)
               PROVE  /\ Cardinality(Counted(queue, k, "got_task")) = 0
                      /\ Cardinality(Counted(queue, k, "submitted")) = 0
    BY <1>5 DEF RestFits, Unannounced
  <2>1. Counted(queue, k, "got_task") = {} /\ Counted(queue, k, "submitted") = {}
    BY <1>5 DEF Counted
  <2> QED
    BY <2>1, FS_EmptySet
<1>9. ShowsProving /\ ShowsTask
  BY <1>2, <1>5 DEF ShowsProving, ShowsTask, WillShow
<1> QED
  BY <1>1, <1>3, <1>4, <1>7, <1>8, <1>9 DEF TuiInv, Consistent

\* A step of the worker while the app is open.
LEMMA WorkerConsistent ==
  ASSUME TuiInv, receiver_open, OfWorker
  PROVE  Consistent'
<1> USE DEF TuiInv, OfWorker
<1>1. WorkerInv /\ WorkerInv' /\ Consistent
  BY WorkerInvStep
<1>2. /\ tasks_completed \in Nat /\ tasks_completed' \in Nat
      /\ fetched \in Nat /\ Unannounced \in Nat
  BY <1>1, WorkerAssumption DEF WorkerInv, WorkerTypeOK, Unannounced
<1>3. PICK unannounced \in Nat, begun \in Nat, completed \in Nat :
        Unannounced' = unannounced /\ fetched' = begun /\ tasks_completed' = completed
  BY <1>1, WorkerAssumption DEF WorkerInv, WorkerTypeOK, Unannounced
<1>4. queue \in Seq(Event) /\ queue' \in Seq(Event)
  BY <1>1 DEF WorkerInv, WorkerTypeOK
<1>5. UNCHANGED <<dashboard, unseen, screen>>
  BY DEF uiVars
<1>6. /\ dashboard.tasks_fetched \in Nat /\ dashboard.tasks_submitted \in Nat
      /\ unseen \in Nat
  BY ScreenTyped DEF ScreenType
<1> HIDE DEF TuiInv, OfWorker
<1>7. /\ Queued("submitted") \in Nat /\ Queued("submitted")' \in Nat
      /\ Queued("got_task") \in Nat /\ Queued("got_task")' \in Nat
  BY <1>4, QueuedIsCounted, CountedFinite
<1>8. Reported'
  <2>1. Queued("submitted")' + tasks_completed = Queued("submitted") + tasks_completed'
    BY <1>1, WorkerCounts DEF OfWorker
  <2>2. dashboard.tasks_submitted + unseen + Queued("submitted") = tasks_completed
    BY <1>1 DEF Consistent, Reported
  <2>3. dashboard.tasks_submitted + unseen + Queued("submitted")' = tasks_completed'
    BY <1>2, <1>6, <1>7, <2>1, <2>2
  <2> QED
    BY <1>5, <2>3 DEF Reported
<1>9. tasks_completed' + Unannounced' <= fetched'
  <2>1. (WorkerInv => tasks_completed + Unannounced <= fetched)'
    BY CompletedFit, PTL
  <2> QED
    BY <1>1, <2>1
<1>10. ASSUME UNCHANGED <<queue, tasks_completed>>,
             Unannounced' + fetched <= Unannounced + fetched',
             worker_pc \in Announced => worker_pc' \in Announced,
             worker_pc \in Proving => worker_pc' \in Proving
      PROVE  Consistent'
  <2>1. RestFits'
    <3> SUFFICES ASSUME NEW k \in 0..Len(queue)
                 PROVE  Cardinality(Counted(queue, k, "got_task")) + Unannounced' + tasks_completed
                          <= Cardinality(Counted(queue, k, "submitted")) + fetched'
      BY <1>10 DEF RestFits
    <3>1. /\ Cardinality(Counted(queue, k, "got_task")) \in Nat
          /\ Cardinality(Counted(queue, k, "submitted")) \in Nat
      BY <1>4, CountedFinite
    <3>2. Cardinality(Counted(queue, k, "got_task")) + Unannounced + tasks_completed
            <= Cardinality(Counted(queue, k, "submitted")) + fetched
      BY <1>1 DEF Consistent, RestFits
    <3> QED
      BY <1>2, <1>3, <1>10, <3>1, <3>2
  <2>2. ScreenFits'
    <3>1. Queued("got_task")' = Queued("got_task")
      BY <1>10 DEF Queued
    <3>2. /\ dashboard.tasks_submitted <= dashboard.tasks_fetched
          /\ dashboard.tasks_fetched + Queued("got_task") + Unannounced <= fetched
      BY <1>1 DEF Consistent, ScreenFits
    <3>3. dashboard.tasks_fetched + Queued("got_task")' + Unannounced' <= fetched'
      BY <1>2, <1>3, <1>6, <1>7, <1>10, <3>1, <3>2
    <3> QED
      BY <1>5, <3>2, <3>3 DEF ScreenFits
  <2>3. ShowsProving' /\ ShowsTask'
    BY <1>1, <1>5, <1>10 DEF Consistent, ShowsProving, ShowsTask, WillShow
  <2> QED
    BY <1>8, <2>1, <2>2, <2>3 DEF Consistent
<1>11. ASSUME NEW event \in Event, Send(event),
             tasks_completed' = IF event = "submitted" THEN tasks_completed + 1
                                ELSE tasks_completed,
             fetched' = fetched,
             (IF event = "got_task" THEN 1 ELSE 0) + Unannounced' <= Unannounced,
             event = "proving" => worker_pc' \in Announced,
             event \notin DOMAIN StateOf /\ worker_pc \in Announced => worker_pc' \in Announced,
             event = "got_task" => worker_pc' \in Proving,
             event \notin {"proved", "prove_error"} /\ worker_pc \in Proving =>
               worker_pc' \in Proving
      PROVE  Consistent'
  <2>1. queue' = Append(queue, event) /\ Len(queue') = Len(queue) + 1 /\ Len(queue) \in Nat
    BY <1>4, <1>11 DEF Send
  <2>2. RestFits'
    <3> SUFFICES ASSUME NEW k \in 0..Len(queue')
                 PROVE  Cardinality(Counted(queue', k, "got_task")) + Unannounced' + tasks_completed'
                          <= Cardinality(Counted(queue', k, "submitted")) + fetched'
      BY DEF RestFits
    <3>1. CASE k = Len(queue')
      <4>1. /\ Cardinality(Counted(queue', k, "got_task")) = 0
            /\ Cardinality(Counted(queue', k, "submitted")) = 0
        BY <1>4, <3>1, CountedNone
      <4> QED
        BY <1>2, <1>3, <1>9, <4>1
    <3>2. CASE k # Len(queue')
      <4>1. k \in 0..Len(queue)
        BY <2>1, <3>2
      <4> DEFINE got == Cardinality(Counted(queue, k, "got_task"))
                 submitted == Cardinality(Counted(queue, k, "submitted"))
      <4>2. got \in Nat /\ submitted \in Nat
        BY <1>4, CountedFinite
      <4>3. Cardinality(Counted(queue', k, "got_task")) =
              got + (IF event = "got_task" THEN 1 ELSE 0)
        BY <1>4, <2>1, <4>1, CountedAppend
      <4>4. Cardinality(Counted(queue', k, "submitted")) =
              submitted + (IF event = "submitted" THEN 1 ELSE 0)
        BY <1>4, <2>1, <4>1, CountedAppend
      <4>5. got + Unannounced + tasks_completed <= submitted + fetched
        BY <1>1, <4>1 DEF Consistent, RestFits
      <4> HIDE DEF got, submitted
      <4> QED
        BY <1>2, <1>3, <1>11, <4>2, <4>3, <4>4, <4>5
    <3> QED
      BY <3>1, <3>2
  <2>3. ScreenFits'
    <3>1. Queued("got_task")' = Queued("got_task") + (IF event = "got_task" THEN 1 ELSE 0)
      BY <1>1, <1>11, SendQueued
    <3>2. /\ dashboard.tasks_submitted <= dashboard.tasks_fetched
          /\ dashboard.tasks_fetched + Queued("got_task") + Unannounced <= fetched
      BY <1>1 DEF Consistent, ScreenFits
    <3>3. dashboard.tasks_fetched + Queued("got_task")' + Unannounced' <= fetched'
      BY <1>2, <1>3, <1>6, <1>7, <1>11, <3>1, <3>2
    <3> QED
      BY <1>5, <3>2, <3>3 DEF ScreenFits
  <2>4. ShowsProving'
    <3> SUFFICES ASSUME WillShow(queue', dashboard.prover_state = "Proving", "proving",
                                 DOMAIN StateOf)
                 PROVE  worker_pc' \in Announced
      BY <1>5 DEF ShowsProving
    <3>1. \/ event = "proving"
          \/ /\ event \notin DOMAIN StateOf
             /\ WillShow(queue, dashboard.prover_state = "Proving", "proving", DOMAIN StateOf)
      BY <1>4, <2>1, WillShowAppend
    <3> QED
      BY <1>1, <1>11, <3>1 DEF Consistent, ShowsProving
  <2>5. ShowsTask'
    <3> SUFFICES ASSUME WillShow(queue', dashboard.step2, "got_task", {"proved", "prove_error"})
                 PROVE  worker_pc' \in Proving
      BY <1>5 DEF ShowsTask
    <3>1. \/ event = "got_task"
          \/ /\ event \notin {"proved", "prove_error"}
             /\ WillShow(queue, dashboard.step2, "got_task", {"proved", "prove_error"})
      BY <1>4, <2>1, WillShowAppend
    <3> QED
      BY <1>1, <1>11, <3>1 DEF Consistent, ShowsTask
  <2> QED
    BY <1>8, <2>2, <2>3, <2>4, <2>5 DEF Consistent
<1> QED
  BY <1>1, <1>10, <1>11, WorkerShows DEF OfWorker

\* An event that is received leaves the queue for the screen, or for nothing.
LEMMA TakeConsistent ==
  ASSUME TuiInv, TakeEvent
  PROVE  /\ Consistent' /\ ScreenType' /\ unseen' \in Nat
         /\ WorkerInv' /\ UNCHANGED <<receiver_open, main_pc, screen>>
         /\ screen = "splash" => UNCHANGED dashboard
<1> DEFINE event == Head(queue)
<1>1. /\ main_pc = "events" /\ queue # <<>> /\ queue' = Tail(queue)
      /\ UNCHANGED <<worker_pc, tasks_completed, receiver_open, shutdown_pending,
                     max_subscribed, max_pending, signalled, fetched, accepted>>
      /\ UNCHANGED <<main_pc, screen>>
  BY DEF TakeEvent, Receive
<1>2. receiver_open /\ Consistent /\ WorkerInv /\ ScreenType /\ unseen \in Nat
  BY <1>1, ScreenTyped DEF TuiInv, AppOpen
<1>3. /\ queue \in Seq(Event) /\ Len(queue) <= Capacity
      /\ tasks_completed \in Nat /\ fetched \in Nat
      /\ Unannounced \in Nat /\ Unannounced' = Unannounced
  BY <1>1, <1>2, WorkerAssumption DEF WorkerInv, WorkerTypeOK, Unannounced
<1>4. /\ Len(queue) \in Nat \ {0}
      /\ queue' \in Seq(Event) /\ Len(queue') = Len(queue) - 1 /\ Len(queue') <= Capacity
  BY <1>1, <1>3, WorkerAssumption
<1>5. WorkerInv'
  BY <1>1, <1>2, <1>4, SessionStepInv DEF WorkerInv, WorkerTypeOK
<1>6. /\ ScreenType' /\ unseen' \in Nat
      /\ dashboard'.tasks_submitted + unseen' =
           dashboard.tasks_submitted + unseen + (IF event = "submitted" THEN 1 ELSE 0)
      /\ \/ dashboard'.tasks_fetched = dashboard.tasks_fetched
            /\ dashboard'.tasks_submitted = dashboard.tasks_submitted
         \/ /\ event = "got_task"
            /\ dashboard'.tasks_fetched = dashboard.tasks_fetched + 1
            /\ dashboard'.tasks_submitted = dashboard.tasks_submitted
         \/ /\ event = "submitted"
            /\ dashboard'.tasks_submitted = dashboard.tasks_submitted + 1
            /\ \/ dashboard'.tasks_fetched = dashboard'.tasks_submitted
               \/ /\ dashboard'.tasks_fetched = dashboard.tasks_fetched
                  /\ dashboard'.tasks_submitted <= dashboard.tasks_fetched
      /\ dashboard'.prover_state = "Proving" =>
           \/ event = "proving"
           \/ dashboard.prover_state = "Proving" /\ event \notin DOMAIN StateOf
      /\ dashboard'.step2 =>
           \/ event = "got_task"
           \/ dashboard.step2 /\ event \notin {"proved", "prove_error"}
      /\ screen = "splash" => UNCHANGED dashboard
  <2>1. /\ dashboard.tasks_fetched \in Nat /\ dashboard.tasks_submitted \in Nat
    BY <1>2 DEF ScreenType
  <2>2. CASE screen = "dashboard" /\ ProcessEvent(event) /\ UNCHANGED unseen
    BY <1>2, <2>1, <2>2, EventShown
  <2>3. CASE /\ screen = "splash" /\ UNCHANGED dashboard
             /\ unseen' = unseen + (IF event = "submitted" THEN 1 ELSE 0)
    <3>1. dashboard.prover_state # "Proving" /\ ~dashboard.step2
      BY <2>3 DEF TuiInv, AppOpen, DashboardInit
    <3>2. ScreenType'
      BY <1>2, <2>3 DEF ScreenType
    <3> HIDE DEF event
    <3> QED
      BY <1>2, <2>1, <2>3, <3>1, <3>2
  <2> QED
    BY <2>2, <2>3 DEF TakeEvent
<1> HIDE DEF event
<1>7. PICK got \in Nat, done \in Nat, waiting \in Nat, began \in Nat, missed \in Nat :
        /\ Queued("got_task")' = got /\ Queued("submitted")' = waiting
        /\ dashboard'.tasks_submitted = done /\ dashboard'.tasks_fetched = began
        /\ unseen' = missed
  BY <1>4, <1>6, QueuedIsCounted, CountedFinite DEF ScreenType
<1>8. /\ dashboard.tasks_fetched \in Nat /\ dashboard.tasks_submitted \in Nat
      /\ Queued("got_task") = Queued("got_task")' + (IF event = "got_task" THEN 1 ELSE 0)
      /\ Queued("submitted") = Queued("submitted")' + (IF event = "submitted" THEN 1 ELSE 0)
  BY <1>1, <1>2, <1>3, QueuedIsCounted, CountedTail DEF ScreenType, event
<1>9. Reported'
  <2>1. dashboard.tasks_submitted + unseen + Queued("submitted") = tasks_completed
    BY <1>2 DEF Consistent, Reported
  <2>2. done + missed + waiting = tasks_completed
    BY <1>2, <1>3, <1>6, <1>8, <1>7, <2>1
  <2> QED
    BY <1>1, <1>7, <2>2 DEF Reported
<1>10. RestFits'
  <2> SUFFICES ASSUME NEW k \in 0..Len(queue')
               PROVE  Cardinality(Counted(queue', k, "got_task")) + Unannounced + tasks_completed
                        <= Cardinality(Counted(queue', k, "submitted")) + fetched
    BY <1>1, <1>3 DEF RestFits
  <2>1. k \in 0..Len(queue) - 1 /\ k + 1 \in 0..Len(queue)
    BY <1>4
  <2>2. /\ Cardinality(Counted(queue', k, "got_task")) =
             Cardinality(Counted(queue, k + 1, "got_task"))
        /\ Cardinality(Counted(queue', k, "submitted")) =
             Cardinality(Counted(queue, k + 1, "submitted"))
    BY <1>1, <1>3, <2>1, CountedShift
  <2> QED
    BY <1>2, <2>1, <2>2 DEF Consistent, RestFits
\* The screen may only now begin to count a task of which it sees the end.
<1>11. ScreenFits'
  <2>1. /\ dashboard.tasks_submitted <= dashboard.tasks_fetched
        /\ dashboard.tasks_fetched + Queued("got_task") + Unannounced <= fetched
        /\ dashboard.tasks_submitted + unseen + Queued("submitted") = tasks_completed
    BY <1>2 DEF Consistent, ScreenFits, Reported
  <2>2. Queued("got_task")' + Unannounced + tasks_completed <= Queued("submitted")' + fetched
    <3>1. 0 \in 0..Len(queue')
      BY <1>4
    <3>2. Cardinality(Counted(queue', 0, "got_task")) + Unannounced + tasks_completed
            <= Cardinality(Counted(queue', 0, "submitted")) + fetched
      BY <1>1, <1>3, <1>10, <3>1 DEF RestFits
    <3> QED
      BY <3>2, QueuedIsCounted
  <2>3. done <= began
    BY <1>6, <1>8, <1>7, <2>1
  <2>4. began + got + Unannounced <= fetched
    <3>1. CASE event = "submitted" /\ began = done
      BY <1>2, <1>3, <1>6, <1>8, <1>7, <2>1, <2>2, <3>1
    <3>2. CASE ~(event = "submitted" /\ began = done)
      <4>1. \/ event # "got_task" /\ began = dashboard.tasks_fetched
            \/ event = "got_task" /\ began <= dashboard.tasks_fetched + 1
        <5>1. CASE event = "submitted"
          BY <1>6, <1>7, <3>2, <5>1
        <5>2. CASE event # "submitted"
          BY <1>6, <1>8, <1>7, <5>2
        <5> QED
          BY <5>1, <5>2
      <4>2. CASE event # "got_task"
        BY <1>3, <1>8, <1>7, <2>1, <4>1, <4>2
      <4>3. CASE event = "got_task"
        BY <1>3, <1>8, <1>7, <2>1, <4>1, <4>3
      <4> QED
        BY <4>2, <4>3
    <3> QED
      BY <3>1, <3>2
  <2> QED
    BY <1>1, <1>3, <1>7, <2>3, <2>4 DEF ScreenFits
<1>12. ShowsProving'
  <2> SUFFICES ASSUME WillShow(queue', dashboard'.prover_state = "Proving", "proving",
                               DOMAIN StateOf)
               PROVE  worker_pc \in Announced
    BY <1>1 DEF ShowsProving
  <2>1. WillShow(queue, dashboard.prover_state = "Proving", "proving", DOMAIN StateOf)
    BY <1>1, <1>3, <1>6, WillShowTail DEF event
  <2> QED
    BY <1>2, <2>1 DEF Consistent, ShowsProving
<1>13. ShowsTask'
  <2> SUFFICES ASSUME WillShow(queue', dashboard'.step2, "got_task", {"proved", "prove_error"})
               PROVE  worker_pc \in Proving
    BY <1>1 DEF ShowsTask
  <2>1. WillShow(queue, dashboard.step2, "got_task", {"proved", "prove_error"})
    BY <1>1, <1>3, <1>6, WillShowTail DEF event
  <2> QED
    BY <1>2, <2>1 DEF Consistent, ShowsTask
<1> QED
  BY <1>1, <1>5, <1>6, <1>9, <1>10, <1>11, <1>12, <1>13 DEF Consistent

\* Leaving drops the receiver with the queue and leaves the worker to its signal.
LEMMA LeaveInv ==
  ASSUME TuiInv, MaxTasksDone \/ PressQuit
  PROVE  TuiInv'
<1>1. /\ Leave /\ main_pc' = "joining" /\ ~receiver_open'
      /\ queue' = <<>> /\ UNCHANGED <<dashboard, unseen, screen>>
  BY DEF MaxTasksDone, PressQuit, Leave, uiVars
<1>2. shutdown_pending \subseteq {"worker", "session"}
  BY DEF TuiInv, WorkerInv, WorkerTypeOK
<1>3. <<>> \in Seq(Event) /\ Len(<<>>) = 0 /\ 0 <= Capacity
  BY WorkerAssumption
<1>4. WorkerInv'
  BY <1>1, <1>2, <1>3, SessionStepInv DEF TuiInv, Leave, WorkerInv, WorkerTypeOK
<1>5. AppOpen' /\ TypeOK'
  BY <1>1, <1>4 DEF TuiInv, AppOpen, DashboardInit, TypeOK, DashboardTypeOK, WorkerInv
<1> QED
  BY <1>1, <1>4, <1>5 DEF TuiInv

\* Everything else the session does leaves the events and the screen alone, but
\* that the dashboard may take the place of the splash screen.
LEMMA QuietInv ==
  ASSUME TuiInv, OpenApp \/ NoSignal \/ Draw \/ NextFrame \/ JoinWorker \/ UNCHANGED vars
  PROVE  TuiInv'
<1>1. /\ UNCHANGED <<worker_pc, tasks_completed, queue, receiver_open, shutdown_pending,
                     max_pending, signalled, fetched, accepted, dashboard, unseen>>
      /\ max_subscribed' \in BOOLEAN
  BY DEF OpenApp, NoSignal, Draw, NextFrame, JoinWorker, vars, workerVars, uiVars,
         ListenForMax, TuiInv, WorkerInv, WorkerTypeOK
<1>2. /\ screen' \in {screen, "dashboard"}
      /\ \/ main_pc' = main_pc
         \/ /\ main_pc \in {"version_check", "frame", "events", "keys"}
            /\ main_pc' \in {"frame", "events", "keys"}
         \/ main_pc = "joining" /\ main_pc' = "done"
  BY DEF OpenApp, NoSignal, Draw, NextFrame, JoinWorker, vars, uiVars
<1>3. WorkerInv'
  BY <1>1, SessionStepInv DEF TuiInv, WorkerInv, WorkerTypeOK
<1>4. AppOpen' /\ TypeOK'
  BY <1>1, <1>2, <1>3 DEF TuiInv, AppOpen, DashboardInit, TypeOK, DashboardTypeOK, WorkerInv
<1>5. Consistent' = Consistent
  BY <1>1 DEF Consistent, Reported, RestFits, ScreenFits, ShowsProving, ShowsTask, WillShow,
              Queued, Counted, Unannounced
<1> QED
  BY <1>1, <1>3, <1>4, <1>5 DEF TuiInv

LEMMA WorkerStepInv ==
  ASSUME TuiInv, OfWorker
  PROVE  TuiInv'
<1>1. WorkerInv'
  BY WorkerInvStep DEF TuiInv, OfWorker
<1>2. UNCHANGED <<receiver_open, main_pc, screen, dashboard, unseen>>
  BY WorkerLeavesReceiver DEF OfWorker, uiVars
<1>3. AppOpen' /\ TypeOK'
  BY <1>1, <1>2 DEF TuiInv, AppOpen, DashboardInit, TypeOK, DashboardTypeOK, WorkerInv
<1>4. receiver_open' => Consistent'
  BY <1>2, WorkerConsistent
<1> QED
  BY <1>1, <1>3, <1>4 DEF TuiInv

LEMMA TakeEventInv ==
  ASSUME TuiInv, TakeEvent
  PROVE  TuiInv'
<1>1. /\ Consistent' /\ ScreenType' /\ unseen' \in Nat
      /\ WorkerInv' /\ UNCHANGED <<receiver_open, main_pc, screen>>
      /\ screen = "splash" => UNCHANGED dashboard
  BY TakeConsistent
<1>2. DashboardTypeOK' /\ unseen' \in 0..MaxFetches
  <2>1. (WorkerInv /\ ScreenType /\ unseen \in Nat /\ Reported /\ ScreenFits =>
           DashboardTypeOK /\ unseen \in 0..MaxFetches)'
    BY CountsBounded, PTL
  <2> QED
    BY <1>1, <2>1 DEF Consistent
<1>3. AppOpen' /\ TypeOK'
  BY <1>1, <1>2 DEF TuiInv, AppOpen, DashboardInit, TypeOK, WorkerInv
<1> QED
  BY <1>1, <1>3 DEF TuiInv

LEMMA StepInv == TuiInv /\ [Next]_vars => TuiInv'
BY WorkerStepInv, TakeEventInv, LeaveInv, QuietInv DEF Next, Main

LEMMA Invariance == Spec => []TuiInv
BY InitInv, StepInv, PTL DEF Spec

-----------------------------------------------------------------------------
(***************************************************************************)
(* Theorems                                                                *)
(***************************************************************************)

\* Every variable of the session keeps its type: the queue stays within its
\* capacity, and the screen never counts more tasks than can be fetched.
THEOREM SessionTypeCorrect == Spec => []TypeOK
<1>1. TuiInv => TypeOK
  BY DEF TuiInv
<1> QED
  BY <1>1, Invariance, PTL

\* While the app is open every counted task is on the screen, in the queue or
\* was seen by the splash screen, once; and the server accepted its proof.
THEOREM ReportsAlwaysMatch == Spec => []ReportsMatch
<1>1. TuiInv => ReportsMatch
  <2> SUFFICES ASSUME TuiInv PROVE ReportsMatch
    OBVIOUS
  <2>1. tasks_completed <= Cardinality(accepted)
    BY SettledSize, WorkerAssumption DEF TuiInv, WorkerInv, WorkerTypeOK, CountsAccepted
  <2> QED
    BY <2>1 DEF TuiInv, Consistent, Reported, ReportsMatch
<1> QED
  BY <1>1, Invariance, PTL

\* The dashboard never shows more tasks submitted than fetched, nor a task that
\* was not fetched, though it may open in the middle of one.
THEOREM FetchesAlwaysMatch == Spec => []FetchesMatch
<1>1. TuiInv => FetchesMatch
  <2> SUFFICES ASSUME TuiInv, receiver_open PROVE FetchesMatch
    BY DEF FetchesMatch
  <2>1. /\ queue \in Seq(Event) /\ Unannounced \in Nat /\ fetched \in Nat
        /\ dashboard.tasks_fetched \in Nat
    BY ScreenTyped, WorkerAssumption
       DEF TuiInv, WorkerInv, WorkerTypeOK, Unannounced, ScreenType
  <2>2. Queued("got_task") \in Nat
    BY <2>1, QueuedType
  <2>3. /\ dashboard.tasks_submitted <= dashboard.tasks_fetched
        /\ dashboard.tasks_fetched + Queued("got_task") + Unannounced <= fetched
    BY DEF TuiInv, Consistent, ScreenFits
  <2> QED
    BY <2>1, <2>2, <2>3 DEF FetchesMatch
<1> QED
  BY <1>1, Invariance, PTL

\* The dashboard does not stay at Proving, nor the clock of a task run on, once
\* it has seen the events that say that the worker is elsewhere.
THEOREM StateShownIsAlwaysReal == Spec => []StateShownIsReal
<1>1. TuiInv => StateShownIsReal
  BY DEF TuiInv, Consistent, ShowsProving, ShowsTask, WillShow, NoneQueued, StateShownIsReal
<1> QED
  BY <1>1, Invariance, PTL

\* However the worker is stopped, it never counts more tasks than max_tasks; a
\* maximum of zero counts as one.
THEOREM LimitIsKept == Spec => [](tasks_completed <= CycleLimit)
<1>1. TuiInv => tasks_completed <= CycleLimit
  BY DEF TuiInv, WorkerInv, BelowLimit
<1> QED
  BY <1>1, Invariance, PTL

-----------------------------------------------------------------------------

\* What the session does is no step of the cycle.
LEMMA RefinedSession ==
  ASSUME Main \/ PressQuit \/ UNCHANGED vars
  PROVE  [Cycle!Next]_(Cycle!cycleVars)
<1>1. UNCHANGED <<worker_pc, fetched, accepted, tasks_completed>>
  BY DEF Main, OpenApp, MaxTasksDone, PressQuit, Leave, NoSignal, TakeEvent, Draw, NextFrame,
         JoinWorker, ListenForMax, Receive, vars, workerVars
<1>2. CyclePhase' = CyclePhase
  BY <1>1 DEF CyclePhase
<1> QED
  BY <1>1, <1>2, CycleStuts

\* Under the dashboard too the worker does the abstract work cycle, cancelled at
\* any await or left without a receiver.
THEOREM WorkerImplementsCycle == Spec => Cycle!Spec
<1>1. Init => Cycle!Init
  BY RefinedInit DEF Init
<1>2. TuiInv /\ [Next]_vars => [Cycle!Next]_(Cycle!cycleVars)
  BY RefinedWorker, RefinedSession DEF Next, OfWorker, TuiInv
<1> QED
  BY <1>1, <1>2, Invariance, PTL DEF Spec, Cycle!Spec
=============================================================================

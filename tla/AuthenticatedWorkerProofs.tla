--------------------- MODULE AuthenticatedWorkerProofs ---------------------
(***************************************************************************)
(* Facts about the authenticated worker, for every limit, queue capacity   *)
(* and number of tasks: what its steps do to the events that wait, and the *)
(* invariant that ties the tasks it counts to the proofs the server took.  *)
(***************************************************************************)
EXTENDS AuthenticatedWorker, FiniteSetTheorems, SequenceTheorems, TLAPS

\* The places behind the first `k' of a queue that hold this event.
Counted(q, k, event) == {i \in k + 1 .. Len(q) : q[i] = event}

-----------------------------------------------------------------------------

LEMMA CountedFinite ==
  ASSUME NEW q \in Seq(Event), NEW k \in Nat, NEW event
  PROVE  IsFiniteSet(Counted(q, k, event)) /\ Cardinality(Counted(q, k, event)) \in Nat
<1>1. IsFiniteSet(k + 1 .. Len(q))
  BY FS_Interval
<1>2. Counted(q, k, event) \subseteq k + 1 .. Len(q)
  BY DEF Counted
<1> QED
  BY <1>1, <1>2, FS_Subset, FS_CardinalityType

\* An event sent is an event more, and nothing is behind it.
LEMMA CountedAppend ==
  ASSUME NEW q \in Seq(Event), NEW new \in Event, NEW k \in 0..Len(q), NEW event
  PROVE  Cardinality(Counted(Append(q, new), k, event)) =
           Cardinality(Counted(q, k, event)) + (IF new = event THEN 1 ELSE 0)
<1> DEFINE longer == Append(q, new)
<1>1. /\ Len(q) \in Nat /\ k \in Nat /\ k <= Len(q)
      /\ Len(longer) = Len(q) + 1
      /\ \A i \in 1..Len(q) : longer[i] = q[i]
      /\ longer[Len(q) + 1] = new
  OBVIOUS
<1> HIDE DEF longer
<1>2. CASE new = event
  <2>1. Counted(longer, k, event) = Counted(q, k, event) \cup {Len(q) + 1}
    BY <1>1, <1>2 DEF Counted
  <2>2. Len(q) + 1 \notin Counted(q, k, event)
    BY <1>1 DEF Counted
  <2> QED
    BY <1>1, <1>2, <2>1, <2>2, CountedFinite, FS_AddElement DEF longer
<1>3. CASE new # event
  <2>1. Counted(longer, k, event) = Counted(q, k, event)
    BY <1>1, <1>3 DEF Counted
  <2> QED
    BY <1>1, <1>3, <2>1, CountedFinite DEF longer
<1> QED
  BY <1>2, <1>3

LEMMA CountedNone ==
  ASSUME NEW q \in Seq(Event), NEW event
  PROVE  Cardinality(Counted(q, Len(q), event)) = 0
<1>1. Counted(q, Len(q), event) = {}
  BY DEF Counted
<1> QED
  BY <1>1, FS_EmptySet

\* What is behind the first event of a queue is what its tail holds.
LEMMA CountedShift ==
  ASSUME NEW q \in Seq(Event), q # <<>>, NEW k \in 0..Len(q) - 1, NEW event
  PROVE  Cardinality(Counted(Tail(q), k, event)) = Cardinality(Counted(q, k + 1, event))
<1> DEFINE rest == Tail(q)
           shift == [i \in Counted(rest, k, event) |-> i + 1]
           later == Counted(q, k + 1, event)
<1>1. /\ rest \in Seq(Event)
      /\ Len(q) \in Nat \ {0} /\ k \in Nat
      /\ Len(rest) = Len(q) - 1
      /\ \A i \in 1..Len(rest) : rest[i] = q[i + 1]
  OBVIOUS
<1> HIDE DEF rest
<1>2. \A i \in Counted(rest, k, event) : i \in Nat /\ i + 1 \in later
  BY <1>1 DEF Counted
<1>3. \A j \in later : j - 1 \in Counted(rest, k, event) /\ (j - 1) + 1 = j
  BY <1>1 DEF Counted
<1> HIDE DEF later
<1>4. shift \in Bijection(Counted(rest, k, event), later)
  <2>1. shift \in Injection(Counted(rest, k, event), later)
    BY <1>2 DEF Injection, IsInjective
  <2>2. shift \in Surjection(Counted(rest, k, event), later)
    BY <1>2, <1>3 DEF Surjection
  <2> QED
    BY <2>1, <2>2 DEF Bijection
<1> HIDE DEF shift
<1>5. Cardinality(later) = Cardinality(Counted(rest, k, event))
  <2>1. IsFiniteSet(Counted(rest, k, event))
    BY <1>1, CountedFinite
  <2> QED
    BY <1>4, <2>1, FS_Bijection DEF ExistsBijection
<1> QED
  BY <1>5 DEF rest, later

\* An event received is an event less.
LEMMA CountedTail ==
  ASSUME NEW q \in Seq(Event), q # <<>>, NEW event
  PROVE  Cardinality(Counted(q, 0, event)) =
           Cardinality(Counted(Tail(q), 0, event)) + (IF Head(q) = event THEN 1 ELSE 0)
<1>1. Len(q) \in Nat \ {0} /\ Head(q) = q[1]
  OBVIOUS
<1>2. Cardinality(Counted(Tail(q), 0, event)) = Cardinality(Counted(q, 1, event))
  <2>1. 0 \in 0..Len(q) - 1
    BY <1>1
  <2> QED
    BY <2>1, CountedShift
<1>3. IsFiniteSet(Counted(q, 1, event)) /\ Cardinality(Counted(q, 1, event)) \in Nat
  BY CountedFinite
<1>4. CASE Head(q) = event
  <2>1. Counted(q, 0, event) = Counted(q, 1, event) \cup {1} /\ 1 \notin Counted(q, 1, event)
    BY <1>1, <1>4 DEF Counted
  <2> QED
    BY <1>2, <1>3, <1>4, <2>1, FS_AddElement
<1>5. CASE Head(q) # event
  <2>1. Counted(q, 0, event) = Counted(q, 1, event)
    BY <1>1, <1>5 DEF Counted
  <2> QED
    BY <1>2, <1>3, <1>5, <2>1
<1> QED
  BY <1>4, <1>5

LEMMA QueuedIsCounted ==
  ASSUME NEW event
  PROVE  /\ Queued(event) = Cardinality(Counted(queue, 0, event))
         /\ Queued(event)' = Cardinality(Counted(queue', 0, event))
BY DEF Queued, Counted

LEMMA QueuedType ==
  ASSUME queue \in Seq(Event), NEW event
  PROVE  Queued(event) \in Nat
BY QueuedIsCounted, CountedFinite

-----------------------------------------------------------------------------
(***************************************************************************)
(* The invariant of the worker                                             *)
(***************************************************************************)

\* A task is in hand and not counted; of those, nothing is submitted yet.
InHand == {"adjusted", "got", "announce", "proving", "prove_failed", "give_up",
           "proved", "submit", "submitting", "submitted"}
Unsubmitted == InHand \ {"submitting", "submitted"}

\* The cycles are over, or the last one may be; the limit is never passed.
Over == {"completed", "max_pause", "report_max", "exited"}

\* The tasks whose proof the server took and that may have been counted.
Settled == IF worker_pc \in InHand THEN accepted \ {fetched} ELSE accepted

CountsAccepted ==
  /\ accepted \subseteq 1..fetched
  /\ tasks_completed <= Cardinality(Settled)
  /\ worker_pc \in InHand => fetched > 0
  /\ worker_pc \in Unsubmitted => fetched \notin accepted
  /\ worker_pc = "submitted" => fetched \in accepted

BelowLimit ==
  /\ tasks_completed <= CycleLimit
  /\ worker_pc \notin Over => tasks_completed < CycleLimit

WorkerInv == WorkerTypeOK /\ CountsAccepted /\ BelowLimit

-----------------------------------------------------------------------------

\* No more tasks are settled than accepted, and no more accepted than fetched.
LEMMA SettledSize ==
  ASSUME WorkerInv
  PROVE  /\ IsFiniteSet(accepted) /\ IsFiniteSet(Settled)
         /\ Cardinality(accepted) \in Nat /\ Cardinality(Settled) \in Nat
         /\ Cardinality(Settled) <= Cardinality(accepted)
         /\ Cardinality(accepted) <= fetched
<1>1. fetched \in Nat /\ accepted \subseteq 1..fetched
  BY WorkerAssumption DEF WorkerInv, WorkerTypeOK, CountsAccepted
<1>2. IsFiniteSet(1..fetched) /\ Cardinality(1..fetched) = fetched
  BY <1>1, FS_Interval
<1>3. IsFiniteSet(accepted) /\ Cardinality(accepted) <= fetched
  BY <1>1, <1>2, FS_Subset
<1>4. Settled \subseteq accepted
  BY DEF Settled
<1> QED
  BY <1>3, <1>4, FS_Subset, FS_CardinalityType

\* Steps that count nothing, fetch nothing and leave the server alone.
LEMMA MovesOn ==
  ASSUME WorkerInv, UNCHANGED <<tasks_completed, fetched, accepted>>,
         worker_pc' \in InHand => worker_pc \in InHand,
         worker_pc' \in Unsubmitted => worker_pc \in Unsubmitted,
         worker_pc' = "submitted" => fetched \in accepted,
         worker_pc' \notin Over => worker_pc \notin Over \/ tasks_completed < CycleLimit
  PROVE  CountsAccepted' /\ BelowLimit'
<1>1. tasks_completed <= Cardinality(Settled')
  <2>1. CASE worker_pc' \in InHand \/ worker_pc \notin InHand
    <3>1. Settled' = Settled
      BY <2>1 DEF Settled
    <3> QED
      BY <3>1 DEF WorkerInv, CountsAccepted
  <2>2. CASE worker_pc' \notin InHand /\ worker_pc \in InHand
    <3>1. Settled' = accepted
      BY <2>2 DEF Settled
    <3>2. tasks_completed \in Nat
      BY WorkerAssumption DEF WorkerInv, WorkerTypeOK
    <3> QED
      BY <3>1, <3>2, SettledSize DEF WorkerInv, CountsAccepted
  <2> QED
    BY <2>1, <2>2
<1>2. CountsAccepted'
  BY <1>1 DEF WorkerInv, CountsAccepted
<1>3. BelowLimit'
  <2>1. CycleLimit' = CycleLimit
    BY DEF CycleLimit
  <2> QED
    BY <2>1 DEF WorkerInv, BelowLimit
<1> QED
  BY <1>2, <1>3

\* A sent event leaves the queue a queue of events within its capacity.
LEMMA SendType ==
  ASSUME WorkerTypeOK, NEW event \in Event, Send(event)
  PROVE  queue' \in Seq(Event) /\ Len(queue') <= Capacity
<1>1. queue \in Seq(Event) /\ Len(queue) <= Capacity
  BY DEF WorkerTypeOK
<1>2. CASE UNCHANGED queue
  BY <1>1, <1>2
<1>3. CASE Len(queue) < Capacity /\ queue' = Append(queue, event)
  BY <1>1, <1>3, WorkerAssumption
<1> QED
  BY <1>2, <1>3 DEF Send

-----------------------------------------------------------------------------
(***************************************************************************)
(* Every step of the worker keeps the invariant                            *)
(***************************************************************************)

LEMMA WorkerInitInv == WorkerInit => WorkerInv
<1> SUFFICES ASSUME WorkerInit PROVE WorkerInv
  OBVIOUS
<1>1. queue \in Seq(Event) /\ Len(queue) = 1
  <2>1. "ready" \in Event
    BY DEF Event
  <2> QED
    BY <2>1 DEF WorkerInit
<1>2. WorkerTypeOK
  <2>1. worker_pc \in WorkerPc
    BY DEF WorkerInit, WorkerPc
  <2>2. Len(queue) <= Capacity
    BY <1>1, WorkerAssumption
  <2>3. 0 \in 0..MaxFetches
    BY WorkerAssumption
  <2> QED
    BY <1>1, <2>1, <2>2, <2>3 DEF WorkerInit, WorkerTypeOK
<1>3. Cardinality(Settled) = 0
  <2>1. Settled = {}
    BY DEF WorkerInit, Settled
  <2> QED
    BY <2>1, FS_EmptySet
<1>4. CountsAccepted
  BY <1>3 DEF WorkerInit, CountsAccepted, InHand, Unsubmitted
<1>5. 0 < CycleLimit /\ 0 <= CycleLimit
  BY WorkerAssumption DEF CycleLimit
<1> QED
  BY <1>2, <1>4, <1>5 DEF WorkerInit, WorkerInv, BelowLimit

LEMMA ReportStepInv ==
  ASSUME WorkerInv, ReportStep
  PROVE  WorkerInv'
<1> DEFINE event == Report[worker_pc].event
           next  == Report[worker_pc].next
<1>1. /\ event \in Event
      /\ next \in WorkerPc
  BY DEF ReportStep, Report, Event, WorkerPc, Pauses
<1>2. /\ next \in InHand => worker_pc \in InHand
      /\ next \in Unsubmitted => worker_pc \in Unsubmitted
      /\ next # "submitted"
      /\ worker_pc \notin Over
  BY DEF ReportStep, Report, InHand, Unsubmitted, Over
<1>3. Send(event) /\ worker_pc' = next
  BY DEF ReportStep
<1> HIDE DEF event, next
<1>4. WorkerTypeOK'
  BY <1>1, <1>3, SendType DEF ReportStep, WorkerInv, WorkerTypeOK, signals
<1>5. CountsAccepted' /\ BelowLimit'
  BY <1>2, <1>3, MovesOn DEF ReportStep
<1> QED
  BY <1>4, <1>5 DEF WorkerInv

LEMMA FetchNoticeInv ==
  ASSUME WorkerInv, FetchNotice
  PROVE  WorkerInv'
<1>1. "fetch_notice" \in Event
  BY DEF Event
<1>2. WorkerTypeOK'
  BY <1>1, SendType DEF FetchNotice, WorkerInv, WorkerTypeOK, signals
<1>3. CountsAccepted' /\ BelowLimit'
  BY MovesOn DEF FetchNotice, InHand, Unsubmitted, Over
<1> QED
  BY <1>2, <1>3 DEF WorkerInv

\* A task just fetched is not among those the server took a proof of.
LEMMA FetchEndsInv ==
  ASSUME WorkerInv, FetchEnds
  PROVE  WorkerInv'
<1>1. WorkerTypeOK'
  <2>1. accepted' = accepted /\ worker_pc' \in {"adjusted", "got", "fetch_failed"}
    BY DEF FetchEnds
  <2>2. worker_pc' \in WorkerPc
    BY <2>1 DEF WorkerPc, Report
  <2>3. fetched' \in 0..MaxFetches
    BY WorkerAssumption DEF FetchEnds, WorkerInv, WorkerTypeOK
  <2> QED
    BY <2>1, <2>2, <2>3 DEF FetchEnds, WorkerInv, WorkerTypeOK, signals
<1>2. CASE worker_pc' \in {"adjusted", "got"} /\ fetched' = fetched + 1
  <2>1. /\ fetched \in Nat
        /\ accepted' = accepted /\ tasks_completed' = tasks_completed
        /\ worker_pc = "fetch"
    BY WorkerAssumption DEF FetchEnds, WorkerInv, WorkerTypeOK
  <2>2. fetched + 1 \notin accepted
    BY <2>1 DEF WorkerInv, CountsAccepted
  <2>3. Settled' = Settled
    BY <1>2, <2>1, <2>2 DEF Settled, InHand
  <2>4. CountsAccepted'
    BY <1>2, <2>1, <2>2, <2>3 DEF WorkerInv, CountsAccepted
  <2>5. CycleLimit' = CycleLimit
    BY DEF CycleLimit
  <2>6. BelowLimit'
    BY <2>1, <2>5 DEF WorkerInv, BelowLimit, Over
  <2> QED
    BY <1>1, <2>4, <2>6 DEF WorkerInv
<1>3. CASE worker_pc' = "fetch_failed" /\ UNCHANGED fetched
  <2>1. CountsAccepted' /\ BelowLimit'
    BY <1>3, MovesOn DEF FetchEnds, InHand, Unsubmitted, Over
  <2> QED
    BY <1>1, <2>1 DEF WorkerInv
<1> QED
  BY <1>2, <1>3 DEF FetchEnds

LEMMA ProveEndsInv ==
  ASSUME WorkerInv, ProveEnds
  PROVE  WorkerInv'
<1>1. WorkerTypeOK'
  BY DEF ProveEnds, WorkerInv, WorkerTypeOK, WorkerPc, Report, signals
<1>2. CountsAccepted' /\ BelowLimit'
  BY MovesOn DEF ProveEnds, InHand, Unsubmitted, Over
<1> QED
  BY <1>1, <1>2 DEF WorkerInv

LEMMA ServerTakesProofInv ==
  ASSUME WorkerInv, ServerTakesProof
  PROVE  WorkerInv'
<1>1. fetched \in 1..fetched /\ fetched \in 1..MaxFetches
  BY WorkerAssumption DEF ServerTakesProof, WorkerInv, WorkerTypeOK, CountsAccepted, InHand
<1>2. WorkerTypeOK'
  BY <1>1 DEF ServerTakesProof, WorkerInv, WorkerTypeOK, signals
<1>3. Settled' = Settled
  BY DEF ServerTakesProof, Settled, InHand
<1>4. CountsAccepted'
  BY <1>1, <1>3 DEF ServerTakesProof, WorkerInv, CountsAccepted, Unsubmitted
<1>5. CycleLimit' = CycleLimit
  BY DEF CycleLimit
<1>6. BelowLimit'
  BY <1>5 DEF ServerTakesProof, WorkerInv, BelowLimit
<1> QED
  BY <1>2, <1>4, <1>6 DEF WorkerInv

LEMMA SubmitEndsInv ==
  ASSUME WorkerInv, SubmitEnds
  PROVE  WorkerInv'
<1>1. WorkerTypeOK'
  BY DEF SubmitEnds, WorkerInv, WorkerTypeOK, WorkerPc, Report, signals
<1>2. CountsAccepted' /\ BelowLimit'
  BY MovesOn DEF SubmitEnds, InHand, Unsubmitted, Over
<1> QED
  BY <1>1, <1>2 DEF WorkerInv

\* The task that is counted was not settled before and is now.
LEMMA CountTaskInv ==
  ASSUME WorkerInv, CountTask
  PROVE  WorkerInv'
<1>1. /\ tasks_completed \in Nat /\ fetched \in 0..MaxFetches
      /\ tasks_completed' = tasks_completed + 1
      /\ fetched' = fetched /\ accepted' = accepted
      /\ worker_pc = "submitted" /\ worker_pc' = "completed"
      /\ fetched \in accepted
  BY WorkerAssumption DEF CountTask, WorkerInv, WorkerTypeOK, CountsAccepted
<1>2. Settled = accepted \ {fetched} /\ Settled' = accepted
  BY <1>1 DEF Settled, InHand
<1>3. Cardinality(Settled) = Cardinality(accepted) - 1
  BY <1>1, <1>2, SettledSize, FS_RemoveElement
<1>4. tasks_completed' <= Cardinality(accepted)
  BY <1>1, <1>3, SettledSize DEF WorkerInv, CountsAccepted
<1>5. CountsAccepted'
  BY <1>1, <1>2, <1>4 DEF WorkerInv, CountsAccepted, InHand, Unsubmitted
<1>6. tasks_completed' \in 0..MaxFetches
  BY <1>1, <1>4, SettledSize, WorkerAssumption
<1>7. WorkerTypeOK'
  <2>1. "submitted" \in Event
    BY DEF Event
  <2> QED
    BY <1>1, <1>6, <2>1, SendType
       DEF CountTask, WorkerInv, WorkerTypeOK, WorkerPc, signals
<1>8. BelowLimit'
  <2>1. CycleLimit \in Nat /\ CycleLimit' = CycleLimit
    BY WorkerAssumption DEF CycleLimit
  <2>2. tasks_completed < CycleLimit
    BY <1>1 DEF WorkerInv, BelowLimit, Over
  <2>3. tasks_completed' <= CycleLimit
    BY <1>1, <2>1, <2>2
  <2> QED
    BY <1>1, <2>1, <2>3 DEF BelowLimit, Over
<1> QED
  BY <1>5, <1>7, <1>8 DEF WorkerInv

\* The cycle goes on only below the limit.
LEMMA ReportCompletedInv ==
  ASSUME WorkerInv, ReportCompleted
  PROVE  WorkerInv'
<1>1. tasks_completed \in Nat /\ worker_pc = "completed"
  BY WorkerAssumption DEF ReportCompleted, WorkerInv, WorkerTypeOK
<1>2. WorkerTypeOK'
  <2>1. "completed" \in Event
    BY DEF Event
  <2>2. worker_pc' \in WorkerPc
    BY DEF ReportCompleted, WorkerPc, Pauses, Report
  <2> QED
    BY <2>1, <2>2, SendType DEF ReportCompleted, WorkerInv, WorkerTypeOK, signals
<1>3. worker_pc' = "finish" => tasks_completed < CycleLimit
  <2> SUFFICES ASSUME ~MaxReached PROVE tasks_completed < CycleLimit
    BY DEF ReportCompleted
  <2>1. tasks_completed <= MaxFetches
    BY DEF WorkerInv, WorkerTypeOK
  <2> QED
    BY <1>1, <2>1, WorkerAssumption DEF MaxReached, CycleLimit
<1>4. CountsAccepted' /\ BelowLimit'
  <2>1. worker_pc' \in {"max_pause", "finish"}
    BY DEF ReportCompleted
  <2> QED
    BY <1>1, <1>3, <2>1, MovesOn DEF ReportCompleted, InHand, Unsubmitted, Over
<1> QED
  BY <1>2, <1>4 DEF WorkerInv

LEMMA EndSleepInv ==
  ASSUME WorkerInv, EndSleep
  PROVE  WorkerInv'
<1>1. \/ worker_pc = "fetch_pause" /\ worker_pc' = "pause"
      \/ worker_pc = "pause" /\ worker_pc' = "fetch"
      \/ worker_pc = "max_pause" /\ worker_pc' = "report_max"
  BY DEF EndSleep, Pauses
<1>2. worker_pc' \in WorkerPc
  BY <1>1 DEF WorkerPc, Pauses
<1>3. WorkerTypeOK'
  BY <1>2 DEF EndSleep, WorkerInv, WorkerTypeOK, signals
<1>4. CountsAccepted' /\ BelowLimit'
  BY <1>1, MovesOn DEF EndSleep, InHand, Unsubmitted, Over
<1> QED
  BY <1>3, <1>4 DEF WorkerInv

\* The two ways out of the loop.
LEMMA SignalMaxInv ==
  ASSUME WorkerInv, SignalMax
  PROVE  WorkerInv'
<1>1. "max_reached" \in Event /\ "exited" \in WorkerPc
  BY DEF Event, WorkerPc
<1>2. queue' \in Seq(Event) /\ Len(queue') <= Capacity
  BY <1>1, SendType DEF SignalMax, WorkerInv
<1>3. WorkerTypeOK'
  BY <1>1, <1>2 DEF SignalMax, WorkerInv, WorkerTypeOK
<1>4. CountsAccepted' /\ BelowLimit'
  BY MovesOn DEF SignalMax, InHand, Unsubmitted, Over
<1> QED
  BY <1>3, <1>4 DEF WorkerInv

LEMMA StopWorkerInv ==
  ASSUME WorkerInv, StopWorker
  PROVE  WorkerInv'
<1>1. "exited" \in WorkerPc
  BY DEF WorkerPc
<1>2. WorkerTypeOK'
  BY <1>1 DEF StopWorker, WorkerInv, WorkerTypeOK
<1>3. CountsAccepted' /\ BelowLimit'
  BY MovesOn DEF StopWorker, InHand, Unsubmitted, Over
<1> QED
  BY <1>2, <1>3 DEF WorkerInv

LEMMA WorkerInvStep ==
  ASSUME WorkerInv, Worker
  PROVE  WorkerInv'
BY ReportStepInv, FetchNoticeInv, FetchEndsInv, ProveEndsInv, ServerTakesProofInv,
   SubmitEndsInv, CountTaskInv, ReportCompletedInv, EndSleepInv, SignalMaxInv,
   StopWorkerInv
   DEF Worker, WorkerStep

\* Whatever a session does to the queue and the signals, the worker's own
\* state being left alone.
LEMMA SessionStepInv ==
  ASSUME WorkerInv, UNCHANGED <<worker_pc, tasks_completed, fetched, accepted>>,
         queue' \in Seq(Event) /\ Len(queue') <= Capacity,
         receiver_open' \in BOOLEAN, shutdown_pending' \subseteq {"worker", "session"},
         max_subscribed' \in BOOLEAN, max_pending' \in BOOLEAN, signalled' \in BOOLEAN
  PROVE  WorkerInv'
<1>1. WorkerTypeOK'
  BY DEF WorkerInv, WorkerTypeOK
<1>2. CountsAccepted' /\ BelowLimit'
  BY MovesOn DEF WorkerInv, CountsAccepted
<1> QED
  BY <1>1, <1>2 DEF WorkerInv

-----------------------------------------------------------------------------
(***************************************************************************)
(* What the worker sends while the receiver is there                       *)
(***************************************************************************)

LEMMA InitQueued ==
  ASSUME WorkerInit, NEW event, event # "ready"
  PROVE  Queued(event) = 0
<1>1. {i \in 1..Len(queue) : queue[i] = event} = {}
  BY DEF WorkerInit
<1> QED
  BY <1>1, FS_EmptySet DEF Queued

LEMMA WorkerLeavesReceiver ==
  ASSUME Worker
  PROVE  receiver_open' = receiver_open
BY DEF Worker, WorkerStep, ReportStep, FetchNotice, FetchEnds, ProveEnds, SubmitEnds,
       CountTask, ReportCompleted, EndSleep, SignalMax, ServerTakesProof, StopWorker, signals

\* A step sends one event or none, and counts a task with the report of it.
LEMMA WorkerSends ==
  ASSUME Worker
  PROVE  \/ UNCHANGED <<queue, tasks_completed>>
         \/ \E event \in Event :
              /\ Send(event)
              /\ tasks_completed' = IF event = "submitted" THEN tasks_completed + 1
                                    ELSE tasks_completed
<1>1. CASE ReportStep
  <2>1. Report[worker_pc].event \in Event /\ Report[worker_pc].event # "submitted"
    BY <1>1 DEF ReportStep, Report, Event
  <2> QED
    BY <1>1, <2>1 DEF ReportStep
<1>2. {"fetch_notice", "submitted", "completed", "max_reached"} \subseteq Event
  BY DEF Event
<1>3. CASE FetchNotice \/ CountTask \/ ReportCompleted \/ SignalMax
  BY <1>2, <1>3 DEF FetchNotice, CountTask, ReportCompleted, SignalMax
<1>4. CASE FetchEnds \/ ProveEnds \/ SubmitEnds \/ EndSleep \/ ServerTakesProof \/ StopWorker
  BY <1>4 DEF FetchEnds, ProveEnds, SubmitEnds, EndSleep, ServerTakesProof, StopWorker
<1> QED
  BY <1>1, <1>3, <1>4 DEF Worker, WorkerStep

\* Sending while the receiver is there.
LEMMA SendQueued ==
  ASSUME WorkerInv, receiver_open, NEW event \in Event, Send(event), NEW other
  PROVE  Queued(other)' = Queued(other) + (IF event = other THEN 1 ELSE 0)
<1>1. /\ queue \in Seq(Event) /\ queue' = Append(queue, event)
      /\ 0 \in 0..Len(queue)
  BY DEF WorkerInv, WorkerTypeOK, Send
<1> QED
  BY <1>1, QueuedIsCounted, CountedAppend

LEMMA WorkerCounts ==
  ASSUME WorkerInv, receiver_open, Worker
  PROVE  Queued("submitted")' + tasks_completed = Queued("submitted") + tasks_completed'
<1>1. Queued("submitted") \in Nat /\ tasks_completed \in Nat
  BY QueuedType, WorkerAssumption DEF WorkerInv, WorkerTypeOK
<1>2. CASE UNCHANGED <<queue, tasks_completed>>
  BY <1>2 DEF Queued
<1>3. ASSUME NEW event \in Event, Send(event),
             tasks_completed' = IF event = "submitted" THEN tasks_completed + 1
                                ELSE tasks_completed
      PROVE  Queued("submitted")' + tasks_completed = Queued("submitted") + tasks_completed'
  <2>1. Queued("submitted")' = Queued("submitted") + (IF event = "submitted" THEN 1 ELSE 0)
    BY <1>3, SendQueued
  <2> QED
    BY <1>1, <1>3, <2>1
<1> QED
  BY <1>2, <1>3, WorkerSends

-----------------------------------------------------------------------------
(***************************************************************************)
(* Every step of the worker is one of the work cycle, or none              *)
(***************************************************************************)

\* What the abstract cycle may do, read through the refinement mapping.
LEMMA CycleStuts ==
  ASSUME UNCHANGED <<fetched, accepted, tasks_completed>>, CyclePhase' = CyclePhase
  PROVE  [Cycle!Next]_(Cycle!cycleVars)
BY DEF Cycle!cycleVars

LEMMA CycleLeaves ==
  ASSUME UNCHANGED <<fetched, accepted, tasks_completed>>,
         CyclePhase \in {"working", "counted"}, CyclePhase' = "idle"
  PROVE  [Cycle!Next]_(Cycle!cycleVars)
BY DEF Cycle!Next, Cycle!Leave

LEMMA CycleStops ==
  ASSUME UNCHANGED <<fetched, accepted, tasks_completed>>,
         CyclePhase # "stopped", CyclePhase' = "stopped"
  PROVE  [Cycle!Next]_(Cycle!cycleVars)
BY DEF Cycle!Next, Cycle!Stop

LEMMA RefinedInit ==
  ASSUME WorkerInit
  PROVE  Cycle!Init
BY DEF WorkerInit, Cycle!Init, CyclePhase

LEMMA RefinedReport ==
  ASSUME ReportStep
  PROVE  [Cycle!Next]_(Cycle!cycleVars)
<1>1. UNCHANGED <<fetched, accepted, tasks_completed>>
  BY DEF ReportStep
<1>2. CASE worker_pc \in {"give_up", "submit_failed"}
  <2>1. CyclePhase = "working" /\ CyclePhase' = "idle"
    BY <1>2 DEF ReportStep, Report, CyclePhase
  <2> QED
    BY <1>1, <2>1, CycleLeaves
<1>3. CASE worker_pc \notin {"give_up", "submit_failed"}
  <2>1. CyclePhase' = CyclePhase
    BY <1>3 DEF ReportStep, Report, CyclePhase
  <2> QED
    BY <1>1, <2>1, CycleStuts
<1> QED
  BY <1>2, <1>3

LEMMA RefinedFetch ==
  ASSUME WorkerInv, FetchEnds
  PROVE  [Cycle!Next]_(Cycle!cycleVars)
<1>1. CASE worker_pc' \in {"adjusted", "got"} /\ fetched' = fetched + 1
  <2>1. CyclePhase = "idle" /\ CyclePhase' = "working"
    BY <1>1 DEF FetchEnds, CyclePhase
  <2>2. tasks_completed < CycleLimit
    BY DEF WorkerInv, BelowLimit, Over, FetchEnds
  <2> QED
    BY <1>1, <2>1, <2>2 DEF FetchEnds, Cycle!Next, Cycle!Begin
<1>2. CASE worker_pc' = "fetch_failed" /\ UNCHANGED fetched
  <2>1. CyclePhase' = CyclePhase
    BY <1>2 DEF FetchEnds, CyclePhase
  <2> QED
    BY <1>2, <2>1, CycleStuts DEF FetchEnds
<1> QED
  BY <1>1, <1>2 DEF FetchEnds

LEMMA RefinedSubmission ==
  ASSUME WorkerInv, ServerTakesProof \/ SubmitEnds \/ CountTask
  PROVE  [Cycle!Next]_(Cycle!cycleVars)
<1>1. CASE ServerTakesProof
  <2>1. CyclePhase = "working" /\ CyclePhase' = "working"
    BY <1>1 DEF ServerTakesProof, CyclePhase
  <2> QED
    BY <1>1, <2>1 DEF ServerTakesProof, Cycle!Next, Cycle!Accept
<1>2. CASE SubmitEnds
  <2>1. UNCHANGED <<fetched, accepted, tasks_completed>>
    BY <1>2 DEF SubmitEnds
  <2>2. CyclePhase = "working" /\ CyclePhase' \in {"working", "idle"}
    BY <1>2 DEF SubmitEnds, CyclePhase
  <2> QED
    BY <2>1, <2>2, CycleLeaves, CycleStuts
<1>3. CASE CountTask
  <2>1. CyclePhase = "working" /\ CyclePhase' = "counted"
    BY <1>3 DEF CountTask, CyclePhase
  <2>2. fetched \in accepted
    BY <1>3 DEF CountTask, WorkerInv, CountsAccepted
  <2> QED
    BY <1>3, <2>1, <2>2 DEF CountTask, Cycle!Next, Cycle!Count
<1> QED
  BY <1>1, <1>2, <1>3

LEMMA RefinedRest ==
  ASSUME \/ FetchNotice \/ ProveEnds \/ ReportCompleted \/ EndSleep
         \/ SignalMax \/ StopWorker
  PROVE  [Cycle!Next]_(Cycle!cycleVars)
<1>1. UNCHANGED <<fetched, accepted, tasks_completed>>
  BY DEF FetchNotice, ProveEnds, ReportCompleted, EndSleep, SignalMax, StopWorker
<1>2. CASE FetchNotice \/ ProveEnds \/ EndSleep
  <2>1. CyclePhase' = CyclePhase
    BY <1>2 DEF FetchNotice, ProveEnds, EndSleep, Pauses, CyclePhase
  <2> QED
    BY <1>1, <2>1, CycleStuts
<1>3. CASE ReportCompleted
  <2>1. CyclePhase = "counted" /\ CyclePhase' \in {"counted", "idle"}
    BY <1>3 DEF ReportCompleted, CyclePhase
  <2> QED
    BY <1>1, <2>1, CycleLeaves, CycleStuts
<1>4. CASE SignalMax \/ StopWorker
  <2>1. CyclePhase # "stopped" /\ CyclePhase' = "stopped"
    BY <1>4 DEF SignalMax, StopWorker, CyclePhase
  <2> QED
    BY <1>1, <2>1, CycleStops
<1> QED
  BY <1>2, <1>3, <1>4

LEMMA RefinedWorker ==
  ASSUME WorkerInv, Worker
  PROVE  [Cycle!Next]_(Cycle!cycleVars)
BY RefinedReport, RefinedFetch, RefinedSubmission, RefinedRest DEF Worker, WorkerStep
=============================================================================

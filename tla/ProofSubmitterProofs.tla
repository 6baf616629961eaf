------------------------ MODULE ProofSubmitterProofs ------------------------
(***************************************************************************)
(* The safety properties of ProofSubmitter and of the reports it sets off, *)
(* for all times, limits, errors, numbers of proofs and of submissions.    *)
(* The two share no variable; each has an inductive invariant of its own.  *)
(***************************************************************************)
EXTENDS ProofSubmitter, SequenceTheorems, TLAPS

-----------------------------------------------------------------------------
(***************************************************************************)
(* The submission                                                          *)
(***************************************************************************)

SubmitTypeOK ==
  /\ TimerTypeOK
  /\ attempts \in 0..MaxRetries
  /\ pc \in {"idle", "ready", "sent"}
  /\ task_type \in TaskTypes
  /\ proofs \in 0..MaxProofs
  /\ submission \in Payload /\ wire \in Payload
  /\ verdict \in {"none", "accepted", "refused"}
  /\ result \in {"none", "ok", "error"}
  /\ submissions \in 0..MaxSubmissions
  /\ sent \in Seq(Payload) /\ Len(sent) <= MaxRetries
  /\ accepted \subseteq Payload
  /\ last_error \in {e.kind : e \in SubmitErrors} \cup {"none"}

\* Every attempt of the call has sent one request, and there is one left.
AttemptsCounted ==
  /\ pc = "ready" => attempts < MaxRetries /\ Len(sent) = attempts
  /\ pc = "sent"  => attempts < MaxRetries /\ Len(sent) = attempts + 1

\* What Take leaves of the submission is all that the hash types send of it.
HashesKept ==
  task_type # "ProofRequired" =>
    /\ SelectPayload(task_type, submission) = Complete
    /\ pc = "sent" => wire = Complete

\* The server has accepted what is on the wire, and nothing is returned before
\* the call ends.
AcceptedIsSent ==
  /\ verdict = "accepted" => wire \in accepted
  /\ pc # "idle" => result = "none"

SubmitInv ==
  /\ SubmitTypeOK
  /\ AttemptsCounted
  /\ HashesKept
  /\ AcceptedIsSent
  /\ SuccessIsAccepted
  /\ HashRetriesIntact
  /\ RateLimitEndsCall

-----------------------------------------------------------------------------

\* Of the request timer the submission needs no more than its type.
LEMMA TimerKept ==
  ASSUME TimerTypeOK,
         Elapse \/ RecordSuccess \/ \E delay \in Nat \cup {None} : RecordFailure(delay)
  PROVE  TimerTypeOK'
<1>1. CASE Elapse
  BY <1>1, TimerAssumption DEF TimerTypeOK, Elapse, Older, Less
<1>2. CASE RecordSuccess
  BY <1>2, TimerAssumption DEF TimerTypeOK, RecordSuccess, Recorded
<1>3. ASSUME NEW delay \in Nat \cup {None}, RecordFailure(delay)
      PROVE  TimerTypeOK'
  BY <1>3, TimerAssumption DEF TimerTypeOK, RecordFailure, Recorded
<1> QED
  BY <1>1, <1>2, <1>3

LEMMA FailureCounted ==
  ASSUME TimerTypeOK, NEW e \in Errors, AttemptFails(e)
  PROVE  TimerTypeOK' /\ attempts' = attempts + 1
<1>1. RecordFailure(ServerRetryDelay(e)) /\ attempts' = attempts + 1
  BY DEF AttemptFails
<1>2. ServerRetryDelay(e) \in Nat \cup {None}
  <2>1. RetryAfterSeconds(e) \in Nat \cup {None}
    BY ClientAssumption DEF Errors, RetryAfterSeconds
  <2> QED
    BY <2>1, ClientAssumption DEF ServerRetryDelay
<1> QED
  BY <1>1, <1>2, TimerKept

LEMMA NewSubmissionType ==
  ASSUME NEW type \in TaskTypes, NEW n \in 0..MaxProofs
  PROVE  NewSubmission(type, n) \in Payload
BY SubmitterAssumption DEF NewSubmission, Payload

LEMMA TakeType ==
  ASSUME NEW s \in Payload
  PROVE  Take(s) \in Payload /\ Take(s).hashes = s.hashes
BY SubmitterAssumption DEF Take, Payload

LEMMA SelectType ==
  ASSUME NEW type \in TaskTypes, NEW s \in Payload
  PROVE  SelectPayload(type, s) \in Payload
BY SubmitterAssumption DEF SelectPayload, Payload

\* What the hash types send depends on the hashes alone.
LEMMA SelectHashes ==
  ASSUME NEW type \in TaskTypes, type # "ProofRequired",
         NEW s, NEW t, s.hashes = t.hashes
  PROVE  SelectPayload(type, s) = SelectPayload(type, t)
BY DEF SelectPayload, TaskTypes

\* An error the client sends the request again for is not a rate limit.
LEMMA RetriedIsNotRateLimit ==
  ASSUME NEW e, ~GivesUp(e)
  PROVE  e.kind # "http_429"
BY DEF GivesUp, ShouldRetry

-----------------------------------------------------------------------------

LEMMA InitSubmit == Init => SubmitInv
<1> SUFFICES ASSUME Init PROVE SubmitInv
  OBVIOUS
<1> USE DEF Init, TimerInit
<1>1. Nothing \in Payload
  BY SubmitterAssumption DEF Nothing, Payload
<1>2. request_ages = <<>> /\ sent = <<>>
  OBVIOUS
<1>3. SubmitTypeOK
  BY <1>1, <1>2, TimerAssumption, ClientAssumption, SubmitterAssumption, ReportingAssumption
     DEF SubmitTypeOK, TimerTypeOK, TaskTypes
<1>4. HashesKept
  BY DEF HashesKept, Complete, SelectPayload, NewSubmission, Nothing
<1> QED
  BY <1>2, <1>3, <1>4
     DEF SubmitInv, AttemptsCounted, AcceptedIsSent, SuccessIsAccepted, HashRetriesIntact,
         RateLimitEndsCall

LEMMA SubmitStepInv ==
  ASSUME SubmitInv, NEW type \in TaskTypes, NEW n \in 0..MaxProofs, Submit(type, n)
  PROVE  SubmitInv'
<1> USE DEF SubmitInv, Submit
<1>1. NewSubmission(type, n) \in Payload
  BY NewSubmissionType
<1>2. TimerTypeOK'
  BY DEF SubmitTypeOK, TimerTypeOK, timerVars
<1>3. SubmitTypeOK'
  BY <1>1, <1>2, ClientAssumption, ReportingAssumption DEF SubmitTypeOK
<1>4. HashesKept'
  BY DEF HashesKept, Complete
<1>5. AttemptsCounted' /\ AcceptedIsSent'
  BY ClientAssumption DEF AttemptsCounted, AcceptedIsSent
<1>6. SuccessIsAccepted' /\ HashRetriesIntact' /\ RateLimitEndsCall'
  BY DEF SuccessIsAccepted, HashRetriesIntact, RateLimitEndsCall
<1> QED
  BY <1>3, <1>4, <1>5, <1>6

LEMMA SendInv ==
  ASSUME SubmitInv, SendAttempt
  PROVE  SubmitInv'
<1> USE DEF SubmitInv, SendAttempt
<1>1. Take(submission) \in Payload /\ Take(submission).hashes = submission.hashes
  BY TakeType DEF SubmitTypeOK
<1>2. wire' \in Payload
  BY SelectType DEF SubmitTypeOK
<1>3. UNCHANGED <<timerVars, attempts, result, accepted, last_error, task_type, proofs,
                  submissions>>
  BY DEF callVars
<1>4. /\ Len(sent') = Len(sent) + 1 /\ Len(sent) = attempts /\ attempts < MaxRetries
      /\ sent' \in Seq(Payload)
      /\ \A i \in 1..Len(sent) : sent'[i] = sent[i]
      /\ sent'[Len(sent) + 1] = wire'
  BY <1>2 DEF SubmitTypeOK, AttemptsCounted
<1>5. Len(sent) \in Nat
  BY DEF SubmitTypeOK
<1>6. TimerTypeOK'
  BY <1>3 DEF SubmitTypeOK, TimerTypeOK, timerVars
<1>7. SubmitTypeOK'
  BY <1>1, <1>2, <1>3, <1>4, <1>6, ClientAssumption DEF SubmitTypeOK
<1>8. Complete' = Complete
  BY <1>3 DEF Complete
<1>9. task_type # "ProofRequired" =>
        SelectPayload(task_type, submission') = Complete /\ wire' = Complete
  BY <1>1, SelectHashes DEF HashesKept, SubmitTypeOK
<1>10. HashesKept'
  BY <1>3, <1>8, <1>9 DEF HashesKept
<1>11. HashRetriesIntact'
  <2> SUFFICES ASSUME task_type # "ProofRequired", NEW i \in 1..Len(sent')
               PROVE  sent'[i] = Complete
    BY <1>3, <1>8 DEF HashRetriesIntact
  <2>1. i \in 1..Len(sent) \/ i = Len(sent) + 1
    BY <1>4, <1>5
  <2> QED
    BY <2>1, <1>4, <1>9 DEF HashRetriesIntact
<1>12. AttemptsCounted' /\ AcceptedIsSent'
  BY <1>3, <1>4 DEF AttemptsCounted, AcceptedIsSent
<1>13. SuccessIsAccepted' /\ RateLimitEndsCall'
  BY <1>3, <1>8 DEF SuccessIsAccepted, RateLimitEndsCall, AcceptedIsSent
<1> QED
  BY <1>7, <1>10, <1>11, <1>12, <1>13

LEMMA ServerInv ==
  ASSUME SubmitInv, ServerAccepts \/ ServerRefuses
  PROVE  SubmitInv'
<1> USE DEF SubmitInv
<1>1. /\ UNCHANGED <<timerVars, attempts, pc, submission, wire, result, sent, last_error,
                     task_type, proofs, submissions>>
      /\ pc = "sent"
      /\ \/ verdict' = "accepted" /\ accepted' = accepted \cup {wire}
         \/ verdict' = "refused" /\ accepted' = accepted
  BY DEF ServerAccepts, ServerRefuses, callVars
<1>2. TimerTypeOK'
  BY <1>1 DEF SubmitTypeOK, TimerTypeOK, timerVars
<1>3. SubmitTypeOK'
  BY <1>1, <1>2 DEF SubmitTypeOK
<1>4. Complete' = Complete
  BY <1>1 DEF Complete
<1>5. HashesKept' /\ HashRetriesIntact' /\ AttemptsCounted' /\ RateLimitEndsCall'
  BY <1>1, <1>4 DEF HashesKept, HashRetriesIntact, AttemptsCounted, RateLimitEndsCall
<1>6. AcceptedIsSent' /\ SuccessIsAccepted'
  BY <1>1, <1>4 DEF AcceptedIsSent, SuccessIsAccepted
<1> QED
  BY <1>3, <1>5, <1>6

LEMMA SucceedsInv ==
  ASSUME SubmitInv, AttemptSucceeds
  PROVE  SubmitInv'
<1> USE DEF SubmitInv, AttemptSucceeds
<1>1. UNCHANGED <<attempts, submission, wire, sent, last_error, verdict, accepted,
                  task_type, proofs, submissions>>
  BY DEF serverVars, callVars
<1>2. TimerTypeOK'
  BY TimerKept DEF SubmitTypeOK
<1>3. SubmitTypeOK'
  BY <1>1, <1>2 DEF SubmitTypeOK
<1>4. Complete' = Complete
  BY <1>1 DEF Complete
<1>5. HashesKept' /\ HashRetriesIntact' /\ AttemptsCounted' /\ RateLimitEndsCall'
  BY <1>1, <1>4 DEF HashesKept, HashRetriesIntact, AttemptsCounted, RateLimitEndsCall
<1>6. wire \in accepted /\ (task_type # "ProofRequired" => wire = Complete)
  BY DEF AcceptedIsSent, HashesKept
<1>7. AcceptedIsSent' /\ SuccessIsAccepted'
  BY <1>1, <1>4, <1>6 DEF AcceptedIsSent, SuccessIsAccepted
<1> QED
  BY <1>3, <1>5, <1>7

LEMMA FailsInv ==
  ASSUME SubmitInv, NEW e \in SubmitErrors, RetrySubmit(e) \/ SubmitFails(e)
  PROVE  SubmitInv'
<1> USE DEF SubmitInv
<1>1. /\ UNCHANGED <<submission, wire, sent, verdict, accepted, task_type, proofs, submissions>>
      /\ pc = "sent" /\ last_error' = e.kind
      /\ AttemptFails(e)
      /\ \/ pc' = "ready" /\ result' = result /\ ~GivesUp(e)
         \/ pc' = "idle" /\ result' = "error"
  BY DEF RetrySubmit, SubmitFails, serverVars, callVars
<1>2. TimerTypeOK' /\ attempts' = attempts + 1
  BY <1>1, FailureCounted DEF SubmitErrors, SubmitTypeOK
<1>3. attempts < MaxRetries /\ Len(sent) = attempts'
  BY <1>1, <1>2 DEF AttemptsCounted
<1>4. SubmitTypeOK'
  BY <1>1, <1>2, <1>3, ClientAssumption DEF SubmitTypeOK
<1>5. Complete' = Complete
  BY <1>1 DEF Complete
<1>6. HashesKept' /\ HashRetriesIntact'
  BY <1>1, <1>5 DEF HashesKept, HashRetriesIntact
<1>7. AttemptsCounted'
  BY <1>1, <1>2, <1>3, ClientAssumption DEF AttemptsCounted, GivesUp, SubmitTypeOK
<1>8. AcceptedIsSent' /\ SuccessIsAccepted'
  BY <1>1, <1>5 DEF AcceptedIsSent, SuccessIsAccepted
<1>9. RateLimitEndsCall'
  BY <1>1, RetriedIsNotRateLimit DEF RateLimitEndsCall
<1> QED
  BY <1>4, <1>6, <1>7, <1>8, <1>9

\* Time and the reports change nothing of the submission but the timer.
LEMMA OtherInv ==
  ASSUME SubmitInv, TimerTypeOK',
         UNCHANGED <<attempts, pc, submission, wire, result, sent, last_error, verdict,
                     accepted, task_type, proofs, submissions>>
  PROVE  SubmitInv'
<1> USE DEF SubmitInv
<1>1. SubmitTypeOK'
  BY DEF SubmitTypeOK
<1>2. Complete' = Complete
  BY DEF Complete
<1> QED
  BY <1>1, <1>2
     DEF HashesKept, HashRetriesIntact, AttemptsCounted, AcceptedIsSent, SuccessIsAccepted,
         RateLimitEndsCall

LEMMA StepSubmit == SubmitInv /\ [Next]_vars => SubmitInv'
<1> SUFFICES ASSUME SubmitInv, [Next]_vars PROVE SubmitInv'
  OBVIOUS
<1>1. CASE SendAttempt
  BY <1>1, SendInv
<1>2. ASSUME NEW e \in SubmitErrors, RetrySubmit(e) \/ SubmitFails(e) PROVE SubmitInv'
  BY <1>2, FailsInv
<1>3. CASE AttemptSucceeds
  BY <1>3, SucceedsInv
<1>4. ASSUME NEW type \in TaskTypes, NEW n \in 0..MaxProofs, Submit(type, n) PROVE SubmitInv'
  BY <1>4, SubmitStepInv
<1>5. CASE ServerAccepts \/ ServerRefuses
  BY <1>5, ServerInv
<1>6. CASE Tick
  <2>1. TimerTypeOK'
    BY <1>6, TimerKept DEF Tick, SubmitInv, SubmitTypeOK
  <2> QED
    BY <1>6, <2>1, OtherInv DEF Tick, serverVars, callVars
<1>7. CASE UNCHANGED submitVars
  <2>1. TimerTypeOK'
    BY <1>7 DEF submitVars, timerVars, SubmitInv, SubmitTypeOK, TimerTypeOK
  <2> QED
    BY <1>7, <2>1, OtherInv DEF submitVars, serverVars, callVars
<1> QED
  BY <1>1, <1>2, <1>3, <1>4, <1>5, <1>6, <1>7 DEF Next, Client, vars

-----------------------------------------------------------------------------
(***************************************************************************)
(* The reports                                                             *)
(***************************************************************************)

\* The entry of the wallet is its latest report; the one that replaces it is an
\* hour away from it and so from all others.
LatestIsLast == \A r \in Reports : noted[r] >= last_age

ReportInv == ReportingTypeOK /\ LatestIsLast /\ AtMostOncePerHour

LEMMA InitReport == ReportingInit => ReportInv
<1> SUFFICES ASSUME ReportingInit PROVE ReportInv
  OBVIOUS
<1>1. Old \in Nat /\ Old >= Hour
  BY ReportingAssumption DEF Old
<1> QED
  BY <1>1, ReportingAssumption
     DEF ReportingInit, ReportInv, ReportingTypeOK, LatestIsLast, AtMostOncePerHour

\* The first step of a report and the ones around the check.
LEMMA StageInv ==
  ASSUME ReportInv, NEW r, Track(r) \/ Tracked(r) \/ ReadClock(r) \/ Posted(r)
  PROVE  ReportInv'
<1>1. /\ UNCHANGED <<now_age, last_age, noted>>
      /\ stage' \in [Reports -> {"none", "tracking", "ready", "timed", "posting", "done"}]
  BY DEF Track, Tracked, ReadClock, Posted, ReportInv, ReportingTypeOK
<1> QED
  BY <1>1 DEF ReportInv, ReportingTypeOK, LatestIsLast, AtMostOncePerHour

LEMMA CheckInv ==
  ASSUME ReportInv, NEW r \in Reports, CheckAndNote(r)
  PROVE  ReportInv'
<1> USE DEF ReportInv
<1>1. now_age[r] \in 0..Delay /\ last_age \in 0..Old /\ Old = Hour + Delay
  BY DEF ReportingTypeOK, Old
<1>2. /\ stage' \in [Reports -> {"none", "tracking", "ready", "timed", "posting", "done"}]
      /\ now_age' \in [Reports -> 0..Delay]
  BY ReportingAssumption DEF CheckAndNote, ReportingTypeOK
<1>3. CASE SinceLast(r) < Hour
  <2>1. UNCHANGED <<last_age, noted>>
    BY <1>3 DEF CheckAndNote
  <2> QED
    BY <1>2, <2>1 DEF ReportingTypeOK, LatestIsLast, AtMostOncePerHour
<1>4. CASE ~(SinceLast(r) < Hour)
  <2>1. last_age' = now_age[r] /\ noted' = [noted EXCEPT ![r] = now_age[r]]
    BY <1>4 DEF CheckAndNote
  <2>2. last_age - now_age[r] >= Hour
    BY <1>1, <1>4, ReportingAssumption DEF SinceLast
  <2>3. noted[r] \in 0..Old /\ noted'[r] = now_age[r]
    BY <2>1 DEF ReportingTypeOK
  <2>4. ASSUME NEW s \in Reports, s # r
        PROVE  noted'[s] >= Hour /\ noted'[s] >= now_age[r]
    <3>1. noted'[s] = noted[s] /\ noted[s] \in 0..Old /\ noted[s] >= last_age
      BY <2>1, <2>4 DEF ReportingTypeOK, LatestIsLast
    <3> QED
      BY <1>1, <2>2, <3>1, ReportingAssumption
  <2>5. ReportingTypeOK'
    BY <1>1, <1>2, <2>1, ReportingAssumption DEF ReportingTypeOK
  <2>6. LatestIsLast'
    BY <1>1, <2>1, <2>3, <2>4 DEF LatestIsLast
  <2>7. AtMostOncePerHour'
    <3>1. \A s \in Reports : noted'[s] < Hour => s = r
      <4> SUFFICES ASSUME NEW s \in Reports, noted'[s] < Hour, s # r PROVE FALSE
        OBVIOUS
      <4>1. noted'[s] \in Nat /\ Hour \in Nat
        BY <2>5, ReportingAssumption DEF ReportingTypeOK, Old
      <4> QED
        BY <2>4, <4>1
    <3> QED
      BY <3>1 DEF AtMostOncePerHour
  <2> QED
    BY <2>5, <2>6, <2>7
<1> QED
  BY <1>3, <1>4

LEMMA ReportElapseInv ==
  ASSUME ReportInv, ReportElapse
  PROVE  ReportInv'
<1> USE DEF ReportInv
<1>1. Old \in Nat /\ Old >= Hour /\ Hour \in Nat
  BY ReportingAssumption DEF Old
<1>2. now_age' \in [Reports -> 0..Delay]
  BY ReportingAssumption DEF ReportElapse, ReportingTypeOK
<1>3. last_age \in 0..Old /\ last_age' = Aged(last_age) /\ stage' = stage
  BY DEF ReportElapse, ReportingTypeOK
<1>4. \A r \in Reports : noted'[r] = Aged(noted[r]) /\ noted[r] \in 0..Old
  BY DEF ReportElapse, ReportingTypeOK
<1>5. \A age \in 0..Old : Aged(age) \in 0..Old /\ Aged(age) >= age
  BY <1>1 DEF Aged
<1>6. ReportingTypeOK'
  BY <1>2, <1>3, <1>4, <1>5 DEF ReportElapse, ReportingTypeOK
<1>7. LatestIsLast'
  <2> SUFFICES ASSUME NEW r \in Reports PROVE Aged(noted[r]) >= Aged(last_age)
    BY <1>3, <1>4 DEF LatestIsLast
  <2> QED
    BY <1>1, <1>3, <1>4 DEF LatestIsLast, Aged
<1>8. AtMostOncePerHour'
  <2> SUFFICES ASSUME NEW r \in Reports, NEW s \in Reports,
                      noted'[r] < Hour, noted'[s] < Hour
               PROVE  r = s
    BY DEF AtMostOncePerHour
  <2>1. noted[r] < Hour /\ noted[s] < Hour
    BY <1>1, <1>4, <1>5
  <2> QED
    BY <2>1 DEF AtMostOncePerHour
<1> QED
  BY <1>6, <1>7, <1>8

LEMMA StepReport == ReportInv /\ [Next]_vars => ReportInv'
<1> SUFFICES ASSUME ReportInv, [Next]_vars PROVE ReportInv'
  OBVIOUS
<1>1. CASE Track(submissions)
  BY <1>1, StageInv
<1>2. CASE Report
  BY <1>2, StageInv, CheckInv DEF Report
<1>3. CASE ReportElapse
  BY <1>3, ReportElapseInv
<1>4. CASE UNCHANGED reportVars
  BY <1>4 DEF reportVars, ReportInv, ReportingTypeOK, LatestIsLast, AtMostOncePerHour
<1> QED
  BY <1>1, <1>2, <1>3, <1>4 DEF Next, Client, Tick, vars

-----------------------------------------------------------------------------

LEMMA Invariance == Spec => [](SubmitInv /\ ReportInv)
<1>1. Init => SubmitInv /\ ReportInv
  BY InitSubmit, InitReport DEF Init
<1>2. SubmitInv /\ ReportInv /\ [Next]_vars => (SubmitInv /\ ReportInv)'
  BY StepSubmit, StepReport
<1> QED
  BY <1>1, <1>2, PTL DEF Spec

\* Every variable of the submitter and of the reports keeps its type; a call
\* never sends more than MaxRetries requests.
THEOREM SubmitterTypeCorrect == Spec => []TypeOK
<1>1. SubmitInv /\ ReportInv => TypeOK
  BY DEF SubmitInv, ReportInv, SubmitTypeOK, TypeOK
<1> QED
  BY <1>1, Invariance, PTL

\* A submission that succeeded was accepted, and what was accepted of the hash
\* types was complete, however many attempts were lost.
THEOREM SuccessWasAccepted == Spec => []SuccessIsAccepted
<1>1. SubmitInv /\ ReportInv => SuccessIsAccepted
  BY DEF SubmitInv
<1> QED
  BY <1>1, Invariance, PTL

\* A retry of a task that sends hashes sends all of them again.
THEOREM HashesSurviveRetries == Spec => []HashRetriesIntact
<1>1. SubmitInv /\ ReportInv => HashRetriesIntact
  BY DEF SubmitInv
<1> QED
  BY <1>1, Invariance, PTL

\* After a rate-limit answer the call sends nothing more.
THEOREM RateLimitIsFinal == Spec => []RateLimitEndsCall
<1>1. SubmitInv /\ ReportInv => RateLimitEndsCall
  BY DEF SubmitInv
<1> QED
  BY <1>1, Invariance, PTL

\* Of the reports of a wallet no two have instants within the same hour, however
\* the tasks that send them are scheduled.
THEOREM ReportedOncePerHour == Spec => []AtMostOncePerHour
<1>1. SubmitInv /\ ReportInv => AtMostOncePerHour
  BY DEF ReportInv
<1> QED
  BY <1>1, Invariance, PTL
=============================================================================

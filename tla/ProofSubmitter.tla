--------------------------- MODULE ProofSubmitter ---------------------------
(***************************************************************************)
(* workers/submitter.rs with the submit loop of network/client.rs and the  *)
(* choice of the payload in orchestrator/client.rs.  A proof is abstracted *)
(* to its presence: a payload says how many proofs and how many hashes it  *)
(* carries.  The server may take or refuse what it receives, and any       *)
(* request or answer may be lost.  An accepted proof is reported.          *)
(***************************************************************************)
EXTENDS NetworkClient, Reporting

CONSTANT MaxProofs   \* the most proofs a task needs

ASSUME SubmitterAssumption == MaxProofs \in Nat

TaskTypes == {"ProofRequired", "ProofHash", "AllProofHashes"}

VARIABLES
  pc,           \* idle, ready to send an attempt, or sent
  task_type,
  proofs,       \* how many proofs the prover delivered
  submission,   \* what is left of the ProofSubmission: its payload fields
  wire,         \* the SubmitProofRequest under way
  verdict,      \* what the server did with it: none, accepted, refused
  result,       \* what submit_proof returned: none, ok, error
  submissions,  \* calls so far
  sent,         \* history: the requests of this call, in order
  accepted,     \* history: those of them the server accepted
  last_error    \* history: the kind of the last error of this call

serverVars == <<verdict, accepted>>
callVars == <<task_type, proofs, submissions>>
submitVars == <<timerVars, attempts, pc, submission, wire, result, sent, last_error,
                serverVars, callVars>>
vars == <<submitVars, reportVars>>

\* The fields of a request that depend on the payload.
Payload == [proof : 0..1, proofs : 0..MaxProofs, hashes : 0..MaxProofs]
Nothing == [proof |-> 0, proofs |-> 0, hashes |-> 0]

\* The answer to a submission has no body to decode.
SubmitErrors == {e \in Errors : e.kind # "decode"}

TypeOK ==
  /\ TimerTypeOK
  /\ ReportingTypeOK
  /\ attempts \in 0..MaxRetries
  /\ pc \in {"idle", "ready", "sent"}
  /\ task_type \in TaskTypes
  /\ proofs \in 0..MaxProofs
  /\ submission \in Payload /\ wire \in Payload
  /\ verdict \in {"none", "accepted", "refused"}
  /\ result \in {"none", "ok", "error"}
  /\ submissions \in 0..MaxSubmissions
  /\ sent \in Seq(Payload) /\ Len(sent) <= MaxRetries
  /\ accepted \subseteq Payload
  /\ last_error \in {e.kind : e \in SubmitErrors} \cup {"none"}

Init ==
  /\ TimerInit
  /\ ReportingInit
  /\ attempts = 0
  /\ pc = "idle"
  /\ task_type = "ProofHash"
  /\ proofs = 0
  /\ submission = Nothing /\ wire = Nothing
  /\ verdict = "none" /\ result = "none"
  /\ submissions = 0
  /\ sent = <<>>
  /\ accepted = {}
  /\ last_error = "none"

-----------------------------------------------------------------------------

\* submit_proof(): the first proof becomes the legacy proof, the hashes are
\* attached for AllProofHashes and the proofs for ProofRequired.
NewSubmission(type, n) ==
  [proof  |-> IF n > 0 THEN 1 ELSE 0,
   proofs |-> IF type = "ProofRequired" THEN n ELSE 0,
   hashes |-> IF type = "AllProofHashes" THEN n ELSE 0]

\* A fault: the hashes are moved out of the submission as well.
TakeAll(s) == Nothing

\* mem::take moves the proofs out of the submission; the hashes are borrowed.
Take(s) == [proof |-> 0, proofs |-> 0, hashes |-> s.hashes]

\* select_proof_payload(): what a task of this type sends of it.
SelectPayload(type, s) ==
  [proof  |-> IF type = "ProofRequired" /\ s.proofs = 1 THEN s.proof ELSE 0,
   proofs |-> IF type = "ProofRequired" THEN s.proofs ELSE 0,
   hashes |-> IF type = "AllProofHashes" THEN s.hashes ELSE 0]

\* A proof that cannot be serialized ends the call before anything is sent.
Submit(type, n) ==
  /\ pc = "idle"
  /\ submissions < MaxSubmissions
  /\ task_type' = type /\ proofs' = n
  /\ submission' = NewSubmission(type, n)
  /\ \/ pc' = "ready" /\ result' = "none"
     \/ n > 0 /\ pc' = "idle" /\ result' = "error"
  /\ attempts' = 0
  /\ submissions' = submissions + 1
  /\ verdict' = "none"
  /\ sent' = <<>> /\ accepted' = {} /\ last_error' = "none"
  /\ UNCHANGED <<timerVars, wire>>

\* The timer is not asked before an attempt.
SendAttempt ==
  /\ pc = "ready"
  /\ pc' = "sent"
  /\ wire' = SelectPayload(task_type, submission)
  /\ submission' = Take(submission)
  /\ verdict' = "none"
  /\ sent' = Append(sent, wire')
  /\ UNCHANGED <<timerVars, attempts, result, accepted, last_error, callVars>>

\* The server decides; whether the client learns of it is another matter.
ServerAccepts ==
  /\ pc = "sent" /\ verdict = "none"
  /\ verdict' = "accepted"
  /\ accepted' = accepted \cup {wire}
  /\ UNCHANGED <<timerVars, attempts, pc, submission, wire, result, sent, last_error, callVars>>

ServerRefuses ==
  /\ pc = "sent" /\ verdict = "none"
  /\ verdict' = "refused"
  /\ UNCHANGED <<timerVars, attempts, pc, submission, wire, result, sent, last_error,
                 accepted, callVars>>

\* A fault: an answer that was lost counts as a success.
SucceedsUnheard ==
  /\ pc = "sent"
  /\ RecordSuccess
  /\ pc' = "idle" /\ result' = "ok"
  /\ UNCHANGED <<attempts, submission, wire, sent, last_error, serverVars, callVars>>

\* The client returns Ok only on an answer of success.
AttemptSucceeds ==
  /\ pc = "sent" /\ verdict = "accepted"
  /\ RecordSuccess
  /\ pc' = "idle" /\ result' = "ok"
  /\ UNCHANGED <<attempts, submission, wire, sent, last_error, serverVars, callVars>>

\* A fault: the HTTP client has no timeout, so a lost request is never answered.
AnsweredOnly(e) == verdict = "refused"

\* A reqwest error is a request or an answer lost, or the timeout, and a gateway
\* may answer 5xx, whatever the server did; the other errors are answers of a
\* server that refused.
Answers(e) == e.kind \in {"reqwest", "http_5xx"} \/ verdict = "refused"

RetrySubmit(e) ==
  /\ pc = "sent" /\ Answers(e)
  /\ ~GivesUp(e)
  /\ AttemptFails(e)
  /\ pc' = "ready"
  /\ last_error' = e.kind
  /\ UNCHANGED <<submission, wire, result, sent, serverVars, callVars>>

SubmitFails(e) ==
  /\ pc = "sent" /\ Answers(e)
  /\ GivesUp(e)
  /\ AttemptFails(e)
  /\ pc' = "idle" /\ result' = "error"
  /\ last_error' = e.kind
  /\ UNCHANGED <<submission, wire, sent, serverVars, callVars>>

Tick ==
  /\ Elapse
  /\ ReportElapse
  /\ UNCHANGED <<attempts, pc, submission, wire, result, sent, last_error,
                 serverVars, callVars>>

\* submit_proof after its start: a success is tracked.
Client ==
  \/ /\ SendAttempt \/ \E e \in SubmitErrors : RetrySubmit(e) \/ SubmitFails(e)
     /\ UNCHANGED reportVars
  \/ AttemptSucceeds /\ Track(submissions)

Next ==
  \/ Client
  \/ /\ \/ \E type \in TaskTypes, n \in 0..MaxProofs : Submit(type, n)
        \/ ServerAccepts \/ ServerRefuses
     /\ UNCHANGED reportVars
  \/ Report /\ UNCHANGED submitVars
  \/ Tick

\* Every attempt is answered or times out; the worker need not submit again,
\* and the server need not do anything.
Spec == Init /\ [][Next]_vars
FairSpec == Spec /\ WF_vars(Client)

-----------------------------------------------------------------------------
(***************************************************************************)
(* Properties                                                              *)
(***************************************************************************)

\* What a complete request for this task carries.
Complete == SelectPayload(task_type, NewSubmission(task_type, proofs))

\* A reported success means that the server accepted some attempt of this call,
\* and for the two hash types that what it accepted was complete: a retry after
\* a lost answer does not send less than the first attempt did.
SuccessIsAccepted ==
  result = "ok" =>
    /\ accepted # {}
    /\ task_type # "ProofRequired" => Complete \in accepted

\* Every attempt of a task that sends hashes is the same request.
HashRetriesIntact ==
  task_type # "ProofRequired" => \A i \in 1..Len(sent) : sent[i] = Complete

\* A rate-limit answer ends the call: nothing more is sent after it.
RateLimitEndsCall == pc # "idle" => last_error # "http_429"

\* A call sends at most MaxRetries requests and ends, whatever is lost.
EverySubmissionEnds == pc = "ready" ~> result # "none"

-----------------------------------------------------------------------------
(***************************************************************************)
(* Statements of the sources that the code does not keep                   *)
(***************************************************************************)

\* orchestrator.proto: `proofs' is "To be sent on PROOF_REQUIRED tasks".  The
\* proofs are gone after the first attempt.
ProofsInEveryAttempt ==
  task_type = "ProofRequired" => \A i \in 1..Len(sent) : sent[i] = Complete
=============================================================================

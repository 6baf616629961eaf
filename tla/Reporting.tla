------------------------------ MODULE Reporting ------------------------------
(***************************************************************************)
(* analytics.rs after an accepted proof: a task of its own posts the event *)
(* and then spawns another one, which reports that the wallet is proving,  *)
(* unless that was done within the last hour.  These tasks outlive the     *)
(* call that began them and run side by side on the threads of the         *)
(* runtime.  Instants are kept as ages.                                    *)
(***************************************************************************)
EXTENDS Integers, FiniteSets

CONSTANTS
  MaxSubmissions,  \* bound: proofs submitted in a behaviour
  Hour,            \* 3600 s
  Delay            \* bound: how long a thread is held up between two statements

ASSUME ReportingAssumption ==
  /\ MaxSubmissions \in Nat
  /\ Hour \in Nat \ {0}
  /\ Delay \in Nat

\* One for each submission that was accepted.
Reports == 1..MaxSubmissions

VARIABLES
  stage,     \* of each: none, tracking, ready, timed (it has read the clock), posting, done
  now_age,   \* of each: the age of its `now'
  last_age,  \* the age of the wallet's entry in LAST_REPORT_BY_ADDRESS
  noted      \* history: of each, the age of its `now' if it is to report; or Old

reportVars == <<stage, now_age, last_age, noted>>

\* The first age that no comparison tells from a larger one; also for none at all.
Old == Hour + Delay

ReportingTypeOK ==
  /\ stage \in [Reports -> {"none", "tracking", "ready", "timed", "posting", "done"}]
  /\ now_age \in [Reports -> 0..Delay]
  /\ last_age \in 0..Old
  /\ noted \in [Reports -> 0..Old]

ReportingInit ==
  /\ stage = [r \in Reports |-> "none"]
  /\ now_age = [r \in Reports |-> 0]
  /\ last_age = Old
  /\ noted = [r \in Reports |-> Old]

-----------------------------------------------------------------------------

\* The task of an accepted proof begins.
Track(r) ==
  /\ stage[r] = "none"
  /\ stage' = [stage EXCEPT ![r] = "tracking"]
  /\ UNCHANGED <<now_age, last_age, noted>>

\* The event is posted or not; only the report is left.
Tracked(r) ==
  /\ stage[r] = "tracking"
  /\ stage' = [stage EXCEPT ![r] = "ready"]
  /\ UNCHANGED <<now_age, last_age, noted>>

ReadClock(r) ==
  /\ stage[r] = "ready"
  /\ stage' = [stage EXCEPT ![r] = "timed"]
  /\ UNCHANGED <<now_age, last_age, noted>>

\* now.duration_since(last), which is zero if last is the later one.
SinceLast(r) == IF last_age > now_age[r] THEN last_age - now_age[r] ELSE 0

\* A fault: the hour begins when the report has been posted.
CheckAndNoteLater(r) ==
  /\ stage[r] = "timed"
  /\ IF SinceLast(r) < Hour
     THEN /\ stage' = [stage EXCEPT ![r] = "done"]
          /\ UNCHANGED noted
     ELSE /\ stage' = [stage EXCEPT ![r] = "posting"]
          /\ noted' = [noted EXCEPT ![r] = now_age[r]]
  /\ now_age' = [now_age EXCEPT ![r] = 0]
  /\ UNCHANGED last_age

\* Under the lock: no report within the hour, or this one is noted.
CheckAndNote(r) ==
  /\ stage[r] = "timed"
  /\ IF SinceLast(r) < Hour
     THEN /\ stage' = [stage EXCEPT ![r] = "done"]
          /\ UNCHANGED <<last_age, noted>>
     ELSE /\ stage' = [stage EXCEPT ![r] = "posting"]
          /\ last_age' = now_age[r]
          /\ noted' = [noted EXCEPT ![r] = now_age[r]]
  /\ now_age' = [now_age EXCEPT ![r] = 0]

\* The report arrives or is lost; nobody asks.
Posted(r) ==
  /\ stage[r] = "posting"
  /\ stage' = [stage EXCEPT ![r] = "done"]
  /\ UNCHANGED <<now_age, last_age, noted>>

Report ==
  \E r \in Reports : Tracked(r) \/ ReadClock(r) \/ CheckAndNote(r) \/ Posted(r)

Aged(age) == IF age < Old THEN age + 1 ELSE age

\* One unit of time; no thread is held up for longer than Delay.
ReportElapse ==
  /\ \A r \in Reports : stage[r] = "timed" => now_age[r] < Delay
  /\ now_age' = [r \in Reports |-> IF stage[r] = "timed" THEN now_age[r] + 1 ELSE now_age[r]]
  /\ last_age' = Aged(last_age)
  /\ noted' = [r \in Reports |-> Aged(noted[r])]
  /\ UNCHANGED stage

-----------------------------------------------------------------------------

\* "at most once per hour per wallet address": of the reports, which may all be
\* on their way at once, no two have instants within the same hour.
AtMostOncePerHour ==
  \A r, s \in Reports : noted[r] < Hour /\ noted[s] < Hour => r = s
=============================================================================

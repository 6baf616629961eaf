------------------------------ MODULE WorkCycle ------------------------------
(***************************************************************************)
(* What the authenticated worker promises, without awaits, events, signals *)
(* or pauses: tasks are taken one at a time, a task is counted only while  *)
(* it is in hand and after the server accepted its proof, at most once,    *)
(* and when the limit is reached or the worker stops nothing begins.       *)
(***************************************************************************)
EXTENDS Integers, FiniteSets

CONSTANT Limit   \* the number of tasks after which the worker stops; may be
                 \* larger than any number of tasks

VARIABLES
  begun,    \* tasks begun; they are numbered in that order
  taken,    \* the tasks of which the server accepted the proof
  counted,  \* tasks counted as completed
  phase     \* idle, working on task `begun', counted it, stopped

cycleVars == <<begun, taken, counted, phase>>

Init ==
  /\ begun = 0
  /\ taken = {}
  /\ counted = 0
  /\ phase = "idle"

Begin ==
  /\ phase = "idle"
  /\ counted < Limit
  /\ begun' = begun + 1
  /\ phase' = "working"
  /\ UNCHANGED <<taken, counted>>

Accept ==
  /\ phase = "working"
  /\ begun \notin taken
  /\ taken' = taken \cup {begun}
  /\ UNCHANGED <<begun, counted, phase>>

Count ==
  /\ phase = "working"
  /\ begun \in taken
  /\ counted' = counted + 1
  /\ phase' = "counted"
  /\ UNCHANGED <<begun, taken>>

\* The task is left, counted or not.
Leave ==
  /\ phase \in {"working", "counted"}
  /\ phase' = "idle"
  /\ UNCHANGED <<begun, taken, counted>>

Stop ==
  /\ phase # "stopped"
  /\ phase' = "stopped"
  /\ UNCHANGED <<begun, taken, counted>>

Next == Begin \/ Accept \/ Count \/ Leave \/ Stop

Spec == Init /\ [][Next]_cycleVars
=============================================================================

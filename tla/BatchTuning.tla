----------------------------- MODULE BatchTuning -----------------------------
(***************************************************************************)
(* The adaptive batch size over a long run of tasks, under a performance   *)
(* of the machine that may change at any time.  How a batch is proved is   *)
(* in ProofPipeline; it records every input of the batch as a proof.       *)
(***************************************************************************)
EXTENDS AdaptiveBatch

CONSTANT InputCounts  \* the numbers of inputs tasks have

ASSUME TuningAssumption == InputCounts \subseteq Nat \ {0}

VARIABLES
  performance,  \* of the machine, now
  task_size,    \* of the task under way, chosen when it began
  inputs_left   \* the inputs of that task that are not proved yet

tuningVars == <<batchVars, performance, task_size, inputs_left>>

TuningTypeOK ==
  /\ BatchTypeOK
  /\ consecutive_good_batches < 5 /\ consecutive_bad_batches < 3
  /\ performance \in Performances
  /\ task_size \in Nat \ {0}
  /\ inputs_left \in Nat

TuningInit ==
  /\ BatchInit
  /\ performance \in Performances
  /\ task_size = 1 /\ inputs_left = 0

\* The size is chosen once per task: what its batches teach comes too late
\* for the rest of them.
ChooseSize(n) ==
  /\ inputs_left = 0
  /\ inputs_left' = n
  /\ task_size' = MemoryAdjustedBatchSize(n)
  /\ UNCHANGED <<batchVars, performance>>

\* A batch is recorded with the size chosen, also the last one, which may be
\* smaller.
RunBatch ==
  /\ inputs_left > 0
  /\ LET size == SmallerOf(task_size, inputs_left)
     IN /\ RecordBatch(task_size, performance, size)
        /\ inputs_left' = inputs_left - size
  /\ UNCHANGED <<performance, task_size>>

ChangePerformance ==
  /\ performance' \in Performances
  /\ UNCHANGED <<batchVars, task_size, inputs_left>>

TimePasses == BatchElapse /\ UNCHANGED <<performance, task_size, inputs_left>>

WorkOn == (\E n \in InputCounts : ChooseSize(n)) \/ RunBatch

TuningNext == WorkOn \/ ChangePerformance \/ TimePasses

\* Tasks keep coming, every batch ends and time passes; the performance need
\* not change.
TuningSpec == TuningInit /\ [][TuningNext]_tuningVars
TuningFairSpec == TuningSpec /\ WF_tuningVars(WorkOn) /\ WF_tuningVars(TimePasses)

-----------------------------------------------------------------------------
(***************************************************************************)
(* Properties                                                              *)
(***************************************************************************)

\* The size stays within its bounds through every path that changes it: the
\* proposal, the streaks, and both after another.
SizeInBounds == current_batch_size \in MinBatch..MaxBatch

\* A machine that stays far too slow gets the smallest batches in the end, also
\* where the memory multiplier works against it.
SlowShrinks ==
  <>[](performance > 15) => []<>(current_batch_size = MinBatch)
=============================================================================

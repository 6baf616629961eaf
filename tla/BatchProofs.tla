---------------------------- MODULE BatchProofs ----------------------------
(***************************************************************************)
(* The safety properties of the batcher and of the pipeline that uses it,  *)
(* for all bounds, memory sizes, tasks, performances, cores and options.   *)
(* The first part is about the batcher alone: what choosing a size returns *)
(* and what recording a batch does to the bounds and to the streaks.  The  *)
(* two specifications share the variables of the batcher and nothing else. *)
(***************************************************************************)
EXTENDS BatchTuning, ProofPipeline, FiniteSetTheorems, SequenceTheorems, TLAPS

\* What every use of the batcher keeps: the size in its bounds, the streaks
\* shorter than the ones that end them.
Steady ==
  /\ current_batch_size \in MinBatch..MaxBatch
  /\ consecutive_good_batches \in 0..4
  /\ consecutive_bad_batches \in 0..2
  /\ since_adjustment \in 0..AdjustInterval

-----------------------------------------------------------------------------

LEMMA TenthsType ==
  ASSUME NEW n \in Nat, NEW factor \in {6, 8, 9, 10, 11, 12, 13, 15}
  PROVE  Tenths(n, factor) \in Nat
BY DEF Tenths

LEMMA FactorType ==
  ASSUME NEW average \in Nat
  PROVE  FactorOf(average) \in {8, 9, 10, 11, 13}
BY DEF FactorOf

LEMMA MultiplierType == MemoryMultiplier \in {6, 8, 10, 12, 15}
BY BatchAssumption DEF MemoryMultiplier

\* A task of n inputs is cut into batches of at least one and at most n.
LEMMA ChosenSize ==
  ASSUME Steady, NEW n \in Nat \ {0}
  PROVE  MemoryAdjustedBatchSize(n) \in 1..n
<1>1. current_batch_size \in Nat
  BY BatchAssumption DEF Steady
<1>2. Tenths(current_batch_size, MemoryMultiplier) \in Nat
  BY <1>1, MultiplierType, TenthsType
<1> QED
  BY <1>2 DEF MemoryAdjustedBatchSize, LargerOf, SmallerOf

LEMMA BoundedSize ==
  ASSUME NEW size \in Nat
  PROVE  Bounded(size) \in MinBatch..MaxBatch
BY BatchAssumption DEF Bounded, LargerOf, SmallerOf

LEMMA HalvedSize ==
  ASSUME NEW size \in MinBatch..MaxBatch
  PROVE  Halved(size) \in MinBatch..MaxBatch
<1>1. size \div 2 \in Nat /\ size \div 2 <= size
  BY BatchAssumption
<1> QED
  BY <1>1, BatchAssumption DEF Halved, LargerOf

LEMMA EnlargedSize ==
  ASSUME NEW size \in MinBatch..MaxBatch
  PROVE  Enlarged(size) \in MinBatch..MaxBatch
<1>1. (size * 3) \div 2 \in Nat /\ (size * 3) \div 2 >= size
  BY BatchAssumption
<1> QED
  BY <1>1, BatchAssumption DEF Enlarged, SmallerOf

-----------------------------------------------------------------------------

LEMMA InitSteady == BatchInit => Steady
BY BatchAssumption DEF BatchInit, Steady, LargerOf

LEMMA ElapseSteady ==
  ASSUME Steady, BatchElapse
  PROVE  Steady'
BY BatchAssumption DEF Steady, BatchElapse, SmallerOf

\* A batch with a proof in it, whatever its size and the time it took.
LEMMA BatchDoneSteady ==
  ASSUME Steady, NEW chosen_size \in Nat, NEW average \in Nat,
         BatchDone(chosen_size, average)
  PROVE  Steady'
<1> DEFINE proposed == Bounded(Tenths(chosen_size, FactorOf(average)))
           changes  == \/ proposed >= current_batch_size + 2
                       \/ proposed + 2 <= current_batch_size
           size     == IF changes THEN proposed ELSE current_batch_size
           good     == IF average <= 12 THEN consecutive_good_batches + 1 ELSE 0
           bad      == IF average <= 12 THEN 0 ELSE consecutive_bad_batches + 1
<1>1. /\ since_adjustment' = IF changes THEN 0 ELSE since_adjustment
      /\ current_batch_size' = CASE BadStreak(bad) -> Halved(size)
                                 [] ~BadStreak(bad) /\ GoodStreak(good) -> Enlarged(size)
                                 [] OTHER -> size
      /\ consecutive_bad_batches' = IF BadStreak(bad) THEN 0 ELSE bad
      /\ consecutive_good_batches' =
           IF ~BadStreak(bad) /\ GoodStreak(good) THEN 0 ELSE good
  BY DEF BatchDone
<1>2. size \in MinBatch..MaxBatch
  <2>1. Tenths(chosen_size, FactorOf(average)) \in Nat
    BY FactorType, TenthsType
  <2>2. proposed \in MinBatch..MaxBatch
    BY <2>1, BoundedSize
  <2> QED
    BY <2>2 DEF Steady
<1>3. good \in 0..5 /\ bad \in 0..3
  BY DEF Steady
<1>4. since_adjustment' \in 0..AdjustInterval
  BY <1>1, BatchAssumption DEF Steady
<1> HIDE DEF size, good, bad, changes
<1>5. current_batch_size' \in MinBatch..MaxBatch
  <2>1. Halved(size) \in MinBatch..MaxBatch /\ Enlarged(size) \in MinBatch..MaxBatch
    BY <1>2, HalvedSize, EnlargedSize
  <2> QED
    BY <1>1, <1>2, <2>1
<1>6. consecutive_bad_batches' \in 0..2
  BY <1>1, <1>3 DEF BadStreak
<1>7. consecutive_good_batches' \in 0..4
  <2>1. CASE good = 5
    <3>1. bad = 0
      BY <2>1, <1>3 DEF good, bad
    <3> QED
      BY <1>1, <2>1, <3>1 DEF BadStreak, GoodStreak
  <2>2. CASE good # 5
    BY <1>1, <1>3, <2>2 DEF GoodStreak
  <2> QED
    BY <2>1, <2>2
<1> QED
  BY <1>4, <1>5, <1>6, <1>7 DEF Steady

\* Whatever the batch, as long as one proof of it is recorded; the pipeline
\* records its inputs, of which there is at least one.
LEMMA RecordSteady ==
  ASSUME Steady, NEW chosen_size \in Nat, NEW average \in Nat,
         NEW proofs_generated \in Nat \ {0},
         RecordBatch(chosen_size, average, proofs_generated)
  PROVE  Steady'
<1>1. CASE UNCHANGED batchVars
  BY <1>1 DEF Steady, batchVars
<1>2. CASE BatchDone(chosen_size, average)
  BY <1>2, BatchDoneSteady
<1> QED
  BY <1>1, <1>2 DEF RecordBatch

-----------------------------------------------------------------------------
(***************************************************************************)
(* The long run of the batcher                                             *)
(***************************************************************************)

TuningInv == TuningTypeOK /\ SizeInBounds

LEMMA TuningIsSteady == TuningInv <=> Steady /\ TuningTypeOK
BY BatchAssumption DEF TuningInv, SizeInBounds, Steady, TuningTypeOK, BatchTypeOK

LEMMA TuningInitInv == TuningInit => TuningInv
<1> SUFFICES ASSUME TuningInit PROVE TuningInv
  OBVIOUS
<1>1. Steady
  BY InitSteady DEF TuningInit
<1>2. TuningTypeOK
  BY <1>1, BatchAssumption DEF TuningTypeOK, BatchTypeOK, Steady, TuningInit
<1> QED
  BY <1>1, <1>2, TuningIsSteady

\* A recorded batch has as many proofs as inputs, one at least.
LEMMA RunBatchInv ==
  ASSUME TuningInv, RunBatch
  PROVE  TuningInv'
<1> DEFINE size == SmallerOf(task_size, inputs_left)
<1>1. size \in Nat \ {0} /\ inputs_left - size \in Nat
  BY DEF TuningInv, TuningTypeOK, RunBatch, SmallerOf
<1>2. performance \in Nat /\ task_size \in Nat
  BY BatchAssumption DEF TuningInv, TuningTypeOK
<1>3. RecordBatch(task_size, performance, size) /\ inputs_left' = inputs_left - size
  BY DEF RunBatch
<1> HIDE DEF size
<1>4. Steady'
  BY <1>1, <1>2, <1>3, TuningIsSteady, RecordSteady
<1>5. TuningTypeOK'
  BY <1>1, <1>3, <1>4, BatchAssumption
     DEF RunBatch, TuningInv, TuningTypeOK, BatchTypeOK, Steady
<1> QED
  BY <1>4, <1>5 DEF TuningInv, SizeInBounds, Steady

LEMMA TuningStepInv == TuningInv /\ [TuningNext]_tuningVars => TuningInv'
<1> SUFFICES ASSUME TuningInv, [TuningNext]_tuningVars PROVE TuningInv'
  OBVIOUS
<1>1. ASSUME NEW n \in InputCounts, ChooseSize(n) PROVE TuningInv'
  <2>1. MemoryAdjustedBatchSize(n) \in 1..n
    BY TuningIsSteady, ChosenSize, TuningAssumption
  <2> QED
    BY <1>1, <2>1, TuningAssumption
       DEF ChooseSize, TuningInv, TuningTypeOK, BatchTypeOK, SizeInBounds, batchVars
<1>2. CASE RunBatch
  BY <1>2, RunBatchInv
<1>3. CASE ChangePerformance
  BY <1>3 DEF ChangePerformance, TuningInv, TuningTypeOK, BatchTypeOK, SizeInBounds, batchVars
<1>4. CASE TimePasses
  <2>1. Steady'
    BY <1>4, TuningIsSteady, ElapseSteady DEF TimePasses
  <2>2. TuningTypeOK'
    BY <1>4, <2>1, BatchAssumption DEF TimePasses, TuningInv, TuningTypeOK, BatchTypeOK, Steady
  <2> QED
    BY <2>1, <2>2 DEF TuningInv, SizeInBounds, Steady
<1>5. CASE UNCHANGED tuningVars
  BY <1>5 DEF tuningVars, TuningInv, TuningTypeOK, BatchTypeOK, SizeInBounds, batchVars
<1> QED
  BY <1>1, <1>2, <1>3, <1>4, <1>5 DEF TuningNext, WorkOn

-----------------------------------------------------------------------------

LEMMA TuningInvariance == TuningSpec => []TuningInv
BY TuningInitInv, TuningStepInv, PTL DEF TuningSpec

\* Every variable of the batcher keeps its type, and no streak outlasts the
\* change it causes.
THEOREM TuningTypeCorrect == TuningSpec => []TuningTypeOK
<1>1. TuningInv => TuningTypeOK
  BY DEF TuningInv
<1> QED
  BY <1>1, TuningInvariance, PTL

\* The batch size stays within the bounds of the batcher, whatever the batches,
\* the performances and the memory of the machine are.
THEOREM SizeStaysInBounds == TuningSpec => []SizeInBounds
<1>1. TuningInv => SizeInBounds
  BY DEF TuningInv
<1> QED
  BY <1>1, TuningInvariance, PTL

-----------------------------------------------------------------------------
(***************************************************************************)
(* The pipeline                                                            *)
(***************************************************************************)

\* A task under way is cut into batches of at least one of its inputs, and the
\* loop over the results runs within a batch.
TaskCut ==
  /\ pc = "idle" => input_count = 0 /\ batch_size = 0 /\ batch_start = 0 /\ all_proofs = <<>>
  /\ pc \in {"next", "batch", "results"} => batch_size \in 1..input_count
  /\ pc \in {"batch", "results"} => batch_start < input_count
  /\ pc = "results" => looked_at \in 0..Cardinality(Batch)
  /\ pc # "results" => looked_at = 0
  /\ result = "ok" => batch_start >= input_count /\ pc = "returned"
  /\ pc = "idle" => result = "none"

\* The inputs that were given to a task.
Begun == IF pc \in {"batch", "results", "crashed"} THEN batch_start + batch_size ELSE batch_start

\* Nothing is known of the inputs behind them, and the results are looked at
\* when all have one.
OutcomesFollow ==
  /\ \A i \in Inputs : i > Begun => outcome[i] = "waiting"
  /\ pc = "results" => \A i \in Batch : outcome[i] \in Outcomes

\* The proofs collected so far are in order, and belong to the inputs that the
\* loop has been through.
Ordered ==
  /\ ProofsInOrder
  /\ \A k \in 1..Len(all_proofs) : all_proofs[k] <= batch_start + looked_at

\* Of those inputs none is forgotten but for its own failure or a critical one.
Accounted ==
  \A i \in 1..input_count :
    i <= batch_start + looked_at => Failed(i) \/ Returned(i) \/ BehindCritical(i)

PipelineInv ==
  Steady /\ TypeOK /\ TaskCut /\ OutcomesFollow /\ Ordered /\ Accounted
-----------------------------------------------------------------------------

\* What is known of an input stays known while the outcomes do.
LEMMA KeptInTask ==
  ASSUME UNCHANGED <<outcome, batch_size>>
  PROVE  \A i : /\ Failed(i)' <=> Failed(i)
                /\ BehindCritical(i)' <=> BehindCritical(i)
BY DEF Failed, BehindCritical

\* Whatever the options say, a session has a worker and no more than cores.
LEMMA WorkersInCores ==
  ASSUME NEW limit \in Nat \cup {None}, NEW check_mem \in BOOLEAN, NEW aggressive \in BOOLEAN
  PROVE  NumWorkers(limit, None, check_mem, aggressive, Cores, GB(MemoryGB)) \in 1..Cores
<1> DEFINE memory == GB(MemoryGB)
           most   == MaxWorkers(Cores, aggressive)
           wanted == IF limit = None THEN most ELSE Least(Most(limit, 1), most)
           fits   == Most(AvailableMemory(memory, aggressive) \div MemoryPerThread(memory), 1)
<1>1. most \in 1..Cores
  BY PipelineAssumption DEF MaxWorkers, Most
<1>2. wanted \in 1..Cores
  BY <1>1, PipelineAssumption DEF Least, Most
<1>3. fits \in Nat \ {0}
  <2>1. memory \in Nat
    BY BatchAssumption DEF GB
  <2>2. AvailableMemory(memory, aggressive) \in Nat
    BY <2>1 DEF AvailableMemory
  <2>3. MemoryPerThread(memory) \in {512, 2048}
    BY DEF MemoryPerThread
  <2> HIDE DEF memory
  <2>4. AvailableMemory(memory, aggressive) \div MemoryPerThread(memory) \in Nat
    BY <2>2, <2>3
  <2> QED
    BY <2>4 DEF Most
<1> HIDE DEF most, fits
<1>4. ClampThreadsByMemory(wanted, Cores, memory, aggressive) \in {wanted, Least(wanted, fits)}
  BY DEF ClampThreadsByMemory, fits
<1> HIDE DEF wanted
<1>5. Least(wanted, fits) \in 1..Cores
  BY <1>2, <1>3, PipelineAssumption DEF Least
<1>6. NumWorkers(limit, None, check_mem, aggressive, Cores, memory)
        \in {wanted, ClampThreadsByMemory(wanted, Cores, memory, aggressive)}
  BY DEF NumWorkers, wanted, most
<1> QED
  BY <1>2, <1>4, <1>5, <1>6

\* The batch is the next stretch of the inputs, and no larger than was chosen.
LEMMA BatchIs ==
  ASSUME PipelineInv, batch_size > 0, batch_start < input_count
  PROVE  /\ Cardinality(Batch) \in 1..batch_size
         /\ Batch = batch_start + 1 .. batch_start + Cardinality(Batch)
         /\ batch_start + Cardinality(Batch) = SmallerOf(batch_start + batch_size, input_count)
         /\ Batch \subseteq Inputs
<1>1. /\ MaxInputs \in Nat /\ input_count \in 0..MaxInputs
      /\ batch_size \in Nat /\ batch_start \in Nat
  BY PipelineAssumption DEF PipelineInv, TypeOK
<1> DEFINE last == SmallerOf(batch_start + batch_size, input_count)
<1>2. last \in batch_start + 1 .. input_count /\ last <= batch_start + batch_size
  BY <1>1 DEF SmallerOf
<1>3. Batch = batch_start + 1 .. last
  BY DEF Batch
<1> HIDE DEF last
<1>4. Cardinality(Batch) = last - batch_start
  BY <1>1, <1>2, <1>3, FS_Interval
<1>5. batch_start + Cardinality(Batch) = last
  BY <1>1, <1>2, <1>4
<1>6. Batch \subseteq Inputs
  BY <1>1, <1>2, <1>3 DEF Inputs
<1> QED
  BY <1>1, <1>2, <1>3, <1>4, <1>5, <1>6 DEF last

-----------------------------------------------------------------------------
(***************************************************************************)
(* Every step of the pipeline keeps the invariant                          *)
(***************************************************************************)

LEMMA PipelineInitInv == Init => PipelineInv
<1> SUFFICES ASSUME Init PROVE PipelineInv
  OBVIOUS
<1> USE DEF Init
<1>1. Steady
  BY InitSteady
<1>2. num_workers \in 1..Cores
  <2>1. max_threads \in Nat \cup {None}
    BY PipelineAssumption
  <2> QED
    BY <2>1, WorkersInCores
<1>3. TypeOK
  BY <1>1, <1>2, PipelineAssumption, BatchAssumption
     DEF TypeOK, BatchTypeOK, Steady
<1>4. Len(all_proofs) = 0 /\ input_count = 0
  OBVIOUS
<1>5. TaskCut /\ OutcomesFollow
  BY DEF TaskCut, OutcomesFollow
<1>6. Ordered /\ Accounted
  BY <1>4 DEF Ordered, Accounted, Failed, Returned, BehindCritical, ProofsInOrder
<1> QED
  BY <1>1, <1>3, <1>5, <1>6 DEF PipelineInv

LEMMA SteadyKept ==
  ASSUME Steady, UNCHANGED batchVars
  PROVE  Steady'
BY DEF Steady, batchVars

LEMMA RefuseInv ==
  ASSUME PipelineInv, Refuse
  PROVE  PipelineInv'
<1> USE DEF PipelineInv, Refuse
<1>1. Steady'
  BY SteadyKept
<1>2. TypeOK'
  BY DEF TypeOK, BatchTypeOK, batchVars, setupVars
<1>3. TaskCut' /\ OutcomesFollow'
  BY DEF TaskCut, OutcomesFollow, Begun
<1>4. Ordered' /\ Accounted'
  BY DEF Ordered, Accounted, Failed, Returned, BehindCritical, ProofsInOrder
<1> QED
  BY <1>1, <1>2, <1>3, <1>4

LEMMA BeginTaskInv ==
  ASSUME PipelineInv, NEW n \in Inputs, BeginTask(n)
  PROVE  PipelineInv'
<1> USE DEF PipelineInv, BeginTask
<1>1. Steady'
  BY SteadyKept
<1>2. n \in 1..MaxInputs /\ n \in Nat \ {0}
  BY PipelineAssumption DEF Inputs
<1>3. batch_size' \in 1..n /\ input_count' = n
  BY <1>2, ChosenSize
<1>4. batch_start = 0 /\ looked_at = 0 /\ all_proofs = <<>> /\ result = "none"
  BY DEF TaskCut
<1>5. TypeOK'
  <2>1. UNCHANGED <<current_batch_size, consecutive_good_batches, consecutive_bad_batches,
                    since_adjustment, max_threads, num_workers>>
    BY DEF batchVars, setupVars
  <2>2. batch_size' \in 0..input_count' /\ input_count' \in 0..MaxInputs
        /\ looked_at' \in 0..batch_size'
    BY <1>2, <1>3, <1>4
  <2> QED
    BY <2>1, <2>2 DEF TypeOK, BatchTypeOK
<1>6. TaskCut' /\ OutcomesFollow'
  BY <1>3, <1>4 DEF TaskCut, OutcomesFollow, Begun
<1>7. Ordered' /\ Accounted'
  BY <1>2, <1>3, <1>4 DEF Ordered, Accounted, Failed, Returned, BehindCritical, ProofsInOrder
<1> QED
  BY <1>1, <1>5, <1>6, <1>7

\* The inputs of the batch were waiting, and the others keep their outcomes.
LEMMA SpawnBatchInv ==
  ASSUME PipelineInv, SpawnBatch
  PROVE  PipelineInv'
<1> USE DEF PipelineInv, SpawnBatch
<1>1. Steady'
  BY SteadyKept
<1>2. /\ Batch = batch_start + 1 .. batch_start + Cardinality(Batch)
      /\ Cardinality(Batch) \in 1..batch_size
      /\ Batch \subseteq Inputs
  BY BatchIs
<1>3. /\ batch_start \in Nat /\ batch_size \in 1..input_count
      /\ input_count \in 0..MaxInputs /\ MaxInputs \in Nat /\ looked_at = 0
  BY PipelineAssumption DEF TypeOK, TaskCut
<1>4. \A i \in Inputs : outcome'[i] = IF i \in Batch THEN "spawned" ELSE outcome[i]
  OBVIOUS
<1>5. TypeOK'
  BY DEF TypeOK, BatchTypeOK, batchVars, setupVars
<1>6. TaskCut'
  BY <1>3 DEF TaskCut
<1>7. OutcomesFollow'
  <2> SUFFICES ASSUME NEW i \in Inputs, i > batch_start + batch_size
               PROVE  outcome'[i] = "waiting"
    BY DEF OutcomesFollow, Begun
  <2>1. i \notin Batch /\ i > batch_start
    BY <1>2, <1>3 DEF Inputs
  <2> QED
    BY <1>4, <2>1 DEF OutcomesFollow, Begun
<1>8. Ordered'
  BY DEF Ordered, ProofsInOrder
<1>9. Accounted'
  <2> SUFFICES ASSUME NEW i \in 1..input_count, i <= batch_start + looked_at
               PROVE  Failed(i)' \/ Returned(i)' \/ BehindCritical(i)'
    BY DEF Accounted
  <2>1. \A j \in Inputs : outcome[j] = "critical" => outcome'[j] = "critical"
    BY <1>2, <1>3, <1>4 DEF OutcomesFollow, Begun
  <2>2. BehindCritical(i) => BehindCritical(i)'
    BY <2>1 DEF BehindCritical
  <2>3. i \in Inputs /\ i \notin Batch
    BY <1>2, <1>3 DEF Inputs
  <2>4. (Failed(i) => Failed(i)') /\ (Returned(i) => Returned(i)')
    BY <1>4, <2>3 DEF Failed, Returned
  <2> QED
    BY <2>2, <2>4 DEF Accounted
<1> QED
  BY <1>1, <1>5, <1>6, <1>7, <1>8, <1>9

\* One input that is spawned or running goes on: the inputs the loop has been
\* through are others, or have no outcome yet that could be forgotten.
LEMMA InputMovesOn ==
  ASSUME PipelineInv, pc = "batch", NEW i \in Inputs, outcome[i] \in {"spawned", "running"},
         NEW how \in {"running"} \cup Outcomes, outcome' = [outcome EXCEPT ![i] = how],
         finished' \in Seq(Inputs),
         UNCHANGED <<batchVars, setupVars, pc, input_count, batch_size, batch_start, looked_at,
                     all_proofs, result>>
  PROVE  PipelineInv'
<1> USE DEF PipelineInv
<1>1. Steady'
  BY SteadyKept
<1>2. /\ \A j \in Inputs : outcome'[j] = IF j = i THEN how ELSE outcome[j]
      /\ outcome' \in [Inputs -> {"waiting", "spawned", "running"} \cup Outcomes]
  BY DEF TypeOK
<1>3. TypeOK'
  BY <1>2 DEF TypeOK, BatchTypeOK, batchVars, setupVars
<1>4. TaskCut'
  BY DEF TaskCut
<1>5. OutcomesFollow'
  BY <1>2 DEF OutcomesFollow, Begun
<1>6. Ordered'
  BY DEF Ordered, ProofsInOrder
<1>7. Accounted'
  <2> SUFFICES ASSUME NEW j \in 1..input_count, j <= batch_start + looked_at
               PROVE  Failed(j)' \/ Returned(j)' \/ BehindCritical(j)'
    BY DEF Accounted
  <2>1. j \in Inputs
    BY PipelineAssumption DEF Inputs, TypeOK
  <2>2. (Failed(j) => Failed(j)') /\ (Returned(j) => Returned(j)')
    BY <1>2, <2>1 DEF Failed, Returned
  <2>3. BehindCritical(j) => BehindCritical(j)'
    BY <1>2 DEF BehindCritical
  <2> QED
    BY <2>2, <2>3 DEF Accounted
<1> QED
  BY <1>1, <1>3, <1>4, <1>5, <1>6, <1>7

LEMMA ProofStepsInv ==
  ASSUME PipelineInv, NEW i \in Inputs,
         \/ StartProof(i) \/ ProofEnds(i, "proof")
         \/ \E step \in DOMAIN StepError : ProofFails(i, step)
  PROVE  PipelineInv'
<1>1. finished \in Seq(Inputs)
  BY DEF PipelineInv, TypeOK
<1>2. CASE StartProof(i)
  BY <1>1, <1>2, InputMovesOn DEF StartProof
<1>3. ASSUME NEW how \in Outcomes, ProofEnds(i, how)
      PROVE  PipelineInv'
  <2>1. finished' \in Seq(Inputs)
    BY <1>1, <1>3 DEF ProofEnds
  <2> QED
    BY <1>3, <2>1, InputMovesOn DEF ProofEnds
<1>4. {"proof", "skipped", "critical"} \subseteq Outcomes
  BY DEF Outcomes
<1> QED
  BY <1>2, <1>3, <1>4 DEF ProofFails

LEMMA PanicInv ==
  ASSUME PipelineInv, Panic
  PROVE  PipelineInv'
<1> USE DEF PipelineInv, Panic
<1>1. Steady'
  BY SteadyKept
<1>2. TypeOK'
  BY DEF TypeOK, BatchTypeOK, batchVars, setupVars
<1>3. TaskCut' /\ OutcomesFollow'
  BY DEF TaskCut, OutcomesFollow, Begun
<1>4. Ordered' /\ Accounted'
  BY DEF Ordered, Accounted, Failed, Returned, BehindCritical, ProofsInOrder
<1> QED
  BY <1>1, <1>2, <1>3, <1>4

\* What is recorded is the number of inputs of the batch, one at least.
LEMMA EndBatchInv ==
  ASSUME PipelineInv, NEW average \in Performances, EndBatch(average)
  PROVE  PipelineInv'
<1> USE DEF PipelineInv, EndBatch
<1>1. /\ batch_size \in Nat \ {0} /\ batch_start < input_count /\ looked_at = 0
      /\ average \in Nat
  BY PipelineAssumption, BatchAssumption DEF TypeOK, TaskCut
<1>2. Cardinality(Batch) \in Nat \ {0} /\ Cardinality(Batch)' = Cardinality(Batch)
  BY <1>1, BatchIs DEF Batch
<1>3. Steady'
  BY <1>1, <1>2, RecordSteady
<1>4. TypeOK'
  BY <1>3, BatchAssumption DEF TypeOK, BatchTypeOK, Steady, setupVars
<1>5. TaskCut'
  BY <1>1, <1>2 DEF TaskCut
<1>6. OutcomesFollow'
  BY DEF OutcomesFollow, Begun, Batch
<1>7. Ordered' /\ Accounted'
  BY DEF Ordered, Accounted, Failed, Returned, BehindCritical, ProofsInOrder
<1> QED
  BY <1>3, <1>4, <1>5, <1>6, <1>7

\* One result: a proof is behind those collected so far, and of its input no
\* other is there.
LEMMA NextResultInv ==
  ASSUME PipelineInv, NextResult
  PROVE  PipelineInv'
<1> DEFINE i == ResultAt(looked_at + 1)
           passed == batch_start + looked_at
<1> USE DEF PipelineInv
<1>1. /\ UNCHANGED <<batchVars, setupVars, pc, input_count, batch_size, batch_start, outcome,
                     finished, result>>
      /\ pc = "results" /\ looked_at < Cardinality(Batch)
      /\ all_proofs' = IF outcome[i] = "proof" THEN Append(all_proofs, i) ELSE all_proofs
      /\ looked_at' = IF outcome[i] = "critical" THEN Cardinality(Batch) ELSE looked_at + 1
  BY DEF NextResult
<1>2. /\ batch_size \in Nat \ {0} /\ batch_start < input_count /\ batch_start \in Nat
      /\ input_count \in 0..MaxInputs /\ MaxInputs \in Nat
      /\ looked_at \in Nat /\ all_proofs \in Seq(Inputs)
  BY <1>1, PipelineAssumption DEF TypeOK, TaskCut
<1>3. /\ Cardinality(Batch) \in 1..batch_size
      /\ Batch = batch_start + 1 .. batch_start + Cardinality(Batch)
      /\ Batch \subseteq Inputs
  BY <1>2, BatchIs
<1>4. i = passed + 1 /\ i \in Batch /\ i \in Inputs /\ passed \in Nat
  BY <1>1, <1>2, <1>3 DEF ResultAt
<1>5. outcome[i] \in Outcomes
  BY <1>1, <1>4 DEF OutcomesFollow
<1>6. PICK length \in Nat : length = Len(all_proofs)
  BY <1>2
<1>7. looked_at' \in looked_at + 1 .. Cardinality(Batch) /\ looked_at' \in 0..batch_size
  BY <1>1, <1>2, <1>3
<1>8. all_proofs' \in Seq(Inputs)
  BY <1>1, <1>2, <1>4
<1> HIDE DEF i, passed
<1>9. Steady'
  BY <1>1, SteadyKept
<1>10. TypeOK'
  BY <1>1, <1>7, <1>8 DEF TypeOK, BatchTypeOK, batchVars, setupVars
<1>11. TaskCut'
  <2>1. Cardinality(Batch)' = Cardinality(Batch)
    BY <1>1 DEF Batch
  <2>2. looked_at' \in 0..Cardinality(Batch)
    BY <1>2, <1>3, <1>7
  <2> QED
    BY <1>1, <2>1, <2>2 DEF TaskCut
<1>12. OutcomesFollow'
  BY <1>1 DEF OutcomesFollow, Begun, Batch
<1>13. PICK later \in Nat : later = batch_start + looked_at' /\ passed + 1 <= later
  <2>1. PICK seen \in Nat : looked_at' = seen /\ looked_at + 1 <= seen
    BY <1>2, <1>3, <1>7
  <2>2. batch_start + seen \in Nat /\ passed + 1 <= batch_start + seen
    BY <1>2, <2>1 DEF passed
  <2> QED
    BY <2>1, <2>2
<1>14. \A k \in 1..length : all_proofs[k] \in Nat /\ all_proofs[k] <= passed
  BY <1>2, <1>6 DEF Ordered, Inputs, passed
<1>15. CASE outcome[i] = "proof"
  <2>1. /\ Len(all_proofs') = length + 1
        /\ all_proofs'[length + 1] = i
        /\ \A k \in 1..length : all_proofs'[k] = all_proofs[k]
    BY <1>1, <1>2, <1>4, <1>6, <1>15
  <2>2. ProofsInOrder'
    <3> SUFFICES ASSUME NEW k \in 1..length + 1, NEW l \in 1..length + 1, k < l
                 PROVE  all_proofs'[k] < all_proofs'[l]
      BY <2>1 DEF ProofsInOrder
    <3>1. k \in 1..length
      OBVIOUS
    <3>2. CASE l = length + 1
      BY <1>4, <1>14, <2>1, <3>1, <3>2
    <3>3. CASE l # length + 1
      <4>1. l \in 1..length
        BY <3>3
      <4> QED
        BY <1>6, <2>1, <3>1, <4>1 DEF Ordered, ProofsInOrder
    <3> QED
      BY <3>2, <3>3
  <2>3. \A k \in 1..length + 1 : all_proofs'[k] <= later
    <3> SUFFICES ASSUME NEW k \in 1..length + 1 PROVE all_proofs'[k] <= later
      OBVIOUS
    <3>1. CASE k = length + 1
      BY <1>4, <1>13, <2>1, <3>1
    <3>2. CASE k # length + 1
      BY <1>4, <1>13, <1>14, <2>1, <3>2
    <3> QED
      BY <3>1, <3>2
  <2>4. Ordered'
    BY <1>1, <1>13, <2>1, <2>2, <2>3 DEF Ordered
  <2>5. Accounted'
    <3> SUFFICES ASSUME NEW j \in 1..input_count, j <= passed + 1
                 PROVE  Failed(j)' \/ Returned(j)' \/ BehindCritical(j)'
      BY <1>1, <1>2, <1>15 DEF Accounted, passed
    <3>1. Returned(j)' <=> \E k \in 1..length + 1 : all_proofs'[k] = j
      BY <2>1 DEF Returned
    <3>2. CASE j = passed + 1
      BY <1>4, <2>1, <3>1, <3>2
    <3>3. CASE j # passed + 1
      <4>1. j <= passed
        BY <1>2, <1>4, <3>3
      <4>2. Failed(j) \/ Returned(j) \/ BehindCritical(j)
        BY <4>1 DEF Accounted, passed
      <4>3. Returned(j) => Returned(j)'
        BY <1>6, <2>1, <3>1 DEF Returned
      <4> QED
        BY <1>1, <4>2, <4>3, KeptInTask
    <3> QED
      BY <3>2, <3>3
  <2> QED
    BY <1>9, <1>10, <1>11, <1>12, <2>4, <2>5
<1>16. CASE outcome[i] # "proof"
  <2>1. all_proofs' = all_proofs
    BY <1>1, <1>16
  <2>2. \A k \in 1..length : all_proofs[k] <= later
    BY <1>4, <1>13, <1>14
  <2>3. Ordered'
    BY <1>1, <1>6, <1>13, <2>1, <2>2 DEF Ordered, ProofsInOrder
  <2>4. Accounted'
    <3> SUFFICES ASSUME NEW j \in 1..input_count, j <= later
                 PROVE  Failed(j) \/ Returned(j) \/ BehindCritical(j)
      BY <1>1, <1>13, <2>1, KeptInTask DEF Accounted, Returned
    <3>1. CASE j <= passed
      BY <3>1 DEF Accounted, passed
    <3>2. CASE j = i
      BY <1>5, <1>16, <3>2 DEF Outcomes, Failed
    <3>3. CASE j > passed /\ j # i
      <4>1. passed + 1 < j
        BY <1>4, <3>3
      <4>2. outcome[i] = "critical" /\ looked_at' = Cardinality(Batch)
        BY <1>1, <1>2, <1>13, <4>1 DEF passed
      <4>3. j <= batch_start + batch_size /\ batch_start < i
        BY <1>2, <1>3, <1>4, <1>13, <4>2
      <4> QED
        BY <1>2, <1>4, <4>1, <4>2, <4>3 DEF BehindCritical
    <3> QED
      BY <1>4, <3>1, <3>2, <3>3
  <2> QED
    BY <1>9, <1>10, <1>11, <1>12, <2>3, <2>4
<1> QED
  BY <1>15, <1>16

\* The next batch begins where the results looked at end, or behind all inputs.
LEMMA NextBatchInv ==
  ASSUME PipelineInv, NextBatch
  PROVE  PipelineInv'
<1> USE DEF PipelineInv, NextBatch
<1>1. /\ batch_size \in 1..input_count /\ batch_start < input_count /\ batch_start \in Nat
      /\ input_count \in 0..MaxInputs /\ MaxInputs \in Nat
      /\ looked_at \in Nat /\ all_proofs \in Seq(Inputs) /\ looked_at = Cardinality(Batch)
  BY PipelineAssumption DEF TypeOK, TaskCut
<1>2. /\ Cardinality(Batch) \in 1..batch_size
      /\ batch_start + looked_at = SmallerOf(batch_start + batch_size, input_count)
  BY <1>1, BatchIs
<1>3. PICK next \in Nat : next = batch_start + batch_size /\ batch_start' = next /\ looked_at' = 0
  BY <1>1
<1>4. next \in 0..2 * MaxInputs
  BY <1>1, <1>3
<1>5. Steady'
  BY SteadyKept
<1>6. TypeOK'
  BY <1>1, <1>3, <1>4 DEF TypeOK, BatchTypeOK, batchVars, setupVars
<1>7. result # "ok"
  BY DEF TaskCut
<1>8. TaskCut' /\ OutcomesFollow'
  BY <1>1, <1>7 DEF TaskCut, OutcomesFollow, Begun
<1>9. batch_start + looked_at <= next
  BY <1>1, <1>2, <1>3
<1>10. Ordered'
  <2> SUFFICES ASSUME NEW k \in 1..Len(all_proofs) PROVE all_proofs[k] <= next + 0
    BY <1>3 DEF Ordered, ProofsInOrder
  <2>1. all_proofs[k] \in Nat /\ all_proofs[k] <= batch_start + looked_at
    BY <1>1 DEF Ordered, Inputs
  <2> QED
    BY <1>1, <1>3, <1>9, <2>1
<1>11. Accounted'
  <2> SUFFICES ASSUME NEW j \in 1..input_count, j <= next + 0
               PROVE  Failed(j) \/ Returned(j) \/ BehindCritical(j)
    BY <1>3, KeptInTask DEF Accounted, Returned
  <2>1. j <= batch_start + looked_at
    BY <1>1, <1>2, <1>3 DEF SmallerOf
  <2> QED
    BY <2>1 DEF Accounted
<1> QED
  BY <1>5, <1>6, <1>8, <1>10, <1>11

LEMMA ReturnInv ==
  ASSUME PipelineInv, Return
  PROVE  PipelineInv'
<1> USE DEF PipelineInv, Return
<1>1. Steady'
  BY SteadyKept
<1>2. TypeOK'
  BY DEF TypeOK, BatchTypeOK, batchVars, setupVars
<1>3. TaskCut' /\ OutcomesFollow'
  BY DEF TaskCut, OutcomesFollow, Begun
<1>4. Ordered' /\ Accounted'
  BY DEF Ordered, Accounted, Failed, Returned, BehindCritical, ProofsInOrder
<1> QED
  BY <1>1, <1>2, <1>3, <1>4

LEMMA NextTaskInv ==
  ASSUME PipelineInv, NextTask
  PROVE  PipelineInv'
<1> USE DEF PipelineInv, NextTask
<1>1. Steady'
  BY SteadyKept
<1>2. MaxInputs \in Nat /\ <<>> \in Seq(Inputs) /\ Len(<<>>) = 0
  BY PipelineAssumption
<1>3. TypeOK'
  BY <1>2 DEF TypeOK, BatchTypeOK, batchVars, setupVars
<1>4. TaskCut' /\ OutcomesFollow'
  BY DEF TaskCut, OutcomesFollow, Begun
<1>5. Ordered' /\ Accounted'
  BY <1>2 DEF Ordered, Accounted, Failed, Returned, BehindCritical, ProofsInOrder
<1> QED
  BY <1>1, <1>3, <1>4, <1>5

LEMMA TickInv ==
  ASSUME PipelineInv, Tick
  PROVE  PipelineInv'
<1> USE DEF PipelineInv, Tick
<1>1. Steady'
  BY ElapseSteady
<1>2. UNCHANGED <<setupVars, taskVars>>
  OBVIOUS
<1>3. TypeOK'
  BY <1>1, <1>2, BatchAssumption DEF TypeOK, BatchTypeOK, Steady, setupVars, taskVars
<1>4. TaskCut' /\ OutcomesFollow'
  BY <1>2 DEF TaskCut, OutcomesFollow, Begun, Batch, taskVars
<1>5. Ordered' /\ Accounted'
  BY <1>2 DEF Ordered, Accounted, Failed, Returned, BehindCritical, ProofsInOrder, taskVars
<1> QED
  BY <1>1, <1>3, <1>4, <1>5

LEMMA StutterInv ==
  ASSUME PipelineInv, UNCHANGED vars
  PROVE  PipelineInv'
<1> USE DEF PipelineInv, vars, taskVars
<1>1. Steady'
  BY SteadyKept
<1>2. TypeOK'
  BY DEF TypeOK, BatchTypeOK, batchVars, setupVars
<1>3. TaskCut' /\ OutcomesFollow'
  BY DEF TaskCut, OutcomesFollow, Begun, Batch
<1>4. Ordered' /\ Accounted'
  BY DEF Ordered, Accounted, Failed, Returned, BehindCritical, ProofsInOrder
<1> QED
  BY <1>1, <1>2, <1>3, <1>4

LEMMA PipelineStepInv == PipelineInv /\ [Next]_vars => PipelineInv'
<1> SUFFICES ASSUME PipelineInv, [Next]_vars PROVE PipelineInv'
  OBVIOUS
<1>1. CASE Refuse \/ \E n \in Inputs : BeginTask(n)
  BY <1>1, RefuseInv, BeginTaskInv
<1>2. CASE Prove
  BY <1>2, SpawnBatchInv, ProofStepsInv, EndBatchInv, NextResultInv, NextBatchInv, ReturnInv
     DEF Prove
<1>3. CASE Panic \/ NextTask \/ Tick \/ UNCHANGED vars
  BY <1>3, PanicInv, NextTaskInv, TickInv, StutterInv
<1> QED
  BY <1>1, <1>2, <1>3 DEF Next

LEMMA PipelineInvariance == Spec => []PipelineInv
BY PipelineInitInv, PipelineStepInv, PTL DEF Spec

-----------------------------------------------------------------------------

\* Every variable of the pipeline keeps its type: a session has a worker and no
\* more than cores, and a batch is never empty and never exceeds its task.
THEOREM PipelineTypeCorrect == Spec => []TypeOK
<1>1. PipelineInv => TypeOK
  BY DEF PipelineInv
<1> QED
  BY <1>1, PipelineInvariance, PTL

\* However the proofs of a batch end, the proofs and the hashes of a task are in
\* the order of its inputs, each of them once.
THEOREM ProofsStayInOrder == Spec => []ProofsInOrder
<1>1. PipelineInv => ProofsInOrder
  BY DEF PipelineInv, Ordered
<1> QED
  BY <1>1, PipelineInvariance, PTL

\* A task returns a proof of every input that did not fail, and that no critical
\* error precedes by less than a batch, for any inputs, batches and threads.
THEOREM NoProofIsLost == Spec => []NoProofLost
<1>1. PipelineInv => NoProofLost
  <2> SUFFICES ASSUME PipelineInv, result = "ok", NEW i \in 1..input_count
               PROVE  Failed(i) \/ Returned(i) \/ BehindCritical(i)
    BY DEF NoProofLost
  <2>1. /\ batch_start \in Nat /\ looked_at \in Nat /\ input_count \in Nat
        /\ batch_start >= input_count
    BY PipelineAssumption DEF PipelineInv, TypeOK, TaskCut
  <2>2. i <= batch_start + looked_at
    BY <2>1
  <2> QED
    BY <2>2 DEF PipelineInv, Accounted
<1> QED
  BY <1>1, PipelineInvariance, PTL

\* The batch size stays within its bounds in the pipeline as well.
THEOREM PipelineSizeInBounds == Spec => []SizeInBounds
<1>1. PipelineInv => SizeInBounds
  BY DEF PipelineInv, Steady, SizeInBounds
<1> QED
  BY <1>1, PipelineInvariance, PTL
=============================================================================

---------------------------- MODULE ProofPipeline ----------------------------
(***************************************************************************)
(* prover/pipeline.rs: the inputs of a task are proved in batches.  Every  *)
(* input of a batch gets a task of its own; the runtime has a thread for   *)
(* every core, a proof keeps its thread until it ends, and proofs end in   *)
(* any order.  join_all waits for all of them, and then the results are    *)
(* gone through in the order of the inputs.  A proof and its hash are      *)
(* pushed together, so a proof is named by the index of its input and      *)
(* all_proofs stands for both lists.                                       *)
(***************************************************************************)
EXTENDS AdaptiveBatch, SessionSetup, Sequences, FiniteSets

CONSTANTS
  MaxInputs,     \* bound: the inputs a task may have
  Cores,         \* system::num_cores()
  MaxThreads,    \* what --max-threads may say
  None           \* or that it says nothing

ASSUME PipelineAssumption ==
  /\ MaxInputs \in Nat
  /\ Cores \in Nat \ {0}
  /\ MaxThreads \subseteq Nat \cup {None} /\ None \notin Nat

\* How the proof of one input ends: with a proof, with an error the pipeline
\* steps over, or with one it calls critical.
Outcomes == {"proof", "skipped", "critical"}

\* The steps of the proof of an input, and what they fail with: the input has
\* fewer than twelve bytes, the guest program does not load, there is no proof,
\* the guest exits with an error, the proof cannot be serialized.
StepError ==
  [parse_triple_input  |-> "MalformedTask",
   create_fib_prover   |-> "Stwo",
   prove_with_input    |-> "Stwo",
   check_exit_code     |-> "GuestProgram",
   generate_proof_hash |-> "Serialization"]

VARIABLES
  max_threads,  \* of the command line
  num_workers,  \* of the session
  pc,           \* idle, between batches, batch under way, its results, returned, crashed
  input_count,  \* all_inputs.len()
  batch_size,
  batch_start,  \* inputs before the batch under way
  outcome,      \* of every input: waiting, spawned, running or one of Outcomes
  finished,     \* history: the inputs of this batch in the order they ended
  looked_at,    \* results of this batch the loop is through with
  all_proofs,
  result        \* none, ok, error

taskVars == <<pc, input_count, batch_size, batch_start, outcome, finished,
              looked_at, all_proofs, result>>
setupVars == <<max_threads, num_workers>>
vars == <<batchVars, setupVars, taskVars>>

Inputs == 1..MaxInputs

TypeOK ==
  /\ BatchTypeOK
  /\ max_threads \in MaxThreads /\ num_workers \in 1..Cores
  /\ pc \in {"idle", "next", "batch", "results", "returned", "crashed"}
  /\ input_count \in 0..MaxInputs
  /\ batch_size \in 0..input_count
  /\ batch_start \in 0..2 * MaxInputs
  /\ outcome \in [Inputs -> {"waiting", "spawned", "running"} \cup Outcomes]
  /\ finished \in Seq(Inputs)
  /\ looked_at \in 0..batch_size
  /\ all_proofs \in Seq(Inputs)
  /\ result \in {"none", "ok", "error"}

Init ==
  /\ BatchInit
  /\ max_threads \in MaxThreads
  /\ \E check_mem, aggressive \in BOOLEAN :
       num_workers = NumWorkers(max_threads, None, check_mem, aggressive, Cores, GB(MemoryGB))
  /\ pc = "idle"
  /\ input_count = 0 /\ batch_size = 0 /\ batch_start = 0
  /\ outcome = [i \in Inputs |-> "waiting"]
  /\ finished = <<>> /\ looked_at = 0 /\ all_proofs = <<>>
  /\ result = "none"

-----------------------------------------------------------------------------

\* An unknown program or a task without inputs is refused.
Refuse ==
  /\ pc = "idle"
  /\ pc' = "returned" /\ result' = "error"
  /\ UNCHANGED <<batchVars, setupVars, input_count, batch_size, batch_start, outcome, finished,
                 looked_at, all_proofs>>

BeginTask(n) ==
  /\ pc = "idle"
  /\ n > 0
  /\ pc' = "next"
  /\ input_count' = n
  /\ batch_size' = MemoryAdjustedBatchSize(n)
  /\ UNCHANGED <<batchVars, setupVars, batch_start, outcome, finished, looked_at, all_proofs,
                 result>>

\* A fault: the last batch is left out unless it is full.
FullBatch ==
  IF batch_start + batch_size <= input_count
  THEN batch_start + 1 .. batch_start + batch_size ELSE {}

\* The inputs of the batch that begins at batch_start.
Batch == batch_start + 1 .. SmallerOf(batch_start + batch_size, input_count)

SpawnBatch ==
  /\ pc = "next"
  /\ batch_size > 0
  /\ batch_start < input_count
  /\ outcome' = [i \in Inputs |-> IF i \in Batch THEN "spawned" ELSE outcome[i]]
  /\ finished' = <<>>
  /\ pc' = "batch"
  /\ UNCHANGED <<batchVars, setupVars, input_count, batch_size, batch_start, looked_at, all_proofs,
                 result>>

\* A task of the batch gets a thread of the runtime.
StartProof(i) ==
  /\ pc = "batch"
  /\ outcome[i] = "spawned"
  /\ Cardinality({j \in Inputs : outcome[j] = "running"}) < Cores
  /\ outcome' = [outcome EXCEPT ![i] = "running"]
  /\ UNCHANGED <<batchVars, setupVars, pc, input_count, batch_size, batch_start, finished,
                 looked_at, all_proofs, result>>

ProofEnds(i, how) ==
  /\ pc = "batch"
  /\ outcome[i] = "running"
  /\ outcome' = [outcome EXCEPT ![i] = how]
  /\ finished' = Append(finished, i)
  /\ UNCHANGED <<batchVars, setupVars, pc, input_count, batch_size, batch_start, looked_at,
                 all_proofs, result>>

ProofFails(i, step) ==
  ProofEnds(i, IF StepError[step] \in {"Stwo", "GuestProgram"} THEN "skipped" ELSE "critical")

\* A panic does not reach join_all: the hook of main.rs ends the process.
Panic ==
  /\ pc = "batch"
  /\ \E i \in Inputs : outcome[i] = "running"
  /\ pc' = "crashed"
  /\ UNCHANGED <<batchVars, setupVars, input_count, batch_size, batch_start, outcome,
                 finished, looked_at, all_proofs, result>>

\* All have ended; the whole batch is recorded as proofs.
EndBatch(performance) ==
  /\ pc = "batch"
  /\ \A i \in Batch : outcome[i] \in Outcomes
  /\ RecordBatch(batch_size, performance, Cardinality(Batch))
  /\ pc' = "results"
  /\ UNCHANGED <<setupVars, input_count, batch_size, batch_start, outcome, finished,
                 looked_at, all_proofs, result>>

\* A fault: the results are taken as they come.
ResultAsFinished(k) == finished[k]

\* join_all returns the results in the order of the handles: the k-th is that of
\* the k-th input of the batch.
ResultAt(k) == batch_start + k

\* One turn of the loop over the results.  A critical error breaks: the results
\* behind it are left out.
NextResult ==
  /\ pc = "results"
  /\ looked_at < Cardinality(Batch)
  /\ LET i == ResultAt(looked_at + 1)
     IN /\ all_proofs' = IF outcome[i] = "proof" THEN Append(all_proofs, i) ELSE all_proofs
        /\ looked_at' = IF outcome[i] = "critical" THEN Cardinality(Batch) ELSE looked_at + 1
  /\ UNCHANGED <<batchVars, setupVars, pc, input_count, batch_size, batch_start, outcome,
                 finished, result>>

\* The break has left only the loop over the results: the next batch follows.
NextBatch ==
  /\ pc = "results"
  /\ looked_at = Cardinality(Batch)
  /\ pc' = "next"
  /\ batch_start' = batch_start + batch_size
  /\ looked_at' = 0
  /\ UNCHANGED <<batchVars, setupVars, input_count, batch_size, outcome, finished,
                 all_proofs, result>>

Return ==
  /\ pc = "next"
  /\ batch_start >= input_count
  /\ pc' = "returned" /\ result' = "ok"
  /\ UNCHANGED <<batchVars, setupVars, input_count, batch_size, batch_start, outcome, finished,
                 looked_at, all_proofs>>

\* The next task of the worker.
NextTask ==
  /\ pc = "returned"
  /\ pc' = "idle"
  /\ input_count' = 0 /\ batch_size' = 0 /\ batch_start' = 0
  /\ outcome' = [i \in Inputs |-> "waiting"]
  /\ finished' = <<>> /\ looked_at' = 0 /\ all_proofs' = <<>>
  /\ result' = "none"
  /\ UNCHANGED <<batchVars, setupVars>>

Tick == BatchElapse /\ UNCHANGED <<setupVars, taskVars>>

Prove ==
  \/ SpawnBatch
  \/ \E i \in Inputs : StartProof(i) \/ ProofEnds(i, "proof")
  \/ \E i \in Inputs, step \in DOMAIN StepError : ProofFails(i, step)
  \/ \E performance \in Performances : EndBatch(performance)
  \/ NextResult
  \/ NextBatch
  \/ Return

Next ==
  \/ Refuse
  \/ \E n \in Inputs : BeginTask(n)
  \/ Prove
  \/ Panic
  \/ NextTask
  \/ Tick

\* The runtime polls the spawned tasks until they end; a new task need not come.
Spec == Init /\ [][Next]_vars
FairSpec == Spec /\ WF_vars(Prove)

-----------------------------------------------------------------------------
(***************************************************************************)
(* Properties                                                              *)
(***************************************************************************)

\* The proofs, and with them the hashes, are in the order of the inputs and
\* none is there twice, in whatever order the tasks of a batch end.
ProofsInOrder ==
  \A k, l \in 1..Len(all_proofs) : k < l => all_proofs[k] < all_proofs[l]

Failed(i) == outcome[i] \in {"skipped", "critical"}

Returned(i) == \E k \in 1..Len(all_proofs) : all_proofs[k] = i

\* A critical error less than a batch before it.
BehindCritical(i) ==
  \E j \in Inputs : outcome[j] = "critical" /\ j < i /\ i < j + batch_size

\* What a task returns misses only inputs that failed, and those the break of a
\* critical error may have left out: what came before it and the later batches
\* are returned, whichever batches fail.
NoProofLost ==
  result = "ok" =>
    \A i \in 1..input_count : Failed(i) \/ Returned(i) \/ BehindCritical(i)

\* Every task that is begun ends, with any number of inputs, of cores and any
\* memory, unless a panic ends the program.
EveryTaskEnds == pc = "next" ~> pc \in {"returned", "crashed"}

-----------------------------------------------------------------------------
(***************************************************************************)
(* Statements of the sources that the code does not keep                   *)
(***************************************************************************)

\* main.rs: "Maximum number of threads to use for proving".  The number of workers
\* is handed down to the pipeline, which does not look at it.
MaxThreadsKept ==
  max_threads # None =>
    Cardinality({i \in Inputs : outcome[i] = "running"}) <= Most(max_threads, 1)
=============================================================================

---------------------------- MODULE AdaptiveBatch ----------------------------
(***************************************************************************)
(* prover/adaptive_batch.rs: how many inputs are proved at once, and how   *)
(* that number follows the time the proofs take.  A performance is the     *)
(* average time of a proof in tenths of the target time; factors such as   *)
(* 0.8 are tenths too, and as in the code a product is cut off.  The       *)
(* metrics (BatchMetrics) are written and read by nobody, and left out.    *)
(***************************************************************************)
EXTENDS Integers

CONSTANTS
  MinBatch, MaxBatch,  \* min_batch_size, max_batch_size
  MemoryGB,            \* system::total_memory_gb()
  AdjustInterval,      \* the 30 seconds between two adjustments
  Performances         \* how long proofs may take on average

ASSUME BatchAssumption ==
  /\ MinBatch \in Nat \ {0}
  /\ MaxBatch \in Nat /\ MaxBatch >= MinBatch /\ MaxBatch >= 4
  /\ MemoryGB \in Nat
  /\ AdjustInterval \in Nat
  /\ Performances \subseteq Nat

VARIABLES
  current_batch_size,
  consecutive_good_batches,
  consecutive_bad_batches,
  since_adjustment  \* age of last_adjustment, up to AdjustInterval

batchVars == <<current_batch_size, consecutive_good_batches,
               consecutive_bad_batches, since_adjustment>>

LargerOf(a, b) == IF a > b THEN a ELSE b
SmallerOf(a, b) == IF a < b THEN a ELSE b

BatchTypeOK ==
  /\ current_batch_size \in Nat
  /\ consecutive_good_batches \in Nat
  /\ consecutive_bad_batches \in Nat
  /\ since_adjustment \in 0..AdjustInterval

BatchInit ==
  /\ current_batch_size = LargerOf(4, MinBatch)
  /\ consecutive_good_batches = 0
  /\ consecutive_bad_batches = 0
  /\ since_adjustment = 0

-----------------------------------------------------------------------------

Tenths(n, factor) == (n * factor) \div 10

MemoryMultiplier ==
  CASE MemoryGB >= 32 -> 15
    [] MemoryGB >= 16 /\ MemoryGB < 32 -> 12
    [] MemoryGB >= 8 /\ MemoryGB < 16 -> 10
    [] MemoryGB >= 4 /\ MemoryGB < 8 -> 8
    [] OTHER -> 6

\* A fault: a small multiplier may leave a batch of nothing.
UnguardedBatchSize(input_count) ==
  IF input_count = 1 THEN 1
  ELSE SmallerOf(Tenths(current_batch_size, MemoryMultiplier), input_count)

\* A fault: the size is not cut down to the inputs of the task.
UncutBatchSize(input_count) ==
  IF input_count = 1 THEN 1
  ELSE LargerOf(Tenths(current_batch_size, MemoryMultiplier), 1)

\* get_memory_adjusted_batch_size()
MemoryAdjustedBatchSize(input_count) ==
  IF input_count = 1 THEN 1
  ELSE SmallerOf(LargerOf(Tenths(current_batch_size, MemoryMultiplier), 1), input_count)

\* A fault: the factors of slow and fast batches are confused.
FactorOfSwapped(performance) ==
  CASE performance > 15 -> 13
    [] performance > 12 /\ performance <= 15 -> 11
    [] performance < 7 /\ MemoryGB >= 8 -> 8
    [] OTHER -> 10

\* The change of the batch size for this performance.
FactorOf(performance) ==
  CASE performance > 15 -> 8
    [] performance > 12 /\ performance <= 15 -> 9
    [] performance < 7 /\ MemoryGB >= 8 -> 13
    [] performance < 9 /\ ~(performance < 7 /\ MemoryGB >= 8) /\ MemoryGB >= 4 -> 11
    [] OTHER -> 10

\* A fault: the halved size may fall below the minimum.
HalvedUnbounded(size) == size \div 2

Halved(size) == LargerOf(size \div 2, MinBatch)

\* A fault: the enlarged size may exceed the maximum.
EnlargedUnbounded(size) == (size * 3) \div 2

Enlarged(size) == SmallerOf((size * 3) \div 2, MaxBatch)

Bounded(size) == SmallerOf(LargerOf(size, MinBatch), MaxBatch)

\* The branch of a batch without a proof.
BatchFailed ==
  /\ current_batch_size' = Halved(current_batch_size)
  /\ consecutive_bad_batches' = consecutive_bad_batches + 1
  /\ consecutive_good_batches' = 0
  /\ since_adjustment' = 0

BadStreak(bad) == bad >= 3

\* A fault: the streak ends one batch late.
GoodStreakLate(good) == good > 5

GoodStreak(good) == good >= 5

\* The size for this performance takes the place of the current one if it is
\* at least two away; a streak of three bad or five good batches then changes
\* the size once more, at whatever time.
BatchDone(batch_size, performance) ==
  LET proposed == Bounded(Tenths(batch_size, FactorOf(performance)))
      changes  == \/ proposed >= current_batch_size + 2
                  \/ proposed + 2 <= current_batch_size
      size     == IF changes THEN proposed ELSE current_batch_size
      good     == IF performance <= 12 THEN consecutive_good_batches + 1 ELSE 0
      bad      == IF performance <= 12 THEN 0 ELSE consecutive_bad_batches + 1
  IN /\ since_adjustment' = IF changes THEN 0 ELSE since_adjustment
     /\ current_batch_size' = CASE BadStreak(bad) -> Halved(size)
                                [] ~BadStreak(bad) /\ GoodStreak(good) -> Enlarged(size)
                                [] OTHER -> size
     /\ consecutive_bad_batches' = IF BadStreak(bad) THEN 0 ELSE bad
     /\ consecutive_good_batches' =
          IF ~BadStreak(bad) /\ GoodStreak(good) THEN 0 ELSE good

\* record_batch_performance()
RecordBatch(batch_size, performance, proofs_generated) ==
  CASE since_adjustment < AdjustInterval -> UNCHANGED batchVars
    [] since_adjustment >= AdjustInterval /\ proofs_generated = 0 -> BatchFailed
    [] OTHER -> BatchDone(batch_size, performance)

BatchElapse ==
  /\ since_adjustment' = SmallerOf(since_adjustment + 1, AdjustInterval)
  /\ UNCHANGED <<current_batch_size, consecutive_good_batches, consecutive_bad_batches>>
=============================================================================

---------------------------- MODULE SessionSetup ----------------------------
(***************************************************************************)
(* session/setup.rs: how many workers a session says it has, from the      *)
(* options of the command line and the machine.  Memory is in megabytes,   *)
(* what the code does in floating point is done in percent.                *)
(***************************************************************************)
EXTENDS Integers

GB(n) == n * 1024

Least(a, b) == IF a < b THEN a ELSE b
Most(a, b) == IF a > b THEN a ELSE b

\* Subprocesses for each core.
Multiplier(memory, aggressive) ==
  IF memory < GB(2) THEN 1
  ELSE IF memory < GB(4) THEN 2
  ELSE IF memory < GB(8) THEN IF aggressive THEN 4 ELSE 3
  ELSE IF ~aggressive THEN 4
  ELSE IF memory < GB(16) THEN 6 ELSE 8

RequiredMemory(cores, memory, aggressive) ==
  50 + cores * Multiplier(memory, aggressive) * (IF aggressive THEN 60 ELSE 40)

AvailableMemory(memory, aggressive) ==
  (memory * (IF aggressive THEN 90 ELSE 85)) \div 100

\* PROJECTED_MEMORY_REQUIREMENT, or less for the smallest machines.
MemoryPerThread(memory) == IF memory <= GB(2) THEN 512 ELSE 2048

ClampThreadsByMemory(requested, cores, memory, aggressive) ==
  IF RequiredMemory(cores, memory, aggressive) <= AvailableMemory(memory, aggressive)
  THEN requested
  ELSE Least(requested,
             Most(AvailableMemory(memory, aggressive) \div MemoryPerThread(memory), 1))

\* Nine tenths of the cores or 95 percent of them, rounded up.
MaxWorkers(cores, aggressive) ==
  Most((cores * (IF aggressive THEN 95 ELSE 90) + 99) \div 100, 1)

\* The number of workers: --max-threads is NoLimit if it is not given.
NumWorkers(max_threads, NoLimit, check_mem, aggressive, cores, memory) ==
  LET most   == MaxWorkers(cores, aggressive)
      wanted == IF max_threads = NoLimit THEN most ELSE Least(Most(max_threads, 1), most)
  IN IF max_threads # NoLimit \/ check_mem \/ aggressive
     THEN ClampThreadsByMemory(wanted, cores, memory, aggressive)
     ELSE wanted
=============================================================================

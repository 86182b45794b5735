\* A worker dies between the two transactions of index_chunk.
CONSTANTS
  w1 = w1
  w2 = w2
  NoWorker = NoWorker
  NoJob = NoJob
  Workers <- TwoWorkers
  Serves <- AllQueues
  Budgets <- CrashBudget
  ChunkCount = 2
  MaxAttempts = 2
SPECIFICATION Spec
SYMMETRY Symmetry
INVARIANTS
  QuietIsSettled
\* The run of one video ends.
CHECK_DEADLOCK FALSE

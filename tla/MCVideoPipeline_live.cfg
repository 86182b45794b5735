\* Every upload ends, errors included.
CONSTANTS
  w1 = w1
  w2 = w2
  NoWorker = NoWorker
  NoJob = NoJob
  Workers <- TwoWorkers
  Serves <- AllQueues
  Budgets <- ErrorBudget
  ChunkCount = 2
  MaxAttempts = 2
SPECIFICATION FairSpec
INVARIANTS
  QuietIsSettled
PROPERTIES
  VideoSettles
\* The run of one video ends.
CHECK_DEADLOCK FALSE

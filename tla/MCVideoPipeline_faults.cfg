\* Crash, freeze, errors, retries (offered or not), repeated complete calls.
CONSTANTS
  w1 = w1
  w2 = w2
  NoWorker = NoWorker
  NoJob = NoJob
  Workers <- TwoWorkers
  Serves <- AllQueues
  Budgets <- FaultBudget
  ChunkCount = 2
  MaxAttempts = 2
SPECIFICATION Spec
SYMMETRY Symmetry
INVARIANTS
  TypeOK
  IndexedAfterExtract
  ReadyIsComplete
  CrashLosesNoChunk
  FailedHasReason
  DoneIsEncoded
PROPERTIES
  DoneIsFinal
  LivesAsVideoLife
\* The run of one video ends.
CHECK_DEADLOCK FALSE

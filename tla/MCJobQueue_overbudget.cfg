\* No fault at all: two leases race for the last place in the budget.
CONSTANTS
  w1 = w1
  w2 = w2
  v1 = v1
  up = up
  bulk1 = bulk1
  bulk2 = bulk2
  late = late
  NoWorker = NoWorker
  NoJob = NoJob
  Workers <- TwoWorkers
  Videos <- OneVideo
  Jobs <- BulkJobs
  Priority <- BulkPriority
  VideoOf <- BulkVideo
  Serves <- AllServeBulk
  MinPriority <- NoReserve
  MaxAttempts = 2
  OfflineBudget = 1
  MaxCrashes = 0
  MaxStalls = 0
  MaxRetries = 0
SPECIFICATION Spec
INVARIANTS
  OfflineWithinBudget

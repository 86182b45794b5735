\* Three offline jobs, a budget of 1, a reserved worker; a crash, a freeze, a retry.
CONSTANTS
  w1 = w1
  w2 = w2
  v1 = v1
  up = up
  bulk1 = bulk1
  bulk2 = bulk2
  late = late
  NoWorker = NoWorker
  NoJob = NoJob
  Workers <- TwoWorkers
  Videos <- OneVideo
  Jobs <- BulkJobs
  Priority <- BulkPriority
  VideoOf <- BulkVideo
  Serves <- AllServeBulk
  MinPriority <- W2Reserved
  MaxAttempts = 2
  OfflineBudget = 1
  MaxCrashes = 1
  MaxStalls = 1
  MaxRetries = 1
SPECIFICATION Spec
INVARIANTS
  TypeOK
  LeaseHonoured
  NoDoubleProcessing
  AttemptsBounded
  OfflineOvershootBounded

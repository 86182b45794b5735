\* The queue implements LeaseQueue and every job ends, with one process dying.
CONSTANTS
  w1 = w1
  w2 = w2
  v1 = v1
  up = up
  bulk1 = bulk1
  bulk2 = bulk2
  late = late
  NoWorker = NoWorker
  NoJob = NoJob
  Workers <- TwoWorkers
  Videos <- OneVideo
  Jobs <- MixedJobs
  Priority <- MixedPriority
  VideoOf <- MixedVideo
  Serves <- AllServeMixed
  MinPriority <- NoReserve
  MaxAttempts = 2
  OfflineBudget = 1
  MaxCrashes = 1
  MaxStalls = 0
  MaxRetries = 1
SPECIFICATION FairSpec
PROPERTIES
  ImplementsLeaseQueue
  JobsSettle

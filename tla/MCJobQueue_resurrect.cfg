\* A frozen worker resumes after its job succeeded elsewhere.
CONSTANTS
  w1 = w1
  w2 = w2
  v1 = v1
  up = up
  bulk1 = bulk1
  bulk2 = bulk2
  late = late
  NoWorker = NoWorker
  NoJob = NoJob
  Workers <- TwoWorkers
  Videos <- OneVideo
  Jobs <- MixedJobs
  Priority <- MixedPriority
  VideoOf <- MixedVideo
  Serves <- AllServeMixed
  MinPriority <- NoReserve
  MaxAttempts = 2
  OfflineBudget = 0
  MaxCrashes = 0
  MaxStalls = 1
  MaxRetries = 0
SPECIFICATION Spec
PROPERTIES
  SucceededStays

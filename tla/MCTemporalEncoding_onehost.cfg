\* Two workers on one host, two backfills of one chunk
SPECIFICATION Spec
CONSTANTS
  w1 = w1
  w2 = w2
  h1 = h1
  h2 = h2
  xclip = xclip
  siglip = siglip
  NoWorker = NoWorker
  NoJob = NoJob
  Unnamed = Unnamed
  Workers <- TwoWorkers
  MaxAttempts = 2
  ChunkCount = 1
  Pictures <- AllFilmed
  Names <- Encoders
  KeyOf <- OneName
  Hosts <- TwoHosts
  Placements <- OnOneHost
  Sources <- Uploaded
  Budgets <- TwoBackfills
INVARIANT BackfillIsComplete
CHECK_DEADLOCK FALSE

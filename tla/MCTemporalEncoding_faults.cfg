\* Two workers on one or two hosts, one chunk, two encoders
SPECIFICATION Spec
CONSTANTS
  w1 = w1
  w2 = w2
  h1 = h1
  h2 = h2
  xclip = xclip
  siglip = siglip
  NoWorker = NoWorker
  NoJob = NoJob
  Unnamed = Unnamed
  Workers <- TwoWorkers
  MaxAttempts = 2
  ChunkCount = 1
  Pictures <- SomeFilmed
  Names <- Encoders
  KeyOf <- OneName
  Hosts <- TwoHosts
  Placements <- Anywhere
  Sources <- AnySource
  Budgets <- FaultBudgets
INVARIANTS
  TypeOK
  SuccessIsStored
  OneSetPerWriter
  QuietIsRegistered
  SteadyBackfillIsComplete
PROPERTY RowsStay
SYMMETRY Symmetry
CHECK_DEADLOCK FALSE

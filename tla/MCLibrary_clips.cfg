\* A clip imported, linked, fetched, uploaded, deleted; crashes and freezes; or an experiment
\* on an index that changes, and the negatives mined from it; or candidates
\* reviewed with four tools.
CONSTANTS
  w1 = w1
  w2 = w2
  v1 = v1
  v2 = v2
  v3 = v3
  Clips = {c1}
  Videos = {v1, v2, v3}
  NoVideo = NoVideo
  Workers = {w1, w2}
  NoWorker = NoWorker
  NoJob = NoJob
  MaxAttempts = 2
  Budgets <- FewBudgets
  Tolerance = 3
  Scale = 12
  Parts <- TwoParts
  PartOf <- OneVideo
  Cuts <- FewCuts
  Queries <- TwoQueries
  Subsets <- OneByOne
  Exps = {x1}
  HitLimit = 3
  MaxIou = 10
  PerQuery = 1
  Builds = 2
  Mines = 2
  Candidates <- TwoCandidates
  Source <- OneSource
  MaxStarts = 3
SPECIFICATION Spec
SYMMETRY Symmetry
INVARIANTS
  LibraryTypeOK
  MediaKept
  OneVideoPerClip
  ReferencesHold
  ScoresConsistent
  NegativesAreWrong
  DatasetFollowsReview
\* The work ends.
CHECK_DEADLOCK FALSE

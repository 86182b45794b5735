\* A search whose reranker reads what a lane that is off would have searched.
CONSTANTS
  ChunkS = 12
  MinTail = 3
  TargetS = 5
  MinS = 3
  MaxS = 7
  Slack = 1
  MaxGap = 4
  WindowS = 4
  StrideS = 2
  NFrames = 3
  PerSegment = 2
  Durations <- ScaledDurations
  MaxEnds = 2
  MaxScenes = 1
  MinTopic = 4
  RelaxedTopic = 2
  MaxTopics = 3
  Parts = 3
  Timelines <- ScaledTimelines
  Titles = {A, B}
  NoTitle = NoTitle
  Segments <- FourSegments
  VideoOf <- TwoVideos
  Span <- Spans
  TextOf <- SomeTexts
  Unit = 12
  RrfK = 1
  Mix <- TenthsMix
  TopK = 3
  RerankTopK = 2
  Limit = 3
  DedupWindow = 12
  MaxPerVideo = 2
  MinP = 2
  Indexes <- FewIndexes
  Requests <- FewRequests
SPECIFICATION Spec
INVARIANT NoSignalLeaks
\* A plan ends.
CHECK_DEADLOCK FALSE

SPECIFICATION FairSpec
CONSTANTS
  f1 = f1
  g = g
  h = h
  PullFeedback = {f1}
  IssueFeedback = {g, h}
  Batches <- MCBatches
  Patches = {x, y}
  Categories = {c}
  Prefix <- MCPrefix
  Unpublishable = {y, h}
  Workers = {w1, w2}
  IssueWorkers = {w1}
  PageSize = 1
  MaxPages = 2
  MaxMoves = 1
  MaxForeign = 2
  FaultKinds = {"lost", "late", "refused", "crash", "expire"}
  MaxFaults = 2
  MaxRetries = 1
CHECK_DEADLOCK FALSE
INVARIANTS
  TypeOK
  PullShowsItsPatch
  OpenedExists
  OneIssuePerFeedback
  ConflictIsReal
PROPERTIES
  EveryPublicationEnds
  PublishesOnce

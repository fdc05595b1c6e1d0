SPECIFICATION FairSpec
CONSTANTS
  Feedback = {1}
  Schedulers = {s1}
  Maintainers = {}
  MaxAttempts = 3
  MaxClaims = 4
  Fingerprint <- MCFingerprint
  GateRoutes <- MCRoutes
  AgentOutcomes <- MCOutcomes
  FaultKinds = {"crash", "repo", "lost", "artifact"}
  MaxFaults = 2
INVARIANTS
  TypeOK
  StaleRunsBounded
  PulledIsNotRetried
  OpenedIsPublished
  OnlyUnfinalizedStranded
PROPERTIES
  PullsByOwner
  ImplementsLifecycle
  RunsEndUnlessForbidden
  FeedbackSettlesUnlessLeft

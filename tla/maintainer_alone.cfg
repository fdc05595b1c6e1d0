SPECIFICATION Spec
CONSTANTS
  Feedback = {1}
  Schedulers = {}
  Maintainers = {m1}
  MaxAttempts = 2
  MaxClaims = 2
  Fingerprint <- MCFingerprint
  GateRoutes <- MCRoutes
  AgentOutcomes <- MCOutcomes
  FaultKinds = {"crash", "repo", "artifact"}
  MaxFaults = 2
CHECK_DEADLOCK FALSE
INVARIANTS
  PublishedOnlyValidated
  StagesAgree
  ActiveRunOwnsFeedback
PROPERTIES
  TerminalRunsStay

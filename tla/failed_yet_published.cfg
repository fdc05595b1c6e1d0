SPECIFICATION Spec
CONSTANTS
  Feedback = {1}
  Schedulers = {s1}
  Maintainers = {}
  MaxAttempts = 2
  MaxClaims = 2
  Fingerprint <- MCFingerprint
  GateRoutes <- MCRoutes
  AgentOutcomes <- MCOutcomes
  FaultKinds = {"crash"}
  MaxFaults = 1
PROPERTIES
  PullsWhilePublishing

SPECIFICATION Spec
CONSTANTS
  Feedback = {1}
  Schedulers = {s1}
  Maintainers = {m1}
  MaxAttempts = 2
  MaxClaims = 2
  Fingerprint <- MCFingerprint
  GateRoutes = {"publishing_issue"}
  AgentOutcomes = {"fixed"}
  FaultKinds = {"crash", "repo", "lost", "artifact"}
  MaxFaults = 1
INVARIANTS
  InFlightHasRun

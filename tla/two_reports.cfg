SPECIFICATION Spec
CONSTANTS
  Feedback = {1, 2}
  Schedulers = {s1}
  Maintainers = {}
  MaxAttempts = 2
  MaxClaims = 4
  Fingerprint <- MCFingerprint
  GateRoutes = {"reproducing", "publishing_issue"}
  AgentOutcomes = {"fixed"}
  FaultKinds = {"crash", "repo", "lost", "artifact"}
  MaxFaults = 1
INVARIANTS
  NotAllDuplicates
  SingleFlight

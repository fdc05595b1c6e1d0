SPECIFICATION FairSpec
CONSTANTS
  Feedback = {1}
  Schedulers = {s1}
  Maintainers = {}
  MaxAttempts = 1
  MaxClaims = 1
  Fingerprint <- MCFingerprint
  GateRoutes <- MCRoutes
  AgentOutcomes <- MCOutcomes
  FaultKinds = {"artifact"}
  MaxFaults = 1
PROPERTIES
  EveryRunEnds

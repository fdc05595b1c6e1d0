SPECIFICATION FairSpec
CONSTANTS
    None = None
    Jobs <- MCJobs
    Patches = {t0, t1, t2, f1, f2}
    TestPatches = {t1, t2}
    FixPatches = {f1, f2}
    ProbePatch = t0
    Results = {"failed_as_planned", "passed", "untrusted"}
    MaxRetries = 1
    FaultKinds = {"timeout", "worker_dies", "store_fails", "expired", "process_dies"}
    MaxFaults = 1
    MaxRounds = 2
    MaxModelCalls = 6
    MaxLag = 2
    Modes = {"agent", "fixed"}
INVARIANTS
    TypeOK
    EvidenceMatchesPatch
    ReproducedIsNotDismissed
    ConflictOnlyAfterRestart
PROPERTIES
    TestFrozenWhileRepairing
    EveryRunEnds
    VerdictIsGivenOnce
CHECK_DEADLOCK FALSE

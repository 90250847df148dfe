SPECIFICATION MCFairSpec
CONSTANTS
    d1 = d1
    d2 = d2
    r1 = r1
    r2 = r2
    None = None
    Parts = {"ceremony", "single", "rerun", "pair", "monitor"}
    Deployers = {d1, d2}
    Pre = {"setLedger"}
    Post = {"freeze"}
    NoFallback = {}
    Cancellable = {"freeze"}
    CrashAt = {"reserve", "observe", "publish", "archive"}
    MayExpire = FALSE
    ContinueEarly = TRUE
    ObjectiveChecks = {"registry", "problemId", "packageHash", "guestElfSha256", "programVKey", "quorumProgramId", "programId"}
    MaxManifests = 3
    MaxCrashes = 0
    MaxFailures = 1
INVARIANTS
    CompletionIsBacked
    JournalTruthful
    OkIsTrue
PROPERTIES
    DeploymentCompletes
CHECK_DEADLOCK FALSE

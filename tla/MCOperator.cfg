SPECIFICATION MCSpec
CONSTANTS
    h1 = h1
    p1 = p1
    p2 = p2
    p3 = p3
    c1 = c1
    c2 = c2
    b1 = b1
    b2 = b2
    s1 = s1
    NoNonce = NoNonce
    Outside = Outside
    None = None
    NoOwner = NoOwner
    Candidates = {c1, c2}
    Actions = {c1, c2}
    Boards = {b1, b2}
    BoardOf <- oneBoard
    MaxDay = 1
    globalDay = 1
    maxPendingProvisioned = 1
    MaxHealth = 2
    MaxNonce = 1
    MaxFailures = 0
    Staleness = 0
    AutoClaimBond = TRUE
    Parts = {"lock", "wallet", "days", "ingestion", "supervisor", "fallback"}
    IngestionFaults = 1
    Pids = {p1, p2, p3}
    HostOf <- oneHost
    IdentityProbe = FALSE
    MaxTokens = 4
    MaxRestarts = 1
    CrashPoints <- anywhere
    DiskFails = TRUE
    maxFailures = 2
    Codes = {0, 2, 64}
    StartLimitBurst = 1
    MaxCycles = 4
    MaxStarts = 2
    MaxCrashes = 1
    Interference = {}
    PrimaryLags = TRUE
INVARIANTS
    NeverStolen
    OneNonceOneAction
    CapsHeld
    InFlightCounted
    ScanComplete
    BudgetHolds
    EvidenceBeforeProgress
PROPERTIES
    ImplementsMutex
CHECK_DEADLOCK FALSE

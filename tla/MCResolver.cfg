SPECIFICATION MCSpec
CONSTANTS
    c1 = c1
    c2 = c2
    s1 = s1
    s2 = s2
    s3 = s3
    p1 = p1
    p2 = p2
    None = None
    Challenges = {c1, c2}
    Signers = {s1, s2, s3}
    Threshold = 3
    Stake = 1
    Evidence <- oneEvidence
    Truth <- truth
    ChallengeWindow = 2
    ChallengeDelay = 0
    Overlap = 0
    MaxBlock = 1
    MaxEpoch = 2
    Faults = {"crash", "rotate", "hold", "drop", "slash", "deep"}
    MaxFaults = 1
    Parts = {"publication", "boards", "signing", "rerun"}
    RerunOverlaps = FALSE
    MaxUploads = 6
    MayDecoy = TRUE
    MaxNetFaults = 3
    MaxCrashes = 3
    MaxWipes = 1
SYMMETRY Symmetry
INVARIANTS
    PromisesBacked
    NoEquivocation
    SignatureRests
    PaidOnce
CHECK_DEADLOCK FALSE

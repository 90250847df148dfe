SPECIFICATION MCSpec
CONSTANTS
    Parts = {"board", "settlement"}
    a1 = a1
    a2 = a2
    Actors = {a1, a2}
    Treasury = Treasury
    Resolver = Resolver
    NoOne = NoOne
    feeBps = 250
    earliestCloseTimestamp = 3
    closeByTimestamp = 3
    MIN_COMPETITION_SECONDS = 3
    CLAIM_DEADLINE_SECONDS = 1
    MAX_TOTAL_CREDIT_ATOMS = 3
    MaxTime = 5
    d1 = d1
    Digests = {d1}
    NoDigest = NoDigest
    launch = launch
    Authorities = {launch}
    AuthorizationExpiries = {1}
    MaxNonce = 0
    ObjectiveProofsActive = TRUE
    armNotBefore = 0
    GateStarts = {"authorized"}
    fundingCap = 80
    FrozenAtStart = TRUE
    AcceptingChoices = {TRUE}
    FundingAmounts = {80}
    ForcedAmounts = {1}
    MaxForcedEth = 1
    CreditAmounts = {1, 2, 3}
    MaxSubmissions = 1
    c1 = c1
    Cids = {c1}
    NoCid = NoCid
    Scores = {1}
    seedScoreAtoms = 3
    MIN_SCORE_ATOMS_BOUND = 0
    minImprovementAtoms = 1
    alphaBps = 250
    minPostingBondWei = 1
    BondValues = {2}
    MaxBond = 4
    challengeWindowSeconds = 2
    MIN_COMMIT_AGE_BLOCKS = 1
    MAX_CUMULATIVE_DISPUTE_WINDOWS = 3
    PAUSED_ALL_RECOVERY_DELAY = 2
    CREDIT_FINALIZE_RECOVERY_DELAY = 2
    betaBps = 5000
    minCounterBondWei = 1
    rerunCostWei = 1
    rerunCostMultiplierBps = 10000
    resolverDecisionBondWei = 1
    resolverFraudWindowSeconds = 1
    CounterBonds = {1}
    ResolverBonds = {1}
    MaxChallengeBalance = 2
    OwnerSwitches = {"newActions", "ledger", "challenges"}
    Claimants = {a1, Resolver}
    LastOptionalStep = 100
    CarefulGovernance = TRUE
INVARIANTS
    BoardReplayRebuilds
    MoneySafe
    AwardsCovered
PROPERTIES
    SettlementSpec
CHECK_DEADLOCK FALSE

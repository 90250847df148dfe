SPECIFICATION MCSpec
CONSTANTS
    Parts = {"board"}
    a1 = a1
    Actors = {a1}
    Treasury = Treasury
    Resolver = Resolver
    NoOne = NoOne
    feeBps = 250
    earliestCloseTimestamp = 3
    closeByTimestamp = 3
    MIN_COMPETITION_SECONDS = 3
    CLAIM_DEADLINE_SECONDS = 0
    MAX_TOTAL_CREDIT_ATOMS = 3
    MaxTime = 5
    d1 = d1
    Digests = {d1}
    NoDigest = NoDigest
    launch = launch
    Authorities = {launch}
    AuthorizationExpiries = {0}
    MaxNonce = 1
    ObjectiveProofsActive = TRUE
    armNotBefore = 0
    GateStarts = {"fresh", "armed"}
    fundingCap = 4
    FrozenAtStart = TRUE
    AcceptingChoices = {}
    FundingAmounts = {}
    ForcedAmounts = {}
    MaxForcedEth = 0
    CreditAmounts = {1, 2, 3}
    MaxSubmissions = 2
    c1 = c1
    c2 = c2
    Cids = {c1, c2}
    NoCid = NoCid
    Scores = {1, 2}
    seedScoreAtoms = 3
    MIN_SCORE_ATOMS_BOUND = 0
    minImprovementAtoms = 1
    alphaBps = 5000
    minPostingBondWei = 1
    BondValues = {2}
    MaxBond = 2
    challengeWindowSeconds = 2
    MIN_COMMIT_AGE_BLOCKS = 1
    MAX_CUMULATIVE_DISPUTE_WINDOWS = 3
    PAUSED_ALL_RECOVERY_DELAY = 2
    CREDIT_FINALIZE_RECOVERY_DELAY = 2
    betaBps = 5000
    minCounterBondWei = 1
    rerunCostWei = 1
    rerunCostMultiplierBps = 10000
    resolverDecisionBondWei = 1
    resolverFraudWindowSeconds = 1
    CounterBonds = {}
    ResolverBonds = {1}
    MaxChallengeBalance = 4
    OwnerSwitches = {"full"}
    Claimants = {}
    LastOptionalStep = 100
    CarefulGovernance = TRUE
SYMMETRY Symmetry
INVARIANTS
    FrontierSafe
PROPERTIES
    OutcomesFinal
CHECK_DEADLOCK FALSE

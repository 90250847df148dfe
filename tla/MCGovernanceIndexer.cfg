SPECIFICATION MCSpec
CONSTANTS
    s1 = s1
    s2 = s2
    s3 = s3
    s4 = s4
    g1 = g1
    g2 = g2
    work = work
    swap = swap
    warden = warden
    drop = drop
    add = add
    raise = raise
    v1 = v1
    v2 = v2
    v3 = v3
    trs = trs
    r1 = r1
    None = None
    Ops = {swap, warden}
    Call <- calls
    Family <- families
    Signers0 = {s1, s2, s3}
    Threshold0 = 2
    Guardian0 = g1
    delay = 1
    operationGracePeriod = 1
    Lost = {}
    Opposed = FALSE
    Prompt = FALSE
    Contested = {warden}
    MaxTime = 3
    MaxDepth = 2
    p1 = p1
    p2 = p2
    c1 = c1
    c2 = c2
    f1 = f1
    f2 = f2
    f3 = f3
    Local = Local
    Forks = {f1, f2, f3}
    Returns = FALSE
    Portals = {p1, p2}
    Checkpoints <- someCheckpoints
    MaxNow = 4
    MaxAge = 2
    FutureTolerance = 1
    GateTimeout = 1
    fundingDeadline = 4
    Parts = {"timelock", "members", "nested", "single", "pair", "acceptance", "scan", "store"}
SYMMETRY Symmetry
INVARIANTS
    ThresholdStaysValid
    ActivationSafe
    HistoryAdvances
    ServedIsCurrent
    OneChain
    PointerBacked
PROPERTIES
    PresentMajorityDecides
    NestedByOverride
    RecoveryApprovedUnderPresentGovernance
    GenerationsAdvance
CHECK_DEADLOCK FALSE

SPECIFICATION MCSpec
CONSTANTS
    a = a
    b = b
    x = x
    y = y
    r1 = r1
    r2 = r2
    r3 = r3
    k1 = k1
    k2 = k2
    h1 = h1
    h2 = h2
    c1 = c1
    c2 = c2
    None = None
    Parts = {"transfer", "keys", "reveals", "database", "funding", "windows"}
    Ceremonies = {a, b}
    ExpectedRevision = 1
    Paused = TRUE
    MaxRevision = 2
    MaxDDL = 1
    MaxFaults = 2
    Imports = TRUE
SYMMETRY Symmetry
INVARIANTS
    NothingLeftBehind
    DoneOnce
    NoForeignWriter
    PaysOnce
    BondNotForfeited
CHECK_DEADLOCK FALSE

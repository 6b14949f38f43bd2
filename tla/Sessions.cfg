SPECIFICATION Spec
CONSTANTS
    Ids = {i1, i2}
    Sandboxes = {s1, s2}
    Snapshots = {p1, p2, p3}
    MaxWork = 2
    MaxCrashes = 1
    Serial = TRUE
    NoSandbox = NoSandbox
    NoSnapshot = NoSnapshot
    NoEntry = NoEntry
    NoId = NoId
SYMMETRY Symmetry
INVARIANTS
    TypeOK Restorable LiveCurrent Accounted
PROPERTY
    ImplementsDurable

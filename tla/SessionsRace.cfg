SPECIFICATION Spec
CONSTANTS
    Ids = {i1, i2}
    Sandboxes = {s1, s2}
    Snapshots = {p1, p2, p3}
    MaxWork = 1
    MaxCrashes = 0
    Serial = FALSE
    NoSandbox = NoSandbox
    NoSnapshot = NoSnapshot
    NoEntry = NoEntry
    NoId = NoId
INVARIANTS
    Restorable

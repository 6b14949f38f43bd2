SPECIFICATION Spec
CONSTANTS
    Ids = {i1}
    Sandboxes = {s1}
    Snapshots = {p1, p2}
    MaxWork = 1
    MaxCrashes = 0
    Serial = TRUE
    NoSandbox = NoSandbox
    NoSnapshot = NoSnapshot
    NoEntry = NoEntry
    NoId = NoId
INVARIANTS
    LiveHasEntry

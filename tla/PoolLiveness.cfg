SPECIFICATION FairSpec
CONSTANTS
    Callers = {c1}
    Warmers = {w1, w2}
    Sandboxes = {s1, s2}
    WarmSize = 1
    WaitTargets = {}
    MaxOpens = 2
    CreateOutlivesJoin = TRUE
    NoSandbox = NoSandbox
    NoThread = NoThread
INVARIANTS
    TypeOK Accounted WarmBound WarmerHasClients
PROPERTIES
    CloseReturns WarmerEnds Refilled

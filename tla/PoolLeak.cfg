SPECIFICATION Spec
CONSTANTS
    Callers = {}
    Warmers = {w1}
    Sandboxes = {s1, s2}
    WarmSize = 1
    WaitTargets = {}
    MaxOpens = 1
    CreateOutlivesJoin = TRUE
    NoSandbox = NoSandbox
    NoThread = NoThread
INVARIANTS
    ClosedClean

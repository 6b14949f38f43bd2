SPECIFICATION Spec
CONSTANTS
    Callers = {c1, c2}
    Warmers = {w1}
    Sandboxes = {s1, s2, s3, s4}
    WarmSize = 2
    WaitTargets = {2}
    MaxOpens = 2
    CreateOutlivesJoin = FALSE
    NoSandbox = NoSandbox
    NoThread = NoThread
SYMMETRY Symmetry
INVARIANTS
    ExclusiveLease NoLostWakeup ClosedClean WarmIsLive
PROPERTIES
    ImplementsLease

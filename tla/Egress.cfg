SPECIFICATION Spec
CONSTANTS
    Hosts = {h1}
    Paths = {None}
    Names = {name}
    Methods <- OneList
    PipHosts <- Pip
    None = None
    MaxCalls = 3
    MaxBuilds = 2
    MaxTampers = 1
CHECK_DEADLOCK FALSE
INVARIANTS
    TypeOK BuilderIntact PoliciesApart AppliedAsAsked

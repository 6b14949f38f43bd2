SPECIFICATION FairSpec
CONSTANTS
    Procs = {p1, p2}
    Volumes = {v1, v2}
    Attempts = 6
    NoVolume = NoVolume
INVARIANTS
    TypeOK EndpointKnown Sealed Equipped
PROPERTIES
    CallsEnd

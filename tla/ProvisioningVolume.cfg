SPECIFICATION Spec
CONSTANTS
    Procs = {p1, p2}
    Volumes = {v1}
    Attempts = 6
    NoVolume = NoVolume
INVARIANTS
    EnsureIdempotent

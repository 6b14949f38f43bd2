SPECIFICATION Spec
CONSTANTS
    MaxRuns = 2
    MaxBoxes = 3
    EnvSizes = {0, 1}
    ShotIds = {1, 2, 3, 4, 5}
CHECK_DEADLOCK FALSE
INVARIANTS
    TypeOK CleanExit OwnSandbox SavedOnSuccess VerdictHonest NoSnapshotLeft FirstTwoWarm

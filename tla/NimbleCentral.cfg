SPECIFICATION FairSpec
CONSTANTS
    MaxRuns = 2
    MaxFrames = 1
INVARIANTS
    TypeOK
    NothingLost
    InflightHonest
    PumpsReady
PROPERTIES
    LossEndsRun
CHECK_DEADLOCK FALSE

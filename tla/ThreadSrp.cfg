SPECIFICATION FairSpec
CONSTANTS
    Services = {s1, s2}
    MaxChanges = 2
    MaxMoves = 2
    MaxFaults = 1
    MaxQueries = 1
INVARIANTS
    TypeOK
    BeliefsAgree
    RegisteredMeansPublished
PROPERTIES
    Converges
    ServeTracks
CHECK_DEADLOCK FALSE

SPECIFICATION Spec
CONSTANTS
    MaxLinks = 2
    MaxRuns = 2
    MaxResets = 1
    MaxFrames = 1
    HandleSpace = 1
    Generations = 3
INVARIANTS
    TypeOK
    SessionIsolation
    PumpsNotLost
    NackHonest
    Discoverable
    MtuFits
PROPERTIES
    ImplementsTransport
CHECK_DEADLOCK FALSE

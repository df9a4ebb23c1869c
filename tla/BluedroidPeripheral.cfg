SPECIFICATION Spec
CONSTANTS
    MaxLinks = 3
    MaxRuns = 1
    MaxFrames = 1
    HandleSpace = 2
INVARIANTS
    TypeOK
    AnswersWhatItFed
    MtuIsOwn
    PumpsNotLost
    Discoverable
PROPERTIES
    KeepsItsPeer
    ImplementsTransport
CHECK_DEADLOCK FALSE

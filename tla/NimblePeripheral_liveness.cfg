SPECIFICATION FairSpec
CONSTANTS
    MaxLinks = 2
    MaxRuns = 1
    MaxResets = 0
    MaxFrames = 1
    HandleSpace = 1
    Generations = 3
PROPERTIES
    PumpsServe
    Readvertises
CHECK_DEADLOCK FALSE

SPECIFICATION FairSpec
CONSTANTS
    MaxLinks = 1
    MaxRuns = 1
    MaxResets = 0
    MaxFrames = 1
    HandleSpace = 1
    Generations = 3
PROPERTY
    LinkLossReadvertises
CHECK_DEADLOCK FALSE

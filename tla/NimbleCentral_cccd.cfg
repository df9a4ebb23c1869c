SPECIFICATION FairSpec
CONSTANTS
    MaxRuns = 1
    MaxFrames = 1
PROPERTY
    SubscribeAnswered
CHECK_DEADLOCK FALSE

SPECIFICATION FairSpec
CONSTANTS
    Clients = {k1, k2}
    Nothing = Nothing
    Every = 1
    MaxNow = 3
    MaxBoots = 3
    MaxMessages = 3
    MaxFaults = 1
INVARIANTS
    TypeOK
    AsleepSafely
    KeptByParent
    ClockRight
PROPERTY
    SleepsAgain
CHECK_DEADLOCK FALSE

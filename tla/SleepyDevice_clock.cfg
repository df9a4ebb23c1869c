SPECIFICATION FairSpec
CONSTANTS
    Clients = {k1}
    Nothing = Nothing
    Every = 1
    MaxNow = 4
    MaxBoots = 3
    MaxMessages = 3
    MaxFaults = 1
PROPERTY
    SyncedRecently
CHECK_DEADLOCK FALSE

SPECIFICATION FairSpec
CONSTANTS
    Networks = {n1, n2}
    NoNetwork = NoNetwork
    Callers = {c1, c2}
    NoOne = NoOne
    Scanner = Scanner
    MaxRuns = 2
    MaxCalls = 2
    MaxChanges = 2
    MaxFaults = 1
INVARIANT
    TypeOK
PROPERTIES
    ImplementsController
    Converges
    ConnectEnds
CHECK_DEADLOCK FALSE

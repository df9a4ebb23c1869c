SPECIFICATION FairSpec
CONSTANTS
    Networks = {n1, n2}
    NoNetwork = NoNetwork
    LinkLocal = LinkLocal
    Callers = {c1, c2}
    NoOne = NoOne
    Scanner = Scanner
    MaxRuns = 2
    MaxCalls = 2
    MaxChanges = 2
    MaxFaults = 1
INVARIANTS
    TypeOK
    PollsItsOwn
    NoStaleCredentials
PROPERTIES
    ImplementsController
    Converges
CHECK_DEADLOCK FALSE

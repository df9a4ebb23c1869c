SPECIFICATION Spec
CONSTANTS
    Networks = {n1, n2}
    NoNetwork = NoNetwork
    LinkLocal = LinkLocal
    Callers = {c1}
    NoOne = NoOne
    Scanner = Scanner
    MaxRuns = 1
    MaxCalls = 1
    MaxChanges = 1
    MaxFaults = 1
INVARIANT
    LeftAlone
CHECK_DEADLOCK FALSE

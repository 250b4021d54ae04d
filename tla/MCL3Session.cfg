SPECIFICATION Spec
CONSTANTS
    c1 = c1
    c2 = c2
    v1 = v1
    v2 = v2
    r1 = r1
    r2 = r2
    NoEntry = NoEntry
    NoCall = NoCall
    Callers <- MCCallers
    Vips <- MCVips
    Dsts = {d}
    Resources <- MCResources
    MaxAuthId = 2
    WriteQueueDepth = 1
    RetryQueueDepth = 1
    RetryBudget = 0
SYMMETRY Symmetry
CHECK_DEADLOCK FALSE
INVARIANTS TokenMatchesFlow
PROPERTIES ImplementsFlowTable

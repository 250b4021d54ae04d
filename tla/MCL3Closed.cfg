SPECIFICATION Spec
CONSTANTS
    c1 = c1
    c2 = c2
    v1 = v1
    v2 = v2
    r1 = r1
    r2 = r2
    NoEntry = NoEntry
    NoCall = NoCall
    Callers <- MCCallers
    Vips = {v1}
    Dsts = {d}
    Resources = {r1}
    MaxAuthId = 2
    WriteQueueDepth = 1
    RetryQueueDepth = 1
    RetryBudget = 0
CHECK_DEADLOCK FALSE
INVARIANTS ClosedMeansClosed

SPECIFICATION Spec
CONSTANTS
    c1 = c1
    c2 = c2
    v1 = v1
    v2 = v2
    e1 = e1
    e2 = e2
    NoVip = NoVip
    Nobody = Nobody
    Callers = {c1}
    Vips <- MCVips
    EndpointLists <- MCEndpoints
    ClosedRetries = 0
    TimeoutRetries = 0
    MaxSessions = 2
    MaxUpdates = 1
CHECK_DEADLOCK FALSE
INVARIANTS LastVipKept

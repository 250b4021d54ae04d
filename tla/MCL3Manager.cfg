SPECIFICATION Spec
CONSTANTS
    c1 = c1
    c2 = c2
    v1 = v1
    v2 = v2
    e1 = e1
    e2 = e2
    NoVip = NoVip
    Nobody = Nobody
    Callers <- MCCallers
    Vips <- MCVips
    EndpointLists <- MCEndpoints
    ClosedRetries = 1
    TimeoutRetries = 0
    MaxSessions = 2
    MaxUpdates = 1
SYMMETRY Symmetry
CHECK_DEADLOCK FALSE
INVARIANTS SessionsAccounted ReconnectsAreComplete

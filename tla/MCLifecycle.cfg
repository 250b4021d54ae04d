SPECIFICATION MCSpec
CONSTANTS
    c1 = c1
    c2 = c2
    v1 = v1
    e1 = e1
    r1 = r1
    r2 = r2
    m1 = m1
    w1 = w1
    w2 = w2
    p1 = p1
    p2 = p2
    p3 = p3
    NoVip = NoVip
    Nobody = Nobody
    Callers <- MCCallers
    Vips <- MCVips
    EndpointLists <- MCOneEndpoint
    ClosedRetries = 1
    TimeoutRetries = 1
    MaxSessions = 1
    MaxUpdates = 0
    Replacers <- MCReplacers
    MaxBuilt = 3
    NoOwner = NoOwner
    Manuals <- MCManuals
    MaxVersion = 2
    MaxGeneration = 3
    MaxFailures = 2
    Revoked = Revoked
    Failed = Failed
    Savers <- MCSavers
    MaxCrashes = 1
    Clients <- MCClients
    MaxConnections = 2
    MaxVisits = 1
    MaxEvents = 1
CHECK_DEADLOCK FALSE
INVARIANTS TypesOK HandoverIsClean SavesAreDurable
PROPERTIES EveryCallReturns LatestIsUsed ProxyStopsCleanly LoginIsSound

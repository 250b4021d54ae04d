INIT MCInit
NEXT MCNext
CONSTANTS
    d1 = d1
    d2 = d2
    d3 = d3
    q1 = q1
    q2 = q2
    s1 = s1
    s2 = s2
    t1 = t1
    t2 = t2
    Lookups <- MCLookups
    Hosts = {"a", "b"}
    DnsServers = 1
    CacheSize = 1
    MaxSession = 2
    MaxTable = 2
    MaxDials = 2
    Sockets <- MCSockets
    LastPort = 1
    UdpVips = {1, 2}
    MaxL3 = 2
    MaxUpdates = 1
    ChannelDepth = 1
    MaxConnects = 3
    Interval = 2
    MissLimit = 1
    WriteLimit = 1
    QueueDepth = 1
    MaxClock = 10
    MaxUnasked = 1
    MaxData = 1
    Dialers <- MCDialers
    NoDialer = NoDialer
    MaxGen = 3
    Configured <- MCConfigured
    DialRetries = 1
    Targets <- MCTargets
    Senders = {"s1", "s2"}
    MaxPeers = 2
    MaxReceivers = 4
    Preludes <- MCPreludes
    FrameLists <- MCFrameLists
    OkBodies <- MCOkBodies
    MaxSkipped = 2
    ReadSize = 1
    Buffers <- MCBuffers
    DirectCalls = FALSE
    L3Streams <- MCStreams
    Pieces = {1, 2, 5, 60}
    MaxStatus = 3
    MaxBuffered = 40
    LargeLength = 19
    IpEntries <- MCIpEntries
    NameEntries <- MCNameEntries
    NodeTexts <- MCNodeTexts
    TableSize = 3
    AddressBits = 3
    FlowPorts = {0, 1, 2}
    FlowHosts <- MCFlowHosts
    CandidateLists <- MCCandidates
    Requests = {"a", "c"}
    NoRequest = NoRequest
    Malformed = Malformed
    Latencies = {1, 2}
    MaxSid = 2
    MaxU64 = 15
    MaxSeconds = 6
    Plans <- MCPlans
    SessionFiles <- MCSessionFiles
    Grids <- MCGrids
    MaxLinks = 2
    MaxTicks = 1
    MaxFaults = 1
    ClosedBudget = 1
    TimeoutBudget = 0
    HeaderLists <- MCHeaderLists
    MaxHeader = 4
    DnsNames <- MCDnsNames
    RecordLists <- MCRecordLists
    MaxSteps = 64
    MaxLabels = 2
    MaxChain = 2
    MaxRecords = 3
CHECK_DEADLOCK FALSE
INVARIANTS
    TypesOK LookupsAreSound SocketsAreConsistent DeadPeerDetected DialsAreComplete
    AnswersOnlyThroughPeers  FramesReassembled 
    SelectionFailsClosed  ArmsAreAttributable VerdictsAreEarned
    RelaysWhatWasAsked AnswersFollowAliases

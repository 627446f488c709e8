SPECIFICATION MCSpec
CONSTANTS
    Parts = {"heads", "rollover", "archival", "schedule", "feed", "warm", "sources", "checks"}
    a = a
    b = b
    c = c
    A = A
    B = B
    C = C
    a1 = a1
    a2 = a2
    b1 = b1
    c1 = c1
    Endpoints = {a1, a2, b1, c1}
    PartyOf <- PartyOfDef
    HostOf <- HostOfDef
    SyncAllowance = 1
    Window = 1
    MaxObs = 4
    MaxSamples = 2
    Grace = 1
    StaleTime = 1
    StaleBlocks = 2
    MaxPlausible = 20
    HostMaxAge = 1
    HostsMax = 4
    MaxDelta = 3
    NearHead = 1
    MarkTTL = 2
    MarkHosts = 4
    Blocks = {0, 2}
    Floors = {18}
    HeadMaxTime = 2
    RolloverObs = 2
    Backends = {b1}
    CheckOrder <- CheckOrderDef
    Essential = {"height"}
    CheckInterval <- CheckIntervalDef
    ServiceInterval = 1
    PeerMaxAge = 0
    MinSignals = 1
    MaxBaselineAge = 3
    MaxTraffic = 4
    ScheduleMaxTime = 4
    ChangesAt = {2}
    Readers = {a}
    Publishers = {a, b}
    Replay = 1
    MaxEntries = 3
    FeedMaxTime = 2
    MaxRestarts = 1
    WServices = {"s1", "s2", "s3"}
    Declared = {"s1", "s2"}
    Foreign = {"s4"}
    WarmDeadline = 2
    None = None
    Lists = {"l2", "empty"}
    EmptyList = "empty"
    FileList <- FileListDef
    QueueLen = 1
    XReqs = {"q1"}
    Elsewhere = {"q2"}
INVARIANTS HeightsRouteWell 
PROPERTIES ChecksComeGood
CHECK_DEADLOCK FALSE

SPECIFICATION MCSpec
CONSTANTS
    None = None
    Parts = {"attempt"}
    a = a
    b = b
    A = A
    B = B
    x = x
    Pods <- PartyPods
    Fleet <- PartyFleet
    Peer <- PartyPeer
    Leads <- PartyPods
    PartyServices = {x}
    StaleOn = {x}
    Excess = {1}
    StaleHold = 2
    TrustHold = 2
    TrustServices = 1
    RefusalServices = 1
    PartyMaxTime = 2
    Tier1Threshold = 4
    Tier2Threshold = 3
    ProbationThreshold = 2
    MinThreshold = 1
    Operators = {o1, o2, o3}
    CapNum = 10
    CapTwoNum = 13
    CapDen = 20
    Ceiling = 3
    Engines = {r1, r2}
    DrainKeys <- AutoKeys
    Acting = {r1}
    ManualKeys <- Released1
    DrainFor = 1
    SuppressFor = 2
    ServiceGap = 2
    Hour = 3
    MaxLivePool = 1
    MaxLiveFleet = 1
    MaxPerHour = 1
    AdMaxTime = 3
    Masses = {0, 1, 2, 4, 12}
    Replica = {r1, r2}
    Keys = {k1, k2}
    Lone = r1
    StoredKeys = {k1}
    InitialScore = 4
    Impact <- ImpactMC
    Reward = 1
    RatePenalty <- PenaltyMC
    PartyPenalty = {0, 3}
    ProbeDefer = 2
    TimeoutCoalesce = 1
    StateIdleTTL = 1
    MaxScores = 1
    MaxAttempts = 1
    RepMaxTime = 2
    h1 = h1
    h2 = h2
    ChainHosts <- MCHosts
    ChainStarts <- MCStarts
    ChainRequests <- MCRequests
    ChainErrors <- MCErrors
    ChainAnswers <- MCAnswers
    RefusalMinBack = 2
    RefusalMaxBack = 8
    RefusalMaxSpan = 2
    BeyondMargin = 2
    BreakerReplicas = {y1, y2}
    Domains = {d1}
    BreakerRelays = {p1}
    Slots = {s1, s2}
    MinFailures = 1
    ThresholdPct = 20
    MarginPct = 15
    BreakerWindow = 2
    Memory = 8
    MinTTL = 12
    MaxTTL = 12
    CacheTTL = 3
    IOTimeout = 1
    BreakerMaxTime = 10
    MaxClears = 1
INVARIANTS FinalVerdictsStand
CHECK_DEADLOCK FALSE

SPECIFICATION MCSpec
CONSTANTS
    Parts = {"drain"}
    None = None
    BreakerReplicas = {r1}
    Domains = {d1}
    BreakerRelays = {x1, x2}
    Slots = {s1, s2}
    MinFailures = 2
    ThresholdPct = 20
    MarginPct = 15
    BreakerWindow = 2
    Memory = 8
    MinTTL = 2
    MaxTTL = 3
    CacheTTL = 3
    IOTimeout = 1
    BreakerMaxTime = 6
    MaxClears = 1
    DrainReplicas = {r1}
    Followers = {}
    Keys = {k1}
    Ops = {x1, x2}
    AutoMade = {}
    Method = {x1, x2, x3}
    MarkTTL = 2
    ClientTTL = 4
    Escalation = 2
    Cap = 2
    MarkMaxTime = 5
    LeaderReplicas = {x1, x2}
    LeaderTTL = 6
    Renew = 2
    Latency = 1
    LeaderMaxTime = 16
    Relayers = {y1, y2}
    Shapes <- MCShapes
    SampleEvery = 2
    SampleWindow = 2
    MaxFingerprints = 2
    MaxObserved = 5
    MaxSampleTime = 7
    o1 = o1
    o2 = o2
    o3 = o3
    o4 = o4
    Observations = {o1, o2, o3, o4}
    QueueWorkers = {w1, w2}
    QueueSize = 2
    ObservationFrom <- MCFrom
    ObservationDoes <- MCDoes
PROPERTIES PurgesOnlyExpired
CHECK_DEADLOCK FALSE

SPECIFICATION MCSpec
CONSTANTS
    None = None
    Parts = {"subscriptions", "grades", "heads", "placement", "ledger", "probes", "suppliers"}
    s1 = s1
    s2 = s2
    s3 = s3
    r1 = r1
    w1 = w1
    b1 = b1
    q1 = q1
    q2 = q2
    e1 = e1
    e2 = e2
    e3 = e3
    e4 = e4
    pa = pa
    pb = pb
    i1 = i1
    i2 = i2
    k1 = k1
    k2 = k2
    u1 = u1
    u2 = u2
    u3 = u3
    o1 = o1
    o2 = o2
    o3 = o3
    o4 = o4
    Subs = {s1, s2, s3}
    ReqIdOf <- ReqIdOfDef
    Reqs = {r1, w1, b1}
    Writes = {w1}
    Batched = {b1}
    Deniable = {s3}
    Ids = {}
    Scenes <- ScenesDef
    MaxTracked = 2
    MaxInflight = 2
    MaxOut = 1
    WritesFail = TRUE
    WSSuppliers <- WSSuppliersDef
    FrameQueue = 1
    StaleRun = 2
    MaxFrames = 2
    MaxReports = 1
    MinNotes = 2
    MinorAt = 1
    MajorAt = 6
    Pushers = {1, 2, 3}
    Hashes = {"g", "h"}
    FinalizeDepth = 1
    HeadKeep = 1
    MaxHead = 3
    ChainTop = 1
    PlEps = {e1, e2, e3, e4}
    PlParty <- PlPartyDef
    PlTop = {e1, e2}
    PlFresh = {e1, e2, e3}
    PlVouched = {e1, e2}
    PlConns = {1, 2}
    PlDrains = {e1, e2}
    PlEvicts = {pa}
    MaxRate = 1
    LedgerIPs = {i1, i2}
    LedgerKeys = {k1, k2}
    LedgerOwner <- LedgerOwnerDef
    LedgerScript <- LedgerScriptDef
    Long = 2
    LedgerWindow = 2
    LedgerMaxClients = 1
    LedgerMaxSuppliers = 2
    LedgerMaxTopics = 1
    ShoppingMinQuick = 1
    ShoppingMinTime = 2
    MaxTenures = 2
    MaxClock = 3
    URLs = {u1, u2, u3}
    Nature <- NatureDef
    ProbePerCycle = 1
    MaxShift = 2
    FullScore = 2
    MaxUnresolved = 1
    Operators = {o1, o2, o3, o4}
    Refused = {o4}
    InSession <- InSessionDef
    Stakes <- StakesDef
    Answering <- AnsweringDef
    RelayIds = {1, 2}
    DebugRelays = {}
    Bannable = {o1}
    Drainable = {o2}
    FallsShort = {o2}
    LateKeys = {o3}
    KeyRoom = 1
INVARIANTS   SuppliersHold
PROPERTIES PlacedWell ProbesComeBack
CHECK_DEADLOCK FALSE

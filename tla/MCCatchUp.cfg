SPECIFICATION MCSpec
CONSTANTS
    Parts = {"bridge", "drain", "relayer", "sessions", "flags", "overrides", "config", "bans"}
    None = None
    o1 = o1
    o2 = o2
    c1 = c1
    c2 = c2
    Conns = {c1, c2}
    First = c1
    RebindLimit = 1
    ChanCap = 1
    Shapes <- MCShapes
    Gones = {}
    i1 = i1
    f1 = f1
    k1 = k1
    DrainReplicas = {i1, f1}
    Followers = {f1}
    Keys = {k1}
    Ops = {o1, o2}
    AutoMade = {o1}
    Endpoints = {e1, e2, e3}
    WSTop = {e1, e2}
    SessionBlocks = 2
    WSGrace = 1
    WSMaxHeight = 4
    MaxRebinds = 2
    q1 = q1
    SessionRelays = {q1}
    Dials = {}
    Bg = bg
    Length = 2
    SessionGrace = 1
    SessionLag = 1
    StartHeight = 2
    SessionMaxHeight = 4
    q2 = q2
    r1 = r1
    r2 = r2
    b1 = b1
    Codes = {0}
    IndexCallers = {}
    SessionIDs = {s1}
    EndOf <- MCEndOf
    Addrs = {}
    AddrsOf <- MCAddrsOf
    FlagReplicas = {r1, r2}
    FlagNames = {k1}
    FlagServices = {s1}
    Global = Global
    FlagReqs = {q1}
    DefaultFlags <- MCFlags
    OvReplicas = {r1, r2}
    CfgReplicas = {r1}
    OvKeys = {k1}
    Pulled = k1
    OvValues = {q1, q2}
    BadValue = BadValue
    Base = Base
    OvReqs = {q1}
    Docs <- MCDocs
    Invalid <- MCInvalid
    Boot <- MCBoot
    HasFile = {r1}
    Seams <- MCSeams
    CfgReqs = {q1}
    BlReplicas = {r1, r2}
    BlDomains = {k1}
    BlReqs = {q1}
    Found = {b1}
    Refused = {b1}
    FileBans = {{}, {k1}}
INVARIANTS SettingsHold
PROPERTIES StreamsMoveOn EndsReached  SnapshotsRegular
CHECK_DEADLOCK FALSE

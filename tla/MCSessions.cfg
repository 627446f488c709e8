SPECIFICATION MCSpec
CONSTANTS
    Parts = {"sessions", "index"}
    None = None
    SessionRelays = {r1}
    Dials = {d1}
    Bg = bg
    Length = 1
    SessionGrace = 1
    SessionLag = 0
    StartHeight = 1
    SessionMaxHeight = 3
    a1 = a1
    a2 = a2
    s1 = s1
    s2 = s2
    s3 = s3
    s4 = s4
    IndexCallers = {c1, c2, c3}
    SessionIDs = {s1, s2, s3, s4}
    EndOf <- MCEndOf
    Addrs = {a1, a2}
    AddrsOf <- MCAddrsOf
INVARIANTS SessionsHonoured
PROPERTIES CacheNeverRegresses KeepsCurrentAndPrevious
CHECK_DEADLOCK FALSE

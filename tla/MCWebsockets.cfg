SPECIFICATION MCSpec
CONSTANTS
    Parts = {"bridge", "close", "limiter", "relayer"}
    None = None
    c1 = c1
    c2 = c2
    c3 = c3
    g1 = g1
    Conns = {c1, c2, c3}
    First = c1
    RebindLimit = 1
    ChanCap = 1
    Shapes <- MCShapes
    Gones = {g1}
    Codes <- MCCodes
    o1 = o1
    o2 = o2
    o3 = o3
    a = a
    b = b
    Opens = {o1, o2, o3}
    Clients = {a, b}
    ClientOf <- MCClientOf
    Caps = {0, 1, 2}
    ClientCap = 1
    Endpoints = {e1, e2, e3}
    WSTop = {e1, e2}
    SessionBlocks = 2
    WSGrace = 1
    WSMaxHeight = 5
    MaxRebinds = 3
INVARIANTS BridgesHold SlotsExact CountsExact
PROPERTIES  NoOvershoot
CHECK_DEADLOCK FALSE

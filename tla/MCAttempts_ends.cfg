SPECIFICATION EndsSpec
CONSTANTS
    Parts = {"flight", "hedge", "vote", "batch"}
    None = None
    r1 = r1
    r2 = r2
    r3 = r3
    Request = {r1, r2, r3}
    e1 = e1
    e2 = e2
    e3 = e3
    e4 = e4
    Endpoint = {e1, e3, e4}
    OperatorOf <- MCOperatorOf
    OperatorAware = TRUE
    Behind = {}
    Pools <- EndPools
    Rehedge = TRUE
    MaxRetries = 1
    RetryLag = {1}
    Views <- EndViews
    Requested = {3}
    VoteOperators = 3
    PartyOf <- MCPartyOf
    Value = {x, y}
    Operator = {1}
    Score = {0, 1}
    Size = 3
    MaxPool = 1
    N = 2
    Global = 1
    PerBatch = 2
    BatchWindow = 1
    Batches = {b1, b2}
    Limits <- MCLimits
    Payloads = 2
PROPERTIES RelaysReturn
CHECK_DEADLOCK FALSE

SPECIFICATION MCSpec
CONSTANTS
    Parts = {"flight", "hedge", "retry", "vote", "rank", "batch", "budget"}
    None = None
    r1 = r1
    r2 = r2
    r3 = r3
    Request = {r1, r2, r3}
    e1 = e1
    e2 = e2
    e3 = e3
    e4 = e4
    Endpoint = {e1, e2, e3, e4}
    OperatorOf <- MCOperatorOf
    OperatorAware = TRUE
    Behind = {e2, e3}
    Pools <- MCPools
    Rehedge = TRUE
    MaxRetries = 2
    RetryLag = {1, 2}
    Views <- MCViews
    Requested = {0, 4}
    VoteOperators = 5
    PartyOf <- MCPartyOf
    Value = {x, y}
    Operator = {1, 2, 3, 4}
    Score = {0, 1}
    Size = 3
    MaxPool = 4
    N = 4
    Global = 2
    PerBatch = 2
    BatchWindow = 0
    Batches = {b1, b2, b3}
    Limits <- MCLimits
    Payloads = 2
INVARIANTS FollowersGoOn RacesFairly RetriesDoBetter QuorumIsRight BatchesHold
CHECK_DEADLOCK FALSE

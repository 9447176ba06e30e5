SPECIFICATION RoleSpec
CONSTANTS
    p1 = p1
    m1 = m1
    w1 = w1
    w2 = w2
    Plan = p1
    Call = m1
    Plans = {p1}
    Reads = {}
    Calls = {m1}
    Nonces = {n1}
    Slots = {}
    Contents = {}
    Requests = {q1}
    Tools = {}
    InitialInput = 0
    MaxToolRequests = 0
    MaxInputBytes = 1
    MaxModelRequests = 1
    MaxOutputBytes = 1
    MaxTotalTokens = 1
    LeaseTime = 1
    Deadline = 2
    EndpointUntil = 2
    None = None
    Decisions <- RoleDecisions
    ExpiresAt <- RoleExpiry
    OutputBytes <- RoleCost
    CallTokens <- RoleCost
    RequestOf <- NoReads
    KeyOf <- NoReads
    ReadBytes <- NoReads
    Workers = {w1, w2}
    MaxFaults = 1
    MaxTime = 2
SYMMETRY TwoWorkers
INVARIANTS DeliveredIsDurable

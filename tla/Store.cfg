SPECIFICATION MCSpec
CONSTANTS
    t1 = t1  t2 = t2  r1 = r1  r2 = r2  r3 = r3  m1 = m1  m2 = m2  m3 = m3
    d1 = d1  d2 = d2  d3 = d3  d4 = d4  p1 = p1  p2 = p2  n1 = n1  n2 = n2
    Plans = {p1, p2}
    Reads = {r1, r2, r3}
    Calls = {m1, m2, m3}
    Decisions = {d1, d2, d3, d4}
    Nonces = {n1, n2}
    Slots = {}
    Contents = {}
    Requests = {q1}
    Tools = {t1, t2}
    EndpointUntil = 2
    InitialInput = 1
    MaxToolRequests = 2
    MaxInputBytes = 3
    MaxModelRequests = 2
    MaxOutputBytes = 2
    MaxTotalTokens = 3
    Deadline = 2
    LeaseTime = 1
    MaxTime = 2
    None = None
    RequestOf <- MCRequestOf
    KeyOf <- MCKeyOf
    ReadBytes <- MCReadBytes
    OutputBytes <- MCOutputBytes
    CallTokens <- MCCallTokens
    ExpiresAt <- MCExpiresAt
SYMMETRY Alike
INVARIANTS BudgetIsHonoured LedgerBalances ReadsMatchEvents CheckpointIsExact AuthorityIsSingleUse OpenWorkKeepsRunOpen
PROPERTIES SettlementIsFinal
CHECK_DEADLOCK FALSE

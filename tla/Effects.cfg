SPECIFICATION FairEffectSpec
CONSTANTS
    p1 = p1  m1 = m1  m2 = m2  w1 = w1  w2 = w2
    o1 = o1  j1 = j1  g1 = g1  t1 = t1  r1 = r1  d1 = d1
    None = None
    EffectKinds = {"call", "write"}
    Plans = {p1}
    Reads = {}
    Calls = {m1, m2}
    Nonces = {n1}
    Slots = {}
    Contents = {}
    Requests = {q1}
    Tools = {}
    InitialInput = 0
    MaxToolRequests = 0
    MaxInputBytes = 1
    LeaseTime = 1
    Workers = {w1, w2}
    MaxFaults = 2
    MaxPairFaults = 0
    MaxTime = 2
    Deadline = 2
    EndpointUntil = 1
    Decisions <- MCDecisions
    ExpiresAt <- MCExpiresAt
    OutputBytes <- MCCost
    CallTokens <- MCCost
    MaxModelRequests = 2
    MaxOutputBytes = 2
    MaxTotalTokens = 2
    RequestOf <- NoReads
    KeyOf <- NoReads
    ReadBytes <- NoReads
    Op = {o1}
    Proposal = {j1}
    Approval = {g1}
    Target = {t1}  Run = {r1}  Decision = {d1}  Proc = {z1, z2}
    TargetOf <- MCTargetOf
    DecisionOf <- MCDecisionOf
    RunOf <- MCRunOf
    OpRun <- MCOpRun
    MaxOperations <- MCMaxOperations
    ApprovalFor <- MCApprovalFor
    JobOf <- MCJobOf
    GrantOf <- MCGrantOf
    After <- MCAfter
    Workloads = {{o1}}
    Bases = {"absent", "v0"}
    Edits = {}
    Opaque = "opaque"
    NoContent = "absent"
    MaxEpoch = 4  MaxEdits = 0  MaxWriteFaults = 2  MaxTrouble = 2
    Timely = TRUE
INVARIANTS AtMostOneEgress EgressIsCharged ReturnIsDurable
PROPERTIES CallsSettle EveryWriteResolves
CHECK_DEADLOCK FALSE

SPECIFICATION MCSpec
CONSTANTS
    o1 = o1  o2 = o2
    p1 = p1  p2 = p2  p3 = p3
    a1 = a1  a2 = a2  a3 = a3
    t1 = t1  t2 = t2  r1 = r1  d1 = d1  d2 = d2
    u1 = u1  u2 = u2  s1 = s1  s2 = s2  q1 = q1  q2 = q2  c1 = c1  c2 = c2
    Op = {o1, o2}
    Proposal = {p1, p2, p3}
    Approval = {a1, a2, a3}
    Target = {t1, t2}
    Run = {r1}
    Decision = {d1, d2}
    TargetOf <- MCTargetOf
    DecisionOf <- MCDecisionOf
    RunOf <- MCRunOf
    MaxOperations <- MCMaxOperations
    ApprovalFor <- MCApprovalFor
    OpRun <- MCOpRun
    MaxEpoch = 2
    None = None
    Tools = {u1, u2}
    Slots = {s1, s2}
    Requests = {q1, q2}
    Contents = {c1, c2}
    MaxEvents = 12
    MaxNoModelEvents = 14
    MaxTime = 1
INVARIANTS LocksMatchOperations AuthorityIsSingleUse SuccessIsEarned
PROPERTIES TerminalIsFinal
CHECK_DEADLOCK FALSE

SPECIFICATION CWSpec
CONSTANTS
    o1 = o1  o2 = o2  j1 = j1  j2 = j2  g1 = g1  g2 = g2
    t1 = t1  r1 = r1  d1 = d1  d2 = d2  q1 = q1  q2 = q2
    Op = {o1}
    Proposal = {j1}
    Approval = {g1}
    Target = {t1}  Run = {r1}  Decision = {d1, d2}  Proc = {q1, q2}
    TargetOf <- MCTargetOf
    DecisionOf <- MCDecisionOf
    RunOf <- MCRunOf
    OpRun <- MCOpRun
    MaxOperations <- MCMaxOperations
    ApprovalFor <- MCApprovalFor
    JobOf <- MCJobOf
    GrantOf <- MCGrantOf
    After <- MCAfter
    Workloads = {{o1}}
    Bases = {"v0"}
    Edits = {}
    Opaque = "opaque"
    NoContent = "absent"
    MaxEpoch = 2  MaxEdits = 0  MaxFaults = 1  MaxTrouble = 2
    Timely = FALSE
    None = None
SYMMETRY ProcSymmetry
PROPERTIES ExactBeforeIsRecoverable
CHECK_DEADLOCK FALSE

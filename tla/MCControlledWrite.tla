--------------------------- MODULE MCControlledWrite ---------------------------
(* One or two controlled writes of one path by two orchestrator processes.  *)
EXTENDS ControlledWrite, TLC

CONSTANTS o1, o2, j1, j2, g1, g2, t1, r1, d1, d2, q1, q2

ByOp(x, y) == [o \in Op |-> IF o = o1 THEN x ELSE y]
MCTargetOf == [j \in Proposal |-> t1]
MCRunOf == [j \in Proposal |-> r1]
MCOpRun == [o \in Op |-> r1]
MCDecisionOf == [j \in Proposal |-> IF j = j1 THEN d1 ELSE d2]
MCMaxOperations == [j \in Proposal |-> 2]
MCApprovalFor == [g \in Approval |-> IF g = g1 THEN j1 ELSE j2]
MCJobOf == ByOp(j1, j2)
MCGrantOf == ByOp(g1, g2)
MCAfter == ByOp("v1", "v2")

ProcSymmetry == Permutations(Proc)
=============================================================================

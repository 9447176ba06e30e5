--------------------------- MODULE MCRoleExecution ---------------------------
(* Small instances of RoleExecution: one child run with one call. *)
EXTENDS RoleExecution, TLC

CONSTANTS p1, m1, w1, w2

RoleDecisions ==
    {<<"plan", p1, 0>>, <<"call", m1, 0>>} \cup ({"resume", "finalize"} \X {m1} \X Times)

\* A decision is valid for two units from the time in its identifier.
RoleExpiry == [d \in RoleDecisions |-> d[3] + 2]

NoReads == [r \in {} |-> None]
RoleCost == m1 :> 1

TwoWorkers == Permutations({w1, w2})
=============================================================================

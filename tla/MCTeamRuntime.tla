---------------------------- MODULE MCTeamRuntime ----------------------------
(* Two tasks, two workers on two coordinator objects, and one operator that *)
(* shares the first worker's.                                               *)
EXTENDS TeamRuntime

CONSTANTS t1, t2, r1, r2, w1, w2, o1, c1, c2

MCCoordinatorOf == [a \in Callers |-> IF a = w2 THEN c2 ELSE c1]
MCNotAfter == [t \in Tasks |-> IF t = t1 THEN 2 ELSE 1]
MCTaskTokens == [t \in Tasks |-> 1]

Chain == [t \in Tasks |-> IF t = t2 THEN {t1} ELSE {}]
Independent == [t \in Tasks |-> {}]
NoParent == [t \in Tasks |-> None]
WaitingParent == [t \in Tasks |-> IF t = t1 THEN t2 ELSE None]
NoRoute == [t \in Tasks |-> None]
SameRoute == [t \in Tasks |-> r1]
Fallback == [t \in Tasks |-> IF t = t1 THEN r1 ELSE r2]

\* A chain that two workers compete for, and one that a worker gets through in
\* spite of a fault; two independent tasks bound to one route; two of which the
\* second has the fallback of the first's route; and a manifest that is cyclic only
\* because the parent of its first task waits for it, which is refused.
MCPlans ==
  {[deps |-> Chain, parent |-> NoParent, route |-> NoRoute,
    maxTokens |-> 1, staff |-> {w1, w2}, claims |-> 3, trouble |-> 0],
   [deps |-> Chain, parent |-> NoParent, route |-> NoRoute,
    maxTokens |-> 2, staff |-> {w2}, claims |-> 3, trouble |-> 1],
   [deps |-> Independent, parent |-> NoParent, route |-> SameRoute,
    maxTokens |-> 2, staff |-> {w1, w2}, claims |-> 2, trouble |-> 0],
   [deps |-> Independent, parent |-> NoParent, route |-> Fallback,
    maxTokens |-> 1, staff |-> {w2}, claims |-> 2, trouble |-> 1],
   [deps |-> Chain, parent |-> WaitingParent, route |-> NoRoute,
    maxTokens |-> 2, staff |-> {w1}, claims |-> 2, trouble |-> 0]}

MCPredecessor == [r \in Routes |-> IF r = r2 THEN r1 ELSE None]
=============================================================================

SPECIFICATION FairTeamSpec
CONSTANTS
  t1 = t1
  t2 = t2
  r1 = r1
  r2 = r2
  w1 = w1
  w2 = w2
  o1 = o1
  c1 = c1
  c2 = c2
  None = None
  Tasks = {t1, t2}
  Routes = {r1, r2}
  Workers = {w1, w2}
  Operators = {o1}
  Coordinators = {c1, c2}
  CoordinatorOf <- MCCoordinatorOf
  NotAfter <- MCNotAfter
  TaskTokens <- MCTaskTokens
  Deadline = 2
  LeaseTime = 1
  Plans <- MCPlans
  Predecessor <- MCPredecessor
INVARIANTS AtMostOneOperation AggregateBudgetHolds EffectsFollowDependencies
  RoutesAreSpentOnce ResultIsTruthful CancellationStops
PROPERTIES TerminalTasksAreFinal StartedTasksSettle CancelledRunsEnd
CHECK_DEADLOCK FALSE

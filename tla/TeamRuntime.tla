----------------------------- MODULE TeamRuntime -----------------------------
(***************************************************************************)
(* The single-host team coordinator of eco_teams/runtime.py: one run whose  *)
(* tasks are claimed under expiring leases, authorized, started, completed, *)
(* declared ambiguous, cancelled and finalised by several coordinator       *)
(* objects that share one SQLite file.                                      *)
(*                                                                         *)
(* Every public operation first samples the trusted clock (_observed_time)  *)
(* and only then opens its BEGIN IMMEDIATE transaction, so a caller's steps *)
(* are Sample and then one transaction that uses the sampled, possibly      *)
(* stale, time.  A refused operation raises and rolls back: Refused.        *)
(*                                                                         *)
(* Abstracted: documents, digests and signatures (a claim is valid when the *)
(* row still names its worker and attempt), the cost budget (handled line   *)
(* for line as the token budget is), artifacts (the only handoff that is    *)
(* accepted carries the artifact that the target task declares as input).   *)
(***************************************************************************)
EXTENDS Integers, FiniteSets, Functions

CONSTANTS
  Tasks,          \* task ids of the run
  Routes,         \* routing decisions tasks may be bound to
  Workers,        \* callers that claim and execute tasks
  Operators,      \* callers that expire, cancel, finalise
  Coordinators,   \* TeamCoordinator objects open on the same database
  CoordinatorOf,  \* the coordinator object each caller uses
  NotAfter,       \* spec.notAfter of each task
  TaskTokens,     \* spec.budget.maxTokens of each task
  Deadline,       \* spec.deadline of the manifest
  LeaseTime,      \* lease_seconds a worker asks for
  Plans,          \* the manifests offered: [deps, parent, route, maxTokens], each
                  \* with the bounds of its exploration: the staff that works on it;
                  \* claims of all its tasks together; trouble: crashes, revocations
                  \* and steps back of the wall clock
  Predecessor,    \* the route whose failure a fallback route was issued for
  None

Callers == Workers \cup Operators

ASSUME TeamAssumption ==
  /\ Workers \cap Operators = {}
  /\ CoordinatorOf \in [Callers -> Coordinators]
  /\ Deadline \in Nat /\ NotAfter \in [Tasks -> 0..Deadline]
  /\ TaskTokens \in [Tasks -> Nat]
  /\ LeaseTime \in Nat \ {0}
  /\ Plans \subseteq [deps : [Tasks -> SUBSET Tasks], parent : [Tasks -> Tasks \cup {None}],
                     route : [Tasks -> Routes \cup {None}], maxTokens : Nat,
                     staff : SUBSET Workers, claims : Nat, trouble : Nat]
  /\ Predecessor \in [Routes -> Routes \cup {None}]
  /\ None \notin Routes \cup Callers \cup Int

VARIABLES
  run,        \* [status, cancel, result, plan]: the runs row and its manifest
  task,       \* the tasks rows
  handoffs,   \* pairs <<source, target>> of the handoffs table
  consumed,   \* routes in consumed_routes
  clock,      \* the trusted clock all coordinator objects sample
  trouble,    \* crashes, revocations and steps back so far
  stored,     \* store_meta.last_observed_us
  last,       \* _last_observed_time of each coordinator object
  sample,     \* observed time of the operation a worker is inside, or None
  worker,     \* [pc, task, attempt, lease, used]: what each worker holds
  authority,  \* whether the authority guard still accepts the run
  effects     \* ghost: times the external effect of each task was run

rows == <<run, task, handoffs, consumed>>
times == <<clock, trouble>>
vars == <<rows, times, stored, last, sample, worker, authority, effects>>

Terminal == {"succeeded", "failed", "ambiguous", "cancelled"}
Statuses == Terminal \cup {"pending", "leased", "started"}
Results == {"succeeded", "failed", "partial-failure", "ambiguous", "cancelled"}
Times == 0..Deadline
Idle == [pc |-> "idle", task |-> None, attempt |-> 0, lease |-> 0, used |-> 0]
FreshTask == [status |-> "pending", attempt |-> 0, owner |-> None, lease |-> 0,
              reserved |-> 0, charged |-> 0, flagged |-> FALSE]
NoPlan == [deps |-> [t \in Tasks |-> {}], parent |-> [t \in Tasks |-> None],
           route |-> [t \in Tasks |-> None], maxTokens |-> 0, staff |-> {},
           claims |-> 0, trouble |-> 0]

TeamInit ==
  /\ run = [status |-> "none", cancel |-> FALSE, result |-> None, plan |-> NoPlan]
  /\ task = [t \in Tasks |-> FreshTask]
  /\ handoffs = {} /\ consumed = {}
  /\ clock = 0 /\ trouble = 0 /\ stored = 0
  /\ last = [c \in Coordinators |-> 0]
  /\ sample = [w \in Workers |-> None]
  /\ worker = [w \in Workers |-> Idle]
  /\ authority = TRUE
  /\ effects = [t \in Tasks |-> 0]
-----------------------------------------------------------------------------
(* Clock and transaction frame                                             *)

Last(a) == last[CoordinatorOf[a]]

Trouble == trouble < run.plan.trouble /\ trouble' = trouble + 1

\* The worker has a call to make.  Left out are calls whose refusal is certain: a
\* claim when no run is active, and an acknowledgement before
\* cancellation_requested says so.
HasCall(w) ==
  CASE worker[w].pc = "idle" -> run.status = "active" /\ w \in run.plan.staff
    [] worker[w].pc = "started" -> task[worker[w].task].flagged
    [] OTHER -> TRUE

\* _observed_time: the sample is refused when it is behind this object's last.
Sample(w) ==
  /\ sample[w] = None /\ HasCall(w)
  /\ clock >= Last(w)
  /\ sample' = [sample EXCEPT ![w] = clock]
  /\ last' = [last EXCEPT ![CoordinatorOf[w]] = clock]
  /\ UNCHANGED <<rows, times, stored, worker, authority, effects>>

\* BEGIN IMMEDIATE, _verify_state_locked, ..., _write_state_auth_locked, COMMIT.
NotRolledBack(c) == last[c] >= stored

Transaction(w) ==
  /\ sample[w] # None
  /\ NotRolledBack(CoordinatorOf[w])
  /\ stored' = Last(w)
  /\ sample' = [sample EXCEPT ![w] = None]
  /\ UNCHANGED <<times, last, authority>>

\* The operation raises, for one of its conditions or for the policy or the
\* storage behind it, and its transaction is rolled back.
Refused(w) ==
  /\ sample[w] # None
  /\ sample' = [sample EXCEPT ![w] = None]
  /\ UNCHANGED <<rows, times, stored, last, worker, authority, effects>>

\* A sample and the transaction that uses it, with nothing in between.
SampledNow(a) ==
  /\ clock >= Last(a) /\ clock >= stored
  /\ stored' = clock
  /\ last' = [last EXCEPT ![CoordinatorOf[a]] = clock]
  /\ UNCHANGED <<times, authority, effects>>

Call(a) == SampledNow(a) /\ UNCHANGED <<sample, worker>>

\* The row ends in status s with the charge c; the row may be claimed again.
Settle(row, s, c) == [row EXCEPT !.status = s, !.charged = c, !.reserved = 0]
Reissue(row) ==
  [row EXCEPT !.status = "pending", !.owner = None, !.lease = 0, !.reserved = 0]

\* Mutants: a started task may be reissued, is released free of charge, stays.
ExpireReissuesStarted(rs, now) ==
  [t \in Tasks |->
     IF rs[t].lease > now \/ rs[t].status \notin {"leased", "started"} THEN rs[t]
     ELSE Reissue(rs[t])]

ExpireLeasedOnly(rs, now) ==
  [t \in Tasks |->
     IF rs[t].lease > now \/ rs[t].status # "leased" THEN rs[t]
     ELSE Reissue(rs[t])]

\* _expire_locked: a started task is ambiguous, a leased one may be reissued.
Expire(rs, now) ==
  [t \in Tasks |->
     IF rs[t].lease > now THEN rs[t]
     ELSE IF rs[t].status = "started" THEN Settle(rs[t], "ambiguous", rs[t].reserved)
     ELSE IF rs[t].status = "leased" THEN Reissue(rs[t])
     ELSE rs[t]]

\* Mutant: only open reservations are counted.
UsageOfReservations(rs) == SumFunction([t \in Tasks |-> rs[t].reserved])

Usage(rs) == SumFunction([t \in Tasks |-> rs[t].reserved + rs[t].charged])
-----------------------------------------------------------------------------
(* Run and claims                                                          *)

\* _assert_acyclic: no set of tasks in which each names another of the set as a
\* dependency or as its parent.
Acyclic(plan) ==
  \A S \in SUBSET Tasks \ {{}} :
    \E t \in S : (plan.deps[t] \cup ({plan.parent[t]} \ {None})) \cap S = {}

CreateRun(a, plan) ==
  /\ Call(a)
  /\ run.status = "none"
  /\ authority
  /\ clock < Deadline
  /\ Acyclic(plan)
  /\ run' = [run EXCEPT !.status = "active", !.plan = plan]
  /\ UNCHANGED <<task, handoffs, consumed>>

\* Mutant: the handoff is not looked for.
DependenciesSucceeded(t) == \A d \in run.plan.deps[t] : task[d].status = "succeeded"

\* _dependencies_ready_locked
DependenciesReady(t) ==
  \A d \in run.plan.deps[t] : task[d].status = "succeeded" /\ <<d, t>> \in handoffs

\* min of the three times of claim_task
LeaseEnd(t, now) ==
  CHOOSE e \in {now + LeaseTime, NotAfter[t], Deadline} :
    e <= now + LeaseTime /\ e <= NotAfter[t] /\ e <= Deadline

Lease(row, w, end, tokens) ==
  [row EXCEPT !.status = "leased", !.attempt = row.attempt + 1, !.owner = w,
              !.lease = end, !.reserved = tokens]

ClaimTask(w, t) ==
  LET now == sample[w]
      rs == Expire(task, now)
  IN
  /\ worker[w].pc = "idle"
  /\ Transaction(w)
  /\ run.status = "active" /\ ~run.cancel
  /\ rs[t].status = "pending"
  /\ SumFunction([u \in Tasks |-> rs[u].attempt]) < run.plan.claims
  /\ now < NotAfter[t]
  /\ DependenciesReady(t)
  /\ authority
  /\ Usage(rs) + TaskTokens[t] <= run.plan.maxTokens
  /\ task' = [rs EXCEPT ![t] = Lease(rs[t], w, LeaseEnd(t, now), TaskTokens[t])]
  /\ worker' = [worker EXCEPT ![w] = [pc |-> "claimed", task |-> t, used |-> 0,
                  attempt |-> rs[t].attempt + 1, lease |-> LeaseEnd(t, now)]]
  /\ UNCHANGED <<run, handoffs, consumed, effects>>

\* Mutant: the row's status is not looked at.
ClaimHoldsInAnyStatus(w, allowed) ==
  LET row == task[worker[w].task] IN
  row.owner = w /\ row.attempt = worker[w].attempt /\ row.lease = worker[w].lease

\* _assert_claim_locked
ClaimHolds(w, allowed) ==
  LET row == task[worker[w].task] IN
  /\ row.owner = w /\ row.attempt = worker[w].attempt
  /\ row.lease = worker[w].lease
  /\ row.status \in allowed

\* Mutant: the predecessor of a fallback is not looked for.
RouteValidUnchecked(t) == TRUE

\* _validate_route_locked: a fallback needs its predecessor's route consumed.
RouteValid(t) ==
  run.plan.route[t] # None => Predecessor[run.plan.route[t]] \in consumed \cup {None}

AuthorizeEffect(w) ==
  /\ worker[w].pc = "claimed"
  /\ Transaction(w)
  /\ ClaimHolds(w, {"leased"})
  /\ sample[w] < worker[w].lease
  /\ RouteValid(worker[w].task)
  /\ authority
  /\ worker' = [worker EXCEPT ![w].pc = "authorized"]
  /\ UNCHANGED <<rows, effects>>

StartEffect(w) ==
  LET t == worker[w].task
      r == run.plan.route[t]
  IN
  /\ worker[w].pc = "authorized"
  /\ Transaction(w)
  /\ sample[w] < worker[w].lease
  /\ ClaimHolds(w, {"leased"})
  /\ ~run.cancel /\ ~task[t].flagged
  /\ authority
  /\ RouteValid(t)
  /\ r \notin consumed
  /\ consumed' = IF r = None THEN consumed ELSE consumed \cup {r}
  /\ task' = [task EXCEPT ![t].status = "started"]
  /\ worker' = [worker EXCEPT ![w].pc = "started"]
  /\ UNCHANGED <<run, handoffs, effects>>
-----------------------------------------------------------------------------
(* The effect and its settlement                                           *)

\* execute_claimed: the clock is sampled again, and a clock that ran back raises;
\* the operation runs behind the gate, which may refuse it, and returns a result,
\* which may report more tokens than were reserved, or raises; raising proves
\* nothing about the effect.
Operation(w) ==
  LET t == worker[w].task IN
  /\ worker[w].pc = "started" /\ sample[w] = None
  /\ last' = [last EXCEPT ![CoordinatorOf[w]] = IF clock >= @ THEN clock ELSE @]
  /\ \/ /\ clock >= Last(w) /\ authority
        /\ effects' = [effects EXCEPT ![t] = @ + 1]
        /\ \/ \E s \in {"succeeded", "failed"}, u \in 0..(TaskTokens[t] + 1) :
                worker' = [worker EXCEPT ![w].pc = s, ![w].used = u]
           \/ worker' = [worker EXCEPT ![w].pc = "raised"]
     \/ /\ worker' = [worker EXCEPT ![w].pc = "raised"]
        /\ UNCHANGED effects
  /\ UNCHANGED <<rows, times, stored, sample, authority>>

Charge(t, status, tokens) ==
  task' = [task EXCEPT ![t] = Settle(task[t], status, tokens)]

\* complete_effect before the lease ends.
CompleteEffect(w) ==
  LET t == worker[w].task IN
  /\ worker[w].pc \in {"succeeded", "failed"}
  /\ Transaction(w)
  /\ sample[w] < worker[w].lease
  /\ ClaimHolds(w, {"started"})
  /\ worker[w].used <= task[t].reserved
  /\ Charge(t, worker[w].pc, worker[w].used)
  /\ worker' = [worker EXCEPT ![w] = Idle]
  /\ UNCHANGED <<run, handoffs, consumed, effects>>

\* complete_effect after it: expire_leases samples the clock anew and commits, and
\* the completion proper then finds the row no longer started and raises.
CompleteLate(w) ==
  /\ worker[w].pc \in {"succeeded", "failed"}
  /\ sample[w] # None
  /\ sample[w] >= worker[w].lease
  /\ SampledNow(w)
  /\ task' = Expire(task, clock)
  /\ sample' = [sample EXCEPT ![w] = None]
  /\ worker' = [worker EXCEPT ![w] = Idle]
  /\ UNCHANGED <<run, handoffs, consumed>>

MarkAmbiguous(w) ==
  LET t == worker[w].task IN
  /\ worker[w].pc = "raised"
  /\ Transaction(w)
  /\ ClaimHolds(w, {"started"})
  /\ Charge(t, "ambiguous", task[t].reserved)
  /\ worker' = [worker EXCEPT ![w] = Idle]
  /\ UNCHANGED <<run, handoffs, consumed, effects>>

\* acknowledge_cancellation, by a worker that saw cancellation_requested.
AcknowledgeCancellation(w) ==
  LET t == worker[w].task IN
  /\ worker[w].pc \in {"started", "succeeded", "failed", "raised"}
  /\ Transaction(w)
  /\ ClaimHolds(w, {"started"})
  /\ task[t].flagged
  /\ Charge(t, "cancelled", task[t].reserved)
  /\ worker' = [worker EXCEPT ![w] = Idle]
  /\ UNCHANGED <<run, handoffs, consumed, effects>>

Forget(w) ==
  /\ worker' = [worker EXCEPT ![w] = Idle]
  /\ sample' = [sample EXCEPT ![w] = None]
  /\ UNCHANGED <<rows, clock, stored, last, authority, effects>>

\* The call raised because the claim is lost, and the worker looks for other work.
GiveUp(w) ==
  /\ worker[w].pc # "idle"
  /\ ~ClaimHolds(w, {"leased", "started"})
  /\ Forget(w)
  /\ UNCHANGED trouble

\* The worker dies holding its claim.
Crash(w) ==
  /\ Trouble
  /\ worker[w].pc # "idle"
  /\ ClaimHolds(w, {"leased", "started"})
  /\ Forget(w)
-----------------------------------------------------------------------------
(* Operators                                                               *)

ExpireLeases(a) ==
  /\ Call(a)
  /\ run.status # "none"
  /\ task' = Expire(task, clock)
  /\ UNCHANGED <<run, handoffs, consumed>>

Withdraw(row) == [row EXCEPT !.status = "cancelled", !.reserved = 0, !.flagged = TRUE]

\* Mutants: work that has started is not told; work that is pending is forgotten.
CancelRunSilently(a) ==
  /\ Call(a)
  /\ run.status = "active"
  /\ run' = [run EXCEPT !.status = "cancelling", !.cancel = TRUE]
  /\ task' = [t \in Tasks |->
       IF task[t].status \in {"pending", "leased"} THEN Withdraw(task[t])
       ELSE task[t]]
  /\ UNCHANGED <<handoffs, consumed>>

CancelRunLeasedOnly(a) ==
  /\ Call(a)
  /\ run.status = "active"
  /\ run' = [run EXCEPT !.status = "cancelling", !.cancel = TRUE]
  /\ task' = [t \in Tasks |->
       IF task[t].status = "leased" THEN Withdraw(task[t])
       ELSE [task[t] EXCEPT !.flagged = TRUE]]
  /\ UNCHANGED <<handoffs, consumed>>

CancelRun(a) ==
  /\ Call(a)
  /\ run.status = "active"
  /\ run' = [run EXCEPT !.status = "cancelling", !.cancel = TRUE]
  /\ task' = [t \in Tasks |->
       IF task[t].status \in {"pending", "leased"} THEN Withdraw(task[t])
       ELSE IF task[t].status = "started" THEN [task[t] EXCEPT !.flagged = TRUE]
       ELSE task[t]]
  /\ UNCHANGED <<handoffs, consumed>>

\* record_handoff samples no clock: it works on the coordinator's last one.
RecordHandoff(c, d, t) ==
  /\ run.status # "none"
  /\ NotRolledBack(c)
  /\ task[d].status = "succeeded" /\ task[t].status = "pending"
  /\ d \in run.plan.deps[t]
  /\ <<d, t>> \notin handoffs
  /\ handoffs' = handoffs \cup {<<d, t>>}
  /\ stored' = last[c]
  /\ UNCHANGED <<run, task, consumed, times, last, sample, worker, authority, effects>>

Outcome(statuses) ==
  CASE "ambiguous" \in statuses -> "ambiguous"
    [] statuses = {"succeeded"} -> "succeeded"
    [] statuses = {"cancelled"} -> "cancelled"
    [] statuses = {"failed"} -> "failed"
    [] OTHER -> "partial-failure"

\* Mutant: what has started is taken for settled.
FinalizeRunEarly(a) ==
  LET statuses == {task[t].status : t \in Tasks} IN
  /\ Call(a)
  /\ run.status # "none" /\ run.result = None
  /\ statuses \cap {"pending", "leased"} = {}
  /\ run' = [run EXCEPT !.status = Outcome(statuses), !.result = Outcome(statuses)]
  /\ UNCHANGED <<task, handoffs, consumed>>

FinalizeRun(a) ==
  LET statuses == {task[t].status : t \in Tasks} IN
  /\ Call(a)
  /\ run.status # "none" /\ run.result = None
  /\ statuses \subseteq Terminal
  /\ run' = [run EXCEPT !.status = Outcome(statuses), !.result = Outcome(statuses)]
  /\ UNCHANGED <<task, handoffs, consumed>>
-----------------------------------------------------------------------------
(* Surroundings                                                            *)

Tick ==
  /\ clock < Deadline
  /\ clock' = clock + 1
  /\ UNCHANGED <<rows, trouble, stored, last, sample, worker, authority, effects>>

StepBack ==
  /\ Trouble
  /\ clock > 0
  /\ clock' = clock - 1
  /\ UNCHANGED <<rows, stored, last, sample, worker, authority, effects>>

\* The team authority is revoked, rotated or denied.
Revoke ==
  /\ Trouble
  /\ authority
  /\ authority' = FALSE
  /\ UNCHANGED <<rows, clock, stored, last, sample, worker, effects>>

WorkerStep(w) ==
  \/ \E t \in Tasks : ClaimTask(w, t)
  \/ AuthorizeEffect(w) \/ StartEffect(w) \/ Operation(w)
  \/ CompleteEffect(w) \/ CompleteLate(w) \/ MarkAmbiguous(w)
  \/ AcknowledgeCancellation(w) \/ GiveUp(w) \/ Crash(w)
  \/ Sample(w) \/ Refused(w)

OperatorStep(a) ==
  \/ \E plan \in Plans : CreateRun(a, plan)
  \/ ExpireLeases(a) \/ CancelRun(a) \/ FinalizeRun(a)

TeamNext ==
  \/ \E w \in Workers : WorkerStep(w)
  \/ \E a \in Operators : OperatorStep(a)
  \/ \E c \in Coordinators, d, t \in Tasks : RecordHandoff(c, d, t)
  \/ Tick \/ StepBack \/ Revoke

TeamSpec == TeamInit /\ [][TeamNext]_vars

\* Time passes, and each operator keeps calling expire_leases and finalize_run;
\* nothing is assumed of the workers.
FairTeamSpec ==
  /\ TeamSpec
  /\ WF_vars(Tick)
  /\ \A a \in Operators : WF_vars(ExpireLeases(a)) /\ WF_vars(FinalizeRun(a))
-----------------------------------------------------------------------------
(* Properties                                                              *)

Runs == [status : {"none", "active", "cancelling"} \cup Results, cancel : BOOLEAN,
         result : Results \cup {None}, plan : Plans \cup {NoPlan}]
TaskRows == [status : Statuses, attempt : Nat, owner : Workers \cup {None},
             lease : Times, reserved : Nat, charged : Nat, flagged : BOOLEAN]
WorkerStates == [pc : {"idle", "claimed", "authorized", "started", "succeeded", "failed",
                       "raised"},
                 task : Tasks \cup {None}, attempt : Nat, lease : Times, used : Nat]


\* The rows, clocks and callers have the shapes that the schema and the
\* dataclasses of eco_teams/runtime.py give them.
TeamTypeOK ==
  /\ run \in Runs
  /\ task \in [Tasks -> TaskRows]
  /\ handoffs \subseteq Tasks \X Tasks /\ consumed \subseteq Routes
  /\ clock \in Times /\ trouble \in Nat
  /\ stored \in Times /\ last \in [Coordinators -> Times]
  /\ sample \in [Workers -> Times \cup {None}]
  /\ worker \in [Workers -> WorkerStates]
  /\ \A w \in Workers : worker[w].pc # "idle" => worker[w].task \in Tasks
  /\ authority \in BOOLEAN
  /\ effects \in [Tasks -> Nat]

\* Whatever the workers, expiries, refusals and late completions do, the external
\* operation of a task runs at most once, and a task whose operation ran is never
\* pending or leased again (start_effect, _expire_locked, mark_ambiguous).
AtMostOneOperation ==
  \A t \in Tasks : /\ effects[t] <= 1
                   /\ effects[t] = 1 => task[t].status \notin {"pending", "leased"}

\* Reservations and charges of all tasks together never exceed the run's token
\* budget, through expiry, reissue, cancellation and settlement (claim_task,
\* _usage_locked), and an operation whose outcome is unknown or that was cancelled
\* after it started stays charged in full (_expire_locked, mark_ambiguous).
AggregateBudgetHolds ==
  /\ SumFunction([t \in Tasks |-> task[t].reserved + task[t].charged]) <= run.plan.maxTokens
  /\ \A t \in Tasks :
       task[t].status = "ambiguous" \/ (task[t].status = "cancelled" /\ effects[t] = 1)
         => task[t].charged = TaskTokens[t] /\ task[t].reserved = 0

\* An operation runs only after every dependency has succeeded, which each did by
\* running its own operation, and has been handed off (_dependencies_ready_locked,
\* read at the claim and relied on until the effect).
EffectsFollowDependencies ==
  \A t \in Tasks : effects[t] = 1 =>
    \A d \in run.plan.deps[t] :
      task[d].status = "succeeded" /\ effects[d] = 1 /\ <<d, t>> \in handoffs

\* One routing decision pays for one operation, and a fallback decision for one
\* only after its predecessor was spent (start_effect, consumed_routes).
RoutesAreSpentOnce ==
  /\ \A t, u \in Tasks :
       effects[t] = 1 /\ effects[u] = 1 /\ run.plan.route[t] = run.plan.route[u] =>
         t = u \/ run.plan.route[t] = None
  /\ \A t \in Tasks : effects[t] = 1 /\ run.plan.route[t] # None =>
       Predecessor[run.plan.route[t]] \in consumed \cup {None}

\* The result reports the rows as they are, and stays what it is while they do
\* (finalize_run): later claims, expiries and completions change nothing.
ResultIsTruthful ==
  run.result # None =>
    /\ run.status = run.result
    /\ run.result = Outcome({task[t].status : t \in Tasks})
    /\ \A t \in Tasks : task[t].status \in Terminal /\ task[t].reserved = 0
    /\ run.result = "succeeded" => \A t \in Tasks : effects[t] = 1

\* A task row that is terminal is never written again: not by a late completion,
\* a late acknowledgement, an expiry or a cancellation (_assert_claim_locked).
TerminalTasksAreFinal ==
  [][\A t \in Tasks : task[t].status \in Terminal => task'[t] = task[t]]_vars

\* Once cancellation is requested no task is claimed or started any more, and
\* what had started remembers the request (cancel_run, claim_task, start_effect).
CancellationStops ==
  run.cancel => \A t \in Tasks :
       /\ task[t].status \notin {"pending", "leased"}
       /\ task[t].status = "started" => task[t].flagged

\* A task that has started is eventually settled, whether or not its worker
\* survives, because its lease ends and the expiry fences it (expire_leases).
StartedTasksSettle ==
  \A t \in Tasks : task[t].status = "started" ~> task[t].status \in Terminal

\* A run that is cancelled eventually has its result (cancel_run, finalize_run).
CancelledRunsEnd == run.cancel ~> run.result # None
=============================================================================

# TLA+ verification of the ecosystem runtime

This directory is a verification project for the stateful core of the
ecosystem (`src/src/eco_*`): TLA+ modules that model its components, TLC
configurations that check them on small instances, and TLAPS proofs that hold
for every value of the constants.  `PROJECT.json` records which definition
models which lines, what each run checks, how each property is shown to be able
to fail (`mutants`), the findings and the hazards.

Paths below are relative to `src/src/`.

## The system

The ecosystem is an embedded harness for governed AI work.  There is no
server: several processes on one host (commands, workers, recovery tools) share
SQLite files, a content-addressed artifact directory and a workspace.  Each
store method is one `BEGIN IMMEDIATE` transaction.  Everything between two
transactions (file operations, a call to a model provider, sampling the
clock) can be interleaved with other processes or cut short by a crash, and
the design answers with leases, single-use authority, PREPARE / STARTED /
COMMIT fences and explicit recovery.

| Part | State | Operations that change it | Hard behaviour |
|---|---|---|---|
| Change journal (`eco_runtime/change_store.py`) | proposals, approvals, operations with lease and state, target locks, audit | register, consume approval and prepare, claim, each write transition, recovery marks | two operations for one target, decision or budget; stale lease holders |
| Controlled write (`write_orchestrator.py`, `write_broker.py`) | target file, temporary file, broker lock, local variables | execute, recover; observe, copy, exchange, unlink | crash anywhere, editor that takes no lock, second process after a lapsed lease |
| Run events (`state_reducer.py`, `state.py`) | projection of one run, event chain | append | success without the work it stands for, events of two lifecycles mixed |
| Runtime store (`store.py`) | plans, decisions, budget, reads, model calls, checkpoints | about thirty transactions | budget reserved and released across leases, one decision used twice, run closed over open work |
| Model invocation (`model_orchestrator.py`) | position and clock sample of each execution | authorise, PREPARE, STARTED, provider call, settle, abort, resolve | death around the provider call, clock steps, late answers |
| Role execution (`eco_cli/source_review.py`, `eco_orchestration/model_executor.py`) | position of each command in a role slot | set up child run, call, close child run | rerun with the same identifiers after a death |
| Team coordinator (`eco_teams/runtime.py`) | tasks, leases, routes, budgets, run status | claim, authorise, start, complete, ambiguity, expire, cancel, hand off, finalise | stale clock samples, late completion, competing coordinators |
| Loop engine (`eco_loops/engine.py`) | journalled checkpoint, copies of the drivers | run, recover, transition, cancel | several drivers, load that is not atomic, interruption of an attempt |
| Other stores and tools | see "Not modelled" | | |

The controlled write composes the journal, the orchestrator and the broker.
Role execution composes the store, the model orchestrator and the CLI around
them.  The team coordinator and the loop engine have journals of their own.

## Modules

| Module | Models | Built on |
|---|---|---|
| `ChangeAuthority` | the change journal; one action per transaction | |
| `ControlledWrite` | orchestrator processes, broker, file system, editor, faults | `ChangeAuthority` |
| `RunReducer` | the pure reducer; `Reduce(p, e)` is the set of successor projections (one, or none for an error) | |
| `RunEventChain` | the in-memory chain: any producer offers any event | `RunReducer` |
| `RuntimeStore` | the durable store for one run | `RunReducer` |
| `ModelInvocation` | executions of `execute()` and the recovery operations | `RuntimeStore` |
| `RoleExecution` | commands executing one role slot | `ModelInvocation` |
| `TeamRuntime` | one team run over several coordinator objects | |
| `LoopEngine` | one loop run with several drivers | |
| `ChangeAuthorityProofs`, `TeamRuntimeProofs`, `LoopEngineProofs` | theorems | the module in their name |
| `MCControlledWrite`, `MCRuntimeStore`, `MCRoleExecution`, `MCTeamRuntime`, `MCLoopEngine` | constants and symmetry sets for TLC | the module in their name |
| `MCJournals` | either the change journal or the event chain, chosen in the initial state | `ChangeAuthority`, instance of `RunEventChain` |
| `MCEffects` | either model calls or a controlled write, chosen in the initial state, with the processes and operators that close them | `ModelInvocation`, instance of `ControlledWrite` |

In every module a store transaction that raises rolls back and is no step.
Where a refusal has an effect on its caller (a command gives up, an operation
is marked for recovery), that effect is a step.

### Controlled writes

A row of `operations` keeps its state, lease epoch and whether the deadline has
passed; digests and receipts are kept as "recorded or not".  A fresh epoch
stands for owner and token of a lease.  In `ControlledWrite` a file is its
content, its inode and (ghost) its author.  Each observation, copy, rename,
unlink and journal call is a step of a process.

Simplifications: one clock serves all leases; an approval expires before it is
consumed or not at all; the read of the error state is merged with the
observation that follows it; `Opaque` stands for every content the broker
refuses to read (binary, not UTF-8, too large); the operations of one workload
are proposed on the same base content.  The ghost `raced` of a process records
that an edit arrived between its exchange and the check or the undoing of it.

### Run events and the runtime store

The store's event log is represented by its replay, the projection of
`RunReducer`.  Each action takes the caller's `now`, and the clock-rollback
checks are guards on it.  The policy gate is a free choice.  One run is
modelled, created at time 0; event ids, the audit chain and the schema
migrations are not.  Holding the lease token is being the worker that prepared.

### Model invocation and role execution

A worker is one execution of `execute()`, with the time it sampled and its
result as local state.  Process deaths, storage errors and a wall clock set
back are faults and share the bound `MaxFaults`.  Before it sets up the child
run, a role reserves usage of its route in a journal of its own
(`source_review.py:1003-1071`); that reservation is not modelled.

### Team coordinator

A worker's call is two steps, the clock sample and the transaction that uses
it.  The calls of operators are one step: a stale sample of theirs, which the
clock-rollback check refuses or which acts as of an earlier time, is left to
the workers' calls.  `HasCall` leaves out calls that would be
refused with certainty.  The cost budget is treated as the token budget is and
is left out, and so is `claim_next`, which is `claim_task` over the pending
tasks.  Of the parent of a task only its part in `_assert_acyclic` is kept; that
a child asks for no more authority than its parent is a check on documents.
`execute_claimed` samples the clock once more before the operation, and a
completion after the end of the lease once more inside `expire_leases`.

### Loop engine

A driver has its own copy of the checkpoint; `transition` is one step that
compares the journal with it; the SQLite `load` is two.  The in-memory journal
does the three with nothing in between, so its behaviours are included.  The
reads of stop flag and clock are merged; tokens, cost and storage are one
constant `Resources`; an event is its sequence number.  Calls on a run that has
ended are left out.

## Runs

| Run | Configuration | Bounds | Shows |
|---|---|---|---|
| `journals` | `Journals.cfg` | change journal: two operations; three proposals that compete for a target, a decision and a budget; two lease holders each.  Event chain: 12 events (14 in a no-model run), two tools, slots, requests and contents | locks match unresolved operations, approvals and decisions back one operation, finished operations stay finished; success of a run needs the work it stands for, in a model run and in a no-model run |
| `controlled_write` | `CWSafe.cfg` | one write of a path with up to two edits, or an edit and a fault, or two writes of it without either; two processes, three lease holders | the rows pass `verify()`, a candidate is only installed under a permit and with a durable rollback proof, at most one effect per operation, recorded outcomes match the file and leave no temporary file, readable edits survive but for the race of finding 2 and the cleanup after a fault |
| `write_replace_stuck` | `CWStuck.cfg` | one replace, one fault | **violated**, see Findings |
| `write_edit_lost` | `CWLostEdit.cfg` | one replace, one edit | **violated**, see Findings |
| `runtime_store` | `Store.cfg` | five sets of records, callers in any order, clock 0..2 | budgets hold and balance, rows and events agree, checkpoints are exact, decisions are single use, open work keeps the run open, settlement is final |
| `governed_effects` | `Effects.cfg` | model calls: two executions of one request with two faults, or one of each of two requests without; a recovery operator.  Write: one write, two processes, two faults, four lease holders | one egress, charged; only durable results are returned; a call is settled unless another one failed the adapter under it; a create, and a replace with a durable rollback proof, reach a terminal state |
| `started_call_stuck` | `CallStuck.cfg` | two executions, of one or of two requests, no fault | **violated**, see Findings |
| `role_slot` | `RoleSafe.cfg` | two commands, one fault | a delivered result is durable and was sent once |
| `role_started_stuck` | `RoleStuck.cfg` | one command, one fault | **violated**, see Findings |
| `team_runtime` | `Team.cfg` | five manifests (chain, chain with a fault, shared route, fallback route, cycle through a parent), two workers and an operator on two coordinators | one operation per task, budgets, dependencies, routes, truthful results, cancellation; started tasks settle and cancelled runs end |
| `loop_engine` | `Loop.cfg` | two drivers, limits of three attempts and two iterations, budget for two, one interruption, kill or deadline | budgets hold, an attempt runs once, success is gated, cancellation stops the loop, the loop ends |
| `loop_stray_attempt` | `LoopStray.cfg` | as `loop_engine` | **violated**, see Findings |

Why the bounds are enough.  The hazards are races of two parties: a lease holder
and its successor, a worker and the operator, a writer and an editor.  Two
of each, with one fault, contain these races, and three lease holders contain a
stale holder that meets the successor of its successor.  Two writes of one path
are explored without edits and faults, for their number of states; the races of
their holders are what that workload is for.  In `MCJournals` the interchangeable
operations and requests are taken into use in a fixed order, which stands for a
symmetry reduction.  Budgets are chosen so
that one combination fits and another does not, clocks so that a lease can end
before, at and after the deadline.  Workloads and manifests are chosen in the
initial state and frozen, so one run explores several scenarios.  The bounds
that are not in the code are `MaxEpoch`, `MaxEdits`, `MaxFaults`, `MaxPairFaults`,
`MaxWriteFaults`, `MaxTrouble`, `MaxEvents`, `MaxNoModelEvents`, `MaxTime` and the fields `staff`, `claims` and
`trouble` of a manifest.

`CHECK_DEADLOCK FALSE` is set where the system stops legitimately: all
operations finished, a bound on time or events reached, the loop ended.  The
role runs keep deadlock checking on.

### Fairness

* `CWFairSpec`, and the writes of `FairEffectSpec`: a live process continues, leases lapse, and somebody claims
  the unresolved operation again.  The code has no daemon for this: recovery is
  a command that an operator repeats.  `Timely` restricts these runs to leases
  that lapse only when their holder is gone, because otherwise successive
  holders can fence each other off for ever.
* The calls of `FairEffectSpec`, and `FairRoleSpec`: a live execution continues, time passes, and
  the recovery operations that the store offers are repeated.
* `FairTeamSpec`: time passes, and operators keep calling `expire_leases` and
  `finalize_run`.  Workers have no fairness: a started task settles even if its
  worker never returns.
* `FairLoopSpec`: a driver inside a call continues; drivers come back to
  `run` and `recover` again and again (strong fairness, since another driver
  may disable them in between).

### Findings

1. `write_replace_stuck`.  A replace interrupted between PREPARE and
   `rollback_ready` is refused by recovery, which raises before it looks at
   the untouched file, although the documentation says that an exact
   before-state is marked failed.
2. `write_edit_lost`.  An edit that the broker cannot read and that races the
   exchange is deleted with the temporary name, although the documentation says
   that another actor's work is not overwritten.  A readable edit is lost too
   when a second one arrives before the exchange is undone: undoing it moves the
   second edit to the temporary name (`write_broker.py:654`), which the finally
   clause unlinks (`692-694`).  `TextEditsArePreserved` in `controlled_write` says
   that these are the only ways, besides the cleanup after a fault.
3. `role_started_stuck`.  After a fault behind the STARTED fence `_settle_child`
   commits `adapter.failed` and is then refused the end of the run, because the
   call is open.  The child run stays RUNNING and the call STARTED: resolving it
   would need a second `adapter.failed`, which the reducer refuses.
4. `started_call_stuck`.  The same happens inside the store when a run has two
   calls: the first that fails, or is resolved as ambiguous, closes the adapter,
   and no transaction settles the other one if it has STARTED.  The
   documentation says that such a call becomes terminal.  `CallsSettle` in
   `governed_effects` says that this is the only exception.
5. `loop_stray_attempt`.  A loop driver whose `transition` meets an ended run is
   answered with the terminal checkpoint and calls its executor on it, although
   cancellation is said to stop the loop and a concurrent resume to fail closed.
   `AttemptsRunOnce` in `loop_engine` is about the attempts on running
   checkpoints, which are executed once.

One more disagreement is recorded as a hazard and has no run yet: an artifact
store that was killed between `link` and `unlink` cannot be opened again
(`eco_runtime/artifact_store.py:429`).

## Proofs

Each proof module states an inductive invariant, proves that the initial states
satisfy it and that each action preserves it, and derives the listed
properties.  The bounds of the TLC runs are arbitrary in the proofs.

**`ChangeAuthorityProofs`** (from `ProposalFields`, `Bounds`, `DistinctIds`).
`AuthorityInv` adds `RowsAreBound` to the checked properties: an existing row
names the proposal and the approval it was prepared from, so that its target
and its decision are defined.  The checked properties are needed together:
that a lock is freed by its own operation rests on `LocksMatchOperations`.
`AuthorityTypes`,
`LocksAreExact`, `SingleUse`, `AuditIsComplete` and
`TerminalOperationsAreFinal` follow.

**`TeamRuntimeProofs`** (from `TeamAssumption`).  `TeamInv` adds
`StartIsExclusive`: a task that can still be claimed or started has not run, and
a worker that may run its operation is the only one, on a task that is no
longer open.  A lease alone is not enough, since it may expire while the
worker is about to run.  The lemmas show in addition that
rows only advance, which gives `TerminalRowsAreFinal`; `OperationsRunOnce`,
`CancelledRunsAreClosed` and `TeamTypes` follow from the invariant.

**`LoopEngineProofs`** (from `LoopAssumption`).  `LoopInv` says that the attempt
under way is owned by the one call whose transition reserved it: while a driver
is between the reservation and its outcome, the journal is active with the same
attempt number or has ended, no other driver owns an attempt, and the executor
was called for it at most once.  Limits are checked on the driver's copy, so
`BudgetsHold` also needs that a committed proposal was made from the journal as
it stands.
`AttemptsAreNotRepeated`, `OutcomesAreFinal` and `LoopTypes` follow.

The three proved modules state their type invariants, and the audit property of
the journal, as theorems only; `CWTypeOK` is model-checked.

Only model-checked: all liveness (fairness and `ENABLED` are out of reach of the
prover); the properties about sums over sets, such as `LedgerBalances`,
`BudgetIsHonoured` and `AggregateBudgetHolds`, since they need induction over
data; and, for now, everything about `ControlledWrite`, `RunReducer`,
`RunEventChain`, `RuntimeStore`, `ModelInvocation` and `RoleExecution`, and
`SuccessIsGated` and `CancellationStopsLoop` of the loop.

## Not modelled

`PROJECT.json` lists every other part with the reason.  In short: contracts,
digests, policy evaluation and routing are pure functions of documents, and
appear as guards or free choices; adapters, isolation, research transport and
distribution are operating-system or network I/O; evaluation, evidence and
the projections of knowledge flow are computed once over finished records;
authentication tags are abstracted to the bindings they protect.

## Plan

In this order; each item is a module, a run or an addition to a run, and the
hazards that `PROJECT.json` lists for it.

1. `ArtifactStore`: temporary file, link, unlink, crash, reopen.  Abstract
   specification: a durable map from digest to bytes.  The installation of the
   store identity has the same window as that of an object.
2. `RepositoryRead`: the read orchestrator over `RuntimeStore` and
   `ArtifactStore`; errors that are not broker errors leave a read prepared.
3. `TeamAuthority` and `TeamEffects`: generations, policy, revocation,
   emergency deny, permits, and effects run under the authority fence on a
   snapshot that may be superseded.
4. `RouteUsage`: consumption of route decisions, the one fallback attempt,
   aggregate caps, replay after a crash.
5. `SourceReview`: the workflow over `RoleExecution`; which plans completed is
   known in memory only.
6. `MemoryStore` (compaction over sources read one by one), `NoModelJournal`
   (a chain in memory that is ahead of the database after a rollback),
   `Persistence`.
7. `Adoption` and `SkillSync`: several files written with rollback and crashes,
   digests checked before and not at the write.
8. Refinement: `ModelInvocation` implements an at-most-once call; `LoopEngine`
   implements a single-driver loop.
9. Proofs: `AtMostOneEgress` for any number of executions;
   the invariants of `RuntimeStore` that do not sum;
   `CancellationStopsLoop` and `SuccessIsGated`.

Small components share a run through a variable that selects one of them in the
initial state, so that related questions stay in one configuration.

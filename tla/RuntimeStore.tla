---------------------------- MODULE RuntimeStore ----------------------------
(***************************************************************************)
(* SQLiteRuntimeStore (eco_runtime/store.py): one run, its plans, policy   *)
(* decisions, absolute budget, repository reads and model invocations.     *)
(*                                                                         *)
(* Every action is one BEGIN IMMEDIATE transaction of the store: an error  *)
(* rolls it back, so a refused call is a step that is not taken.  The      *)
(* caller passes its own `now`, so every action takes a time t and the     *)
(* store's clock-rollback checks are guards on it.  The run's event log is *)
(* represented by its replay, the projection of RunReducer.                *)
(***************************************************************************)
EXTENDS RunReducer, Sequences, FiniteSetsExt

CONSTANTS
    Plans,              \* RunPlan records of the run's request
    Reads,              \* ToolExecutionIntent records (operation ids)
    Calls,              \* ModelRequest records (request ids)
    Decisions,          \* PolicyDecision identifiers
    Nonces,             \* nonces callers choose for plan decisions
    RequestOf,          \* the tool request each intent executes
    KeyOf,              \* the idempotency key of each intent
    ReadBytes,          \* the snapshot byte length each intent reserves
    OutputBytes,        \* the output ceiling each model request reserves
    CallTokens,         \* the token ceiling each model request reserves
    ExpiresAt,          \* the expiry of each decision
    EndpointUntil,      \* validUntil of the endpoint binding
    InitialInput,       \* bytes of the plan's initial inputs
    MaxToolRequests, MaxInputBytes, MaxModelRequests, MaxOutputBytes, MaxTotalTokens,
    Deadline,           \* createdAt + maxDurationSeconds of a plan
    LeaseTime,          \* lease_seconds
    MaxTime             \* bound on the callers' clocks

ASSUME StoreAssumption ==
    /\ IsFiniteSet(Reads) /\ IsFiniteSet(Calls)
    /\ None \notin Plans \cup Reads \cup Calls \cup Decisions \cup Nonces
    /\ Requests # {}
    /\ RequestOf \in [Reads -> Tools]
    /\ DOMAIN KeyOf = Reads
    /\ ReadBytes \in [Reads -> Nat]
    /\ OutputBytes \in [Calls -> Nat]
    /\ CallTokens \in [Calls -> Nat]
    /\ ExpiresAt \in [Decisions -> Nat]
    /\ EndpointUntil \in Nat
    /\ InitialInput \in Nat /\ MaxInputBytes \in Nat /\ InitialInput <= MaxInputBytes
    /\ MaxToolRequests \in Nat /\ MaxModelRequests \in Nat
    /\ MaxOutputBytes \in Nat /\ MaxTotalTokens \in Nat
    /\ Deadline \in Nat /\ LeaseTime \in Nat \ {0} /\ MaxTime \in Nat

VARIABLES
    run,         \* the runs row: exists, history_complete, active plan, times, version
    proj,        \* the replay of run_events, equal to runs.state
    plans,       \* plans.status
    decisions,   \* the decisions row of each issued decision, nonces included
    budget,      \* the budgets row, None before activation
    reads,       \* the operations row and its budget reservation
    calls,       \* the model_operations row and its budget reservation
    checkpoint   \* the run_checkpoints row

storeVars == <<run, proj, plans, decisions, budget, reads, calls, checkpoint>>

Times == 0..MaxTime

NoRead == [state |-> "none", lease |-> 0, reservation |-> "none"]
NoCall == [state |-> "none", startedAt |-> 0, reservation |-> "none",
           output |-> 0, charged |-> 0]

StoreInit ==
    /\ run = [exists |-> FALSE, complete |-> FALSE, active |-> None,
              updatedAt |-> 0, version |-> 0]
    /\ proj = Baseline("NEW")
    /\ plans = [p \in Plans |-> "none"]
    /\ decisions = [d \in Decisions |-> None]
    /\ budget = None
    /\ reads = [r \in Reads |-> NoRead]
    /\ calls = [m \in Calls |-> NoCall]
    /\ checkpoint = None

-----------------------------------------------------------------------------
(* Shared parts of the transactions. *)

\* _issue_decision_tx: an id that is bound to another record is a conflict.
Issue(ds, d, subject, effect) ==
    IF ds[d] = None
    THEN {[ds EXCEPT ![d] = [subject |-> subject, effect |-> effect, nonce |-> None]]}
    ELSE {x \in {ds} : ds[d].subject = subject /\ ds[d].effect = effect}

NonceUsed(ds, nonce) == \E c \in Decisions : ds[c] # None /\ ds[c].nonce = nonce

\* Mutant: neither a used nonce nor an earlier consumption is looked up.
ConsumeTwice(ds, d, subject, nonce, t) ==
    IF ds[d] = None \/ ExpiresAt[d] <= t \/ ds[d].subject # subject THEN {}
    ELSE {[ds EXCEPT ![d].nonce = nonce]}

\* _consume_decision_tx: the same nonce again is an idempotent success for the
\* decision it consumed and a conflict for every other.
Consume(ds, d, subject, nonce, t) ==
    IF ds[d] = None \/ ExpiresAt[d] <= t \/ ds[d].subject # subject THEN {}
    ELSE IF NonceUsed(ds, nonce) THEN {x \in {ds} : ds[d].nonce = nonce}
    ELSE {x \in {[ds EXCEPT ![d].nonce = nonce]} : ds[d].nonce = None}

\* An operation's transaction issues its allow decision and consumes it at once.
Spend(d, subject, nonce, t) ==
    \E ds \in Issue(decisions, d, subject, "allow") :
        /\ ds[d].effect = "allow"
        /\ decisions' \in Consume(ds, d, subject, nonce, t)

\* _replay_event_projection_tx over one or two more events.
Replay(p, es) ==
    IF Len(es) = 1 THEN Reduce(p, es[1])
    ELSE UNION {Reduce(q, es[2]) : q \in Reduce(p, es[1])}

\* _append_generated_event_tx, for each event of es in one transaction.
Emit(es, t) ==
    /\ run.exists
    /\ proj.state \notin TerminalStates
    /\ t >= run.updatedAt
    /\ proj' \in Replay(proj, es)

Touch(row, n, t) == [row EXCEPT !.updatedAt = t, !.version = @ + n]

ToolDigest == CHOOSE d \in Requests : TRUE

ToolEvent(type, r) == Event(type, RequestOf[r], ToolDigest)

Plain(type) == Event(type, None, None)

\* _require_live_run_time_tx.
LiveRunTime(t) ==
    /\ run.active # None
    /\ t >= run.updatedAt
    /\ t < Deadline

-----------------------------------------------------------------------------
(* Run lifecycle. *)

StartRun(t) ==
    /\ ~run.exists
    /\ run' = [run EXCEPT !.exists = TRUE, !.complete = TRUE, !.updatedAt = t, !.version = 2]
    /\ proj' \in Reduce(Baseline("NEW"), Plain("run.received"))
    /\ UNCHANGED <<plans, decisions, budget, reads, calls, checkpoint>>

ValidateRun(t) ==
    /\ proj.state = "RECEIVED"
    /\ Emit(<<Plain("run.validated")>>, t)
    /\ run' = Touch(run, 1, t)
    /\ UNCHANGED <<plans, decisions, budget, reads, calls, checkpoint>>

\* A run without a row is bootstrapped as PLANNED with an incomplete history;
\* such a run takes further plans in any state, a native one only while it is
\* VALIDATED (recording plan.created) or PLANNED.
IssuePlan(p, d, effect, t) ==
    /\ decisions' \in Issue(decisions, d, p, effect)
    /\ plans' = [plans EXCEPT ![p] = IF @ = "none" THEN "issued" ELSE @]
    /\ \/ /\ ~run.exists
          /\ run' = [run EXCEPT !.exists = TRUE, !.updatedAt = t, !.version = 1]
          /\ proj' = Baseline("PLANNED")
       \/ /\ proj.state = "VALIDATED"
          /\ Emit(<<Plain("plan.created")>>, t)
          /\ run' = Touch(run, 1, t)
       \/ /\ run.exists
          /\ proj.state # "VALIDATED"
          /\ proj.state = "PLANNED" \/ ~run.complete
          /\ UNCHANGED <<run, proj>>
    /\ UNCHANGED <<budget, reads, calls, checkpoint>>

FreshBudget == [tools |-> 0, input |-> InitialInput, reserved |-> 0,
                calls |-> 0, output |-> 0, tokens |-> 0]

ActivatePlan(p, d, nonce, t) ==
    /\ t < Deadline
    /\ plans[p] # "none"
    /\ decisions[d] # None /\ decisions[d].effect = "allow"
    /\ decisions' \in Consume(decisions, d, p, nonce, t)
    /\ \/ /\ run.active = p
          /\ UNCHANGED <<run, proj, plans, budget>>
       \/ /\ run.active = None
          /\ Emit(<<Plain("policy.allowed")>>, t)
          /\ run' = [Touch(run, 1, t) EXCEPT !.active = p]
          /\ plans' = [plans EXCEPT ![p] = "active"]
          /\ budget' = FreshBudget
    /\ UNCHANGED <<reads, calls, checkpoint>>

DenyPlan(p, d, nonce, t) ==
    /\ plans[p] # "none"
    /\ run.exists /\ proj.state = "PLANNED"
    /\ \E ds \in Issue(decisions, d, p, "deny") :
          decisions' \in Consume(ds, d, p, nonce, t)
    /\ Emit(<<Plain("policy.denied")>>, t)
    /\ run' = Touch(run, 1, t)
    /\ plans' = [plans EXCEPT ![p] = "terminal"]
    /\ UNCHANGED <<budget, reads, calls, checkpoint>>

\* start_adapter, complete_adapter and fail_adapter only append their event.
AdapterEvent(type, t) ==
    /\ Emit(<<Plain(type)>>, t)
    /\ run' = Touch(run, 1, t)
    /\ UNCHANGED <<plans, decisions, budget, reads, calls, checkpoint>>

StartAdapter(t) == AdapterEvent("adapter.started", t)
CompleteAdapter(t) == AdapterEvent("adapter.completed", t)
FailAdapter(t) == AdapterEvent("adapter.failed", t)

\* Mutant: a run is finished whatever its calls are doing.
OpenCallsIgnored == TRUE

NoOpenCall == \A m \in Calls : calls[m].state \notin {"prepared", "started"}

FinishRun(outcome, t) ==
    /\ NoOpenCall
    /\ Emit(<<Plain(outcome)>>, t)
    /\ run' = Touch(run, 1, t)
    /\ UNCHANGED <<plans, decisions, budget, reads, calls, checkpoint>>

\* Mutant: a live run is checkpointed.
CreateTerminalCheckpoint_Live(t) ==
    /\ checkpoint = None
    /\ budget # None /\ run.active # None
    /\ checkpoint' = [version |-> run.version, proj |-> proj, budget |-> budget]
    /\ UNCHANGED <<run, proj, plans, decisions, budget, reads, calls>>

CreateTerminalCheckpoint(t) ==
    /\ checkpoint = None
    /\ proj.state \in TerminalStates
    /\ t >= run.updatedAt
    /\ budget # None /\ run.active # None
    /\ \A r \in Reads : reads[r].state # "prepared"
    /\ checkpoint' = [version |-> run.version, proj |-> proj, budget |-> budget]
    /\ UNCHANGED <<run, proj, plans, decisions, budget, reads, calls>>

IssueDecision(d, subject, effect) ==
    /\ decisions[d] = None
    /\ decisions' \in Issue(decisions, d, subject, effect)
    /\ UNCHANGED <<run, proj, plans, budget, reads, calls, checkpoint>>

ConsumeDecision(d, subject, nonce, t) ==
    /\ decisions[d] # None /\ decisions[d].effect = "allow"
    /\ decisions' \in Consume(decisions, d, subject, nonce, t)
    /\ UNCHANGED <<run, proj, plans, budget, reads, calls, checkpoint>>

-----------------------------------------------------------------------------
(* Repository reads. *)

\* No operation uses the intent's idempotency key or its tool request.
FreshIntent(r) ==
    \A q \in Reads : reads[q].state # "none" =>
        KeyOf[q] # KeyOf[r] /\ RequestOf[q] # RequestOf[r]

\* Mutant: reservations of reads in flight are forgotten.
ReservedIgnored(r) ==
    /\ budget.tools + 1 <= MaxToolRequests
    /\ budget.input + ReadBytes[r] <= MaxInputBytes

ReadFitsBudget(r) ==
    /\ budget.tools + 1 <= MaxToolRequests
    /\ budget.input + budget.reserved + ReadBytes[r] <= MaxInputBytes

LeaseUntil(t) == IF t + LeaseTime < Deadline THEN t + LeaseTime ELSE Deadline

PrepareRead(r, d, t) ==
    /\ proj.state = "RUNNING" /\ run.active # None
    /\ LiveRunTime(t)
    /\ FreshIntent(r)
    /\ Spend(d, RequestOf[r], r, t)
    /\ ReadFitsBudget(r)
    /\ budget' = [budget EXCEPT !.tools = @ + 1, !.reserved = @ + ReadBytes[r]]
    /\ reads' = [reads EXCEPT ![r] = [state |-> "prepared", lease |-> LeaseUntil(t),
                                      reservation |-> "reserved"]]
    /\ Emit(<<ToolEvent("tool.requested", r), ToolEvent("tool.allowed", r)>>, t)
    /\ run' = Touch(run, 2, t)
    /\ UNCHANGED <<plans, calls, checkpoint>>

Settled(state, reservation) == [state |-> state, lease |-> 0, reservation |-> reservation]

\* The lease token is known only to the worker that prepared the read, and a
\* no_retry lease is never reissued, so holding it is being that worker.
CompleteRead(r, t) ==
    /\ reads[r].state = "prepared"
    /\ LiveRunTime(t)
    /\ t < reads[r].lease
    /\ reads[r].reservation = "reserved"
    /\ budget.reserved >= ReadBytes[r]
    /\ budget.input + ReadBytes[r] <= MaxInputBytes
    /\ budget' = [budget EXCEPT !.reserved = @ - ReadBytes[r], !.input = @ + ReadBytes[r]]
    /\ reads' = [reads EXCEPT ![r] = Settled("succeeded", "committed")]
    /\ Emit(<<ToolEvent("tool.completed", r), Plain("artifact.recorded")>>, t)
    /\ run' = Touch(run, 2, t)
    /\ UNCHANGED <<plans, decisions, calls, checkpoint>>

\* Mutant: the bytes of a failed read stay reserved.
ReleaseRead_Kept(r, t) ==
    /\ reads[r].state = "prepared"
    /\ reads' = [reads EXCEPT ![r] = Settled("failed", "released")]
    /\ Emit(<<ToolEvent("tool.failed", r)>>, t)
    /\ run' = Touch(run, 1, t)
    /\ UNCHANGED <<plans, decisions, budget, calls, checkpoint>>

\* Mutant: the settlement is not recorded in the event log.
ReleaseRead_Silent(r, t) ==
    /\ reads[r].state = "prepared"
    /\ budget' = [budget EXCEPT !.reserved = @ - ReadBytes[r]]
    /\ reads' = [reads EXCEPT ![r] = Settled("failed", "released")]
    /\ UNCHANGED <<run, proj, plans, decisions, calls, checkpoint>>

\* fail_repository_read and abort_expired_operation share this settlement.
ReleaseRead(r, t) ==
    /\ reads[r].state = "prepared"
    /\ reads[r].reservation = "reserved"
    /\ budget.reserved >= ReadBytes[r]
    /\ budget' = [budget EXCEPT !.reserved = @ - ReadBytes[r]]
    /\ reads' = [reads EXCEPT ![r] = Settled("failed", "released")]
    /\ Emit(<<ToolEvent("tool.failed", r)>>, t)
    /\ run' = Touch(run, 1, t)
    /\ UNCHANGED <<plans, decisions, calls, checkpoint>>

FailRead(r, t) == LiveRunTime(t) /\ t < reads[r].lease /\ ReleaseRead(r, t)

AbortExpiredRead(r, t) == reads[r].lease <= t /\ ReleaseRead(r, t)

-----------------------------------------------------------------------------
(* Model invocations. *)

\* SUM(...) over the reservations a call has not settled.
Outstanding(f) ==
    MapThenSumSet(LAMBDA m : f[m], {m \in Calls : calls[m].reservation = "reserved"})

\* Mutant: ceilings reserved by calls in flight are forgotten.
CallFitsBudget_Alone(m) ==
    /\ budget.calls + 1 <= MaxModelRequests
    /\ budget.output + OutputBytes[m] <= MaxOutputBytes
    /\ budget.tokens + CallTokens[m] <= MaxTotalTokens

CallFitsBudget(m) ==
    /\ budget.calls + 1 <= MaxModelRequests
    /\ budget.output + Outstanding(OutputBytes) + OutputBytes[m] <= MaxOutputBytes
    /\ budget.tokens + Outstanding(CallTokens) + CallTokens[m] <= MaxTotalTokens

\* No event is appended, and the adapter flags are not consulted.
PrepareCall(m, d, t) ==
    /\ calls[m].state = "none"
    /\ t < EndpointUntil
    /\ proj.state = "RUNNING" /\ run.active # None
    /\ LiveRunTime(t)
    /\ CallFitsBudget(m)
    /\ Spend(d, m, m, t)
    /\ budget' = [budget EXCEPT !.calls = @ + 1]
    /\ calls' = [calls EXCEPT ![m] = [NoCall EXCEPT !.state = "prepared",
                                                    !.reservation = "reserved"]]
    /\ UNCHANGED <<run, proj, plans, reads, checkpoint>>

StartCall(m, t) ==
    /\ calls[m].state = "prepared"
    /\ LiveRunTime(t)
    /\ calls' = [calls EXCEPT ![m].state = "started", ![m].startedAt = t]
    /\ UNCHANGED <<run, proj, plans, decisions, budget, reads, checkpoint>>

\* A recovered PREPARE crosses the egress fence under a fresh decision.
ResumeCall(m, d, t) ==
    /\ calls[m].state = "prepared"
    /\ LiveRunTime(t)
    /\ Spend(d, m, <<"resume", m, d>>, t)
    /\ calls' = [calls EXCEPT ![m].state = "started", ![m].startedAt = t]
    /\ UNCHANGED <<run, proj, plans, budget, reads, checkpoint>>

AbortReasonHolds(reason, t) ==
    \/ reason = "cancelled"
    \/ reason = "deadline-expired" /\ Deadline <= t
    \/ reason = "endpoint-expired" /\ EndpointUntil <= t

\* Mutant: a call is aborted after it crossed its egress fence.
AbortPreparedCall_Started(m, reason, t) ==
    /\ calls[m].state \in {"prepared", "started"}
    /\ t >= run.updatedAt
    /\ AbortReasonHolds(reason, t)
    /\ calls' = [calls EXCEPT ![m].state = "failed", ![m].reservation = "committed"]
    /\ UNCHANGED <<run, proj, plans, decisions, budget, reads, checkpoint>>

AbortPreparedCall(m, reason, t) ==
    /\ calls[m].state = "prepared"
    /\ t >= run.updatedAt
    /\ AbortReasonHolds(reason, t)
    /\ calls[m].reservation = "reserved"
    /\ calls' = [calls EXCEPT ![m].state = "failed", ![m].reservation = "committed"]
    /\ UNCHANGED <<run, proj, plans, decisions, budget, reads, checkpoint>>

\* A successful call is charged its actual output and its reserved tokens.
CompleteCall(m, d, output, t) ==
    /\ calls[m].state = "started"
    /\ proj.state = "RUNNING" /\ run.active # None
    /\ calls[m].reservation = "reserved"
    /\ output <= OutputBytes[m]
    /\ Spend(d, m, <<"finalize", m, d>>, t)
    /\ budget.output + output <= MaxOutputBytes
    /\ budget.tokens + CallTokens[m] <= MaxTotalTokens
    /\ budget' = [budget EXCEPT !.output = @ + output, !.tokens = @ + CallTokens[m]]
    /\ calls' = [calls EXCEPT ![m].state = "succeeded", ![m].reservation = "committed",
                              ![m].output = output, ![m].charged = CallTokens[m]]
    /\ Emit(<<Plain("artifact.recorded")>>, t)
    /\ run' = Touch(run, 1, t)
    /\ UNCHANGED <<plans, reads, checkpoint>>

\* Mutant: an uncertain call is not charged.
ChargeNothing(m, state, t) ==
    /\ calls[m].state = "started"
    /\ calls' = [calls EXCEPT ![m].state = state, ![m].reservation = "uncertain",
                              ![m].charged = CallTokens[m]]
    /\ Emit(<<Plain("adapter.failed")>>, t)
    /\ run' = Touch(run, 1, t)
    /\ UNCHANGED <<plans, decisions, budget, reads, checkpoint>>

\* A call whose outcome is not known is charged its whole token ceiling and
\* fails the adapter.
ChargeCeiling(m, state, t) ==
    /\ calls[m].state = "started"
    /\ calls[m].reservation = "reserved"
    /\ budget.tokens + CallTokens[m] <= MaxTotalTokens
    /\ budget' = [budget EXCEPT !.tokens = @ + CallTokens[m]]
    /\ calls' = [calls EXCEPT ![m].state = state, ![m].reservation = "uncertain",
                              ![m].charged = CallTokens[m]]
    /\ Emit(<<Plain("adapter.failed")>>, t)
    /\ run' = Touch(run, 1, t)
    /\ UNCHANGED <<plans, decisions, reads, checkpoint>>

FailCall(m, t) == proj.state = "RUNNING" /\ run.active # None /\ ChargeCeiling(m, "failed", t)

\* Mutant: only a call of a run whose deadline has not passed is resolved.
ResolveAmbiguousCall_Live(m, observed, t) ==
    LiveRunTime(t) /\ calls[m].startedAt = observed /\ ChargeCeiling(m, "ambiguous", t)

\* The resolver names the STARTED fence it observed.
ResolveAmbiguousCall(m, observed, t) ==
    calls[m].startedAt = observed /\ ChargeCeiling(m, "ambiguous", t)

-----------------------------------------------------------------------------

DecisionSubjects == Plans \cup Tools \cup Calls
Effects == {"allow", "deny"}

LifecycleNext(t) ==
    \/ StartRun(t) \/ ValidateRun(t)
    \/ StartAdapter(t) \/ CompleteAdapter(t) \/ FailAdapter(t)
    \/ \E outcome \in {"run.succeeded", "run.failed", "run.cancelled", "run.exhausted"} :
          FinishRun(outcome, t)
    \/ CreateTerminalCheckpoint(t)

DecisionNext(W, t) ==
    \E d \in Decisions \cap W, n \in Nonces \cap W :
        \/ \E p \in Plans \cap W, effect \in Effects \cap W : IssuePlan(p, d, effect, t)
        \/ \E p \in Plans \cap W : ActivatePlan(p, d, n, t) \/ DenyPlan(p, d, n, t)
        \/ \E s \in DecisionSubjects \cap W, effect \in Effects \cap W : IssueDecision(d, s, effect)
        \/ \E s \in DecisionSubjects \cap W : ConsumeDecision(d, s, n, t)

ReadNext(W, t) ==
    \E r \in Reads \cap W :
        \/ \E d \in Decisions \cap W : PrepareRead(r, d, t)
        \/ CompleteRead(r, t) \/ FailRead(r, t) \/ AbortExpiredRead(r, t)

CallNext(W, t) ==
    \E m \in Calls \cap W :
        \/ \E d \in Decisions \cap W : PrepareCall(m, d, t) \/ ResumeCall(m, d, t)
        \/ StartCall(m, t) \/ FailCall(m, t)
        \/ \E reason \in {"cancelled", "deadline-expired", "endpoint-expired"} :
              AbortPreparedCall(m, reason, t)
        \/ \E d \in Decisions \cap W, output \in 0..OutputBytes[m] : CompleteCall(m, d, output, t)
        \/ ResolveAmbiguousCall(m, calls[m].startedAt, t)

\* A step of callers that use the records W.
StoreNextOn(W) ==
    \E t \in Times :
        LifecycleNext(t) \/ DecisionNext(W, t) \/ ReadNext(W, t) \/ CallNext(W, t)

StoreNext ==
    StoreNextOn(Plans \cup Tools \cup Reads \cup Calls \cup Decisions \cup Nonces \cup Effects)

StoreSpec == StoreInit /\ [][StoreNext]_storeVars

-----------------------------------------------------------------------------
(* Properties. *)

OperationNonces == Nonces \cup Reads \cup Calls \cup ({"resume", "finalize"} \X Calls \X Decisions)

\* What is spent together with what open reads and calls may still spend never
\* exceeds the plan's budget: no open operation is refused its settlement for want
\* of budget (it may be for other reasons, see StartedCallsSettle).
BudgetIsHonoured ==
    budget # None =>
        /\ budget.input + budget.reserved <= MaxInputBytes
        /\ budget.output + Outstanding(OutputBytes) <= MaxOutputBytes
        /\ budget.tokens + Outstanding(CallTokens) <= MaxTotalTokens

ReadTotal(reservation) ==
    MapThenSumSet(LAMBDA r : ReadBytes[r], {r \in Reads : reads[r].reservation = reservation})

\* The budget row is the exact sum of the operations' reservations, which is
\* what store verification recomputes: nothing is charged twice, forgotten, or
\* left reserved by a settled operation.
LedgerBalances ==
    budget # None =>
        /\ budget.tools = Cardinality({r \in Reads : reads[r].state # "none"})
        /\ budget.reserved = ReadTotal("reserved")
        /\ budget.input = InitialInput + ReadTotal("committed")
        /\ budget.calls = Cardinality({m \in Calls : calls[m].state # "none"})
        /\ budget.output = MapThenSumSet(LAMBDA m : calls[m].output, Calls)
        /\ budget.tokens = MapThenSumSet(LAMBDA m : calls[m].charged, Calls)

\* A run with a prepared read or an unsettled call is RUNNING under its one
\* active plan, which plans issued later, or again, have not displaced.
\* start_model_invocation and resume_prepared_model_invocation rely on it: they
\* check the run's clock but not its state.
OpenWorkKeepsRunOpen ==
    \/ /\ \A r \in Reads : reads[r].state # "prepared"
       /\ \A m \in Calls : calls[m].state \notin {"prepared", "started"}
    \/ /\ proj.state = "RUNNING" /\ budget # None
       /\ run.active # None /\ {p \in Plans : plans[p] = "active"} = {run.active}

\* The operation rows and the event log tell the same story of every tool
\* request, although each transaction writes them separately.
ReadsMatchEvents ==
    \A u \in Tools :
        LET of(state) == \E r \in Reads : RequestOf[r] = u /\ reads[r].state = state
        IN  /\ proj.phase[u] = "allowed" <=> of("prepared")
            /\ proj.phase[u] = "completed" <=> of("succeeded")
            /\ proj.phase[u] = "failed" <=> of("failed")
            /\ proj.phase[u] \in {"absent", "allowed", "completed", "failed"}

SpentOn(d, subject, nonce) ==
    /\ decisions[d] # None
    /\ decisions[d].effect = "allow"
    /\ decisions[d].subject = subject
    /\ decisions[d].nonce = nonce

\* Nothing is authorised twice by one decision: nonces are pairwise different,
\* and the active plan, every read, every call and every successful completion
\* has consumed an allow decision for exactly itself.
AuthorityIsSingleUse ==
    /\ \A c, d \in Decisions :
          c # d /\ decisions[c] # None /\ decisions[d] # None /\ decisions[c].nonce # None
              => decisions[c].nonce # decisions[d].nonce
    /\ run.active # None =>
          \E d \in Decisions, n \in OperationNonces : SpentOn(d, run.active, n)
    /\ \A r \in Reads : reads[r].state # "none" =>
          \E d \in Decisions : SpentOn(d, RequestOf[r], r)
    /\ \A m \in Calls : calls[m].state # "none" => \E d \in Decisions : SpentOn(d, m, m)
    /\ \A m \in Calls : calls[m].state = "succeeded" =>
          \E d \in Decisions : SpentOn(d, m, <<"finalize", m, d>>)

\* Once written, a terminal checkpoint stays an exact picture of the run.
CheckpointIsExact ==
    checkpoint # None =>
        /\ proj.state \in TerminalStates
        /\ checkpoint = [version |-> run.version, proj |-> proj, budget |-> budget]

\* A terminal run is never extended, and a settled read or call is never
\* settled again, whatever late worker, recovery scan or retry arrives.
SettledIsFinal ==
    /\ proj.state \in TerminalStates => proj' = proj /\ budget' = budget
    /\ \A r \in Reads : reads[r].state \in {"succeeded", "failed"} => reads'[r] = reads[r]
    /\ \A m \in Calls :
          calls[m].state \in {"succeeded", "failed", "ambiguous"} => calls'[m] = calls[m]
    /\ \A d \in Decisions :
          decisions[d] # None /\ decisions[d].nonce # None => decisions'[d] = decisions[d]

SettlementIsFinal == [][SettledIsFinal]_storeVars
=============================================================================

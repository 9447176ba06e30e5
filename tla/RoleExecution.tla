--------------------------- MODULE RoleExecution ---------------------------
(***************************************************************************)
(* One role slot of a source review, as the CLI executes it                *)
(* (eco_cli/source_review.py, _DynamicGovernedExecutor, over               *)
(* eco_orchestration/model_executor.py, GovernedRoleExecutor): a child run *)
(* is set up in the runtime store, its one model call is executed, and the *)
(* child run is closed.                                                    *)
(*                                                                         *)
(* Set-up and closing are several store transactions each.  A command that *)
(* died, or whose role failed, is run again with the same identifiers.     *)
(***************************************************************************)
EXTENDS ModelInvocation

CONSTANT Plan, Call     \* the child run's plan and its model request

ASSUME RoleAssumption == Plan \in Plans /\ Call \in Calls

VARIABLES
    role,        \* where each worker is in _DynamicGovernedExecutor.execute
    delivered    \* whether a RoleExecution was returned to the workflow

roleVars == <<storeVars, invVars, role, delivered>>

Off == [pc |-> "off", now |-> 0, ok |-> FALSE]

RoleInit ==
    /\ StoreInit
    /\ clock = 0
    /\ worker = [w \in Workers |-> Idle]
    /\ observed = [m \in Calls |-> None]
    /\ egress = [m \in Calls |-> 0]
    /\ faults = 0
    /\ role = [w \in Workers |-> Off]
    /\ delivered = FALSE

RoleAt(w, pc) == role[w].pc = pc
RoleTo(w, pc) == role' = [role EXCEPT ![w].pc = pc]
Leave(w) == role' = [role EXCEPT ![w] = Off]

-----------------------------------------------------------------------------
(* _initialize_store; every transaction uses the request's created_at, 0. *)

Begin(w) ==
    /\ RoleAt(w, "off")
    /\ RoleTo(w, "status")
    /\ UNCHANGED <<storeVars, invVars, delivered>>

\* A run left PLANNED by a command that died is not resumable.
ReadRunStatus(w) ==
    /\ RoleAt(w, "status")
    /\ IF ~run.exists THEN RoleTo(w, "issue")
       ELSE IF proj.state = "AUTHORIZED" THEN RoleTo(w, "adapter")
       ELSE IF proj.state \in {"RUNNING"} \cup TerminalStates THEN RoleTo(w, "call")
       ELSE Leave(w)
    /\ UNCHANGED <<storeVars, invVars, delivered>>

IssueChildPlan(w) ==
    /\ RoleAt(w, "issue")
    /\ IssuePlan(Plan, PlanDecision(Plan), "allow", 0)
    /\ RoleTo(w, "activate")
    /\ UNCHANGED <<invVars, delivered>>

\* The nonce is derived from the plan; run_status is read again afterwards.
ActivateChildPlan(w) ==
    /\ RoleAt(w, "activate")
    /\ \E n \in Nonces : ActivatePlan(Plan, PlanDecision(Plan), n, 0)
    /\ RoleTo(w, "status")
    /\ UNCHANGED <<invVars, delivered>>

StartChildAdapter(w) ==
    /\ RoleAt(w, "adapter")
    /\ StartAdapter(0)
    /\ RoleTo(w, "call")
    /\ UNCHANGED <<invVars, delivered>>

-----------------------------------------------------------------------------
(* GovernedRoleExecutor.execute around ModelInvocation. *)

InvokeModel(w) ==
    /\ RoleAt(w, "call")
    /\ Lookup(w, Call)
    /\ RoleTo(w, "executing")
    /\ UNCHANGED delivered

ExecuteModel(w) ==
    /\ RoleAt(w, "executing")
    /\ Execute(w)
    /\ UNCHANGED <<role, delivered>>

\* Mutant: every returned execution counts as a role result.
ModelReturned_Any(w) ==
    /\ RoleAt(w, "executing")
    /\ worker[w].pc \in {"returned", "raised"}
    /\ role' = [role EXCEPT ![w] = [pc |-> "settle", now |-> clock, ok |-> At(w, "returned")]]
    /\ worker' = [worker EXCEPT ![w] = Idle]
    /\ UNCHANGED <<storeVars, clock, observed, egress, faults, delivered>>

\* Only a succeeded call is a role result.
ModelReturned(w) ==
    /\ RoleAt(w, "executing")
    /\ worker[w].pc \in {"returned", "raised"}
    /\ role' = [role EXCEPT ![w] = [pc |-> "settle", now |-> clock,
                                    ok |-> worker[w].result = "succeeded"]]
    /\ worker' = [worker EXCEPT ![w] = Idle]
    /\ UNCHANGED <<storeVars, clock, observed, egress, faults, delivered>>

\* recover_succeeded_output cannot read the artifact of a replayed call.
OutputUnavailable(w) ==
    /\ RoleAt(w, "executing")
    /\ worker[w].result = "succeeded" /\ worker[w].replayed
    /\ faults < MaxFaults
    /\ faults' = faults + 1
    /\ role' = [role EXCEPT ![w] = [pc |-> "settle", now |-> clock, ok |-> FALSE]]
    /\ worker' = [worker EXCEPT ![w] = Idle]
    /\ UNCHANGED <<storeVars, clock, observed, egress, delivered>>

-----------------------------------------------------------------------------
(* _settle_child: the adapter, then the run, are closed at one sampled time. *)

Deliver(w) == Leave(w) /\ delivered' = (delivered \/ role[w].ok)

SettleStatus(w) ==
    /\ RoleAt(w, "settle")
    /\ IF proj.state = "RUNNING"
       THEN RoleTo(w, "close-adapter") /\ UNCHANGED delivered
       ELSE Deliver(w)
    /\ UNCHANGED <<storeVars, invVars>>

CloseAdapter(w) ==
    /\ RoleAt(w, "close-adapter")
    /\ IF role[w].ok THEN CompleteAdapter(role[w].now) ELSE FailAdapter(role[w].now)
    /\ RoleTo(w, "close-run")
    /\ UNCHANGED <<invVars, delivered>>

CloseRun(w) ==
    /\ RoleAt(w, "close-run")
    /\ FinishRun(IF role[w].ok THEN "run.succeeded" ELSE "run.failed", role[w].now)
    /\ Deliver(w)
    /\ UNCHANGED invVars

RoleStoreStep(w) ==
    \/ IssueChildPlan(w) \/ ActivateChildPlan(w) \/ StartChildAdapter(w)
    \/ CloseAdapter(w) \/ CloseRun(w)

\* A refused transaction of set-up or closing raises out of the executor; the
\* role's own exception, or its result, is lost.
RoleRefused(w) ==
    /\ role[w].pc \in {"issue", "activate", "adapter", "close-adapter", "close-run"}
    /\ ~ENABLED RoleStoreStep(w)
    /\ Leave(w)
    /\ UNCHANGED <<storeVars, invVars, delivered>>

\* The command dies.
RoleCrash(w) ==
    /\ ~RoleAt(w, "off")
    /\ faults < MaxFaults
    /\ faults' = faults + 1
    /\ worker' = [worker EXCEPT ![w] = Idle]
    /\ Leave(w)
    /\ UNCHANGED <<storeVars, clock, observed, egress, delivered>>

RoleStep(w) ==
    \/ ReadRunStatus(w) \/ InvokeModel(w) \/ ExecuteModel(w) \/ ModelReturned(w)
    \/ SettleStatus(w) \/ RoleStoreStep(w) \/ RoleRefused(w)

Surroundings ==
    /\ \/ Tick \/ StepBack
       \/ \E m \in Calls : ScanStarted(m) \/ ResolveStarted(m) \/ AbortPrepared(m)
       \/ \E w \in Workers : StorageError(w)
    /\ UNCHANGED <<role, delivered>>

RoleNext ==
    \/ \E w \in Workers : Begin(w) \/ RoleStep(w) \/ OutputUnavailable(w) \/ RoleCrash(w)
    \/ Surroundings

RoleSpec == RoleInit /\ [][RoleNext]_roleVars

\* Commands run to their end and are run again; the operator resolves STARTED
\* calls.
RoleFairness ==
    /\ \A w \in Workers : WF_roleVars(Begin(w)) /\ WF_roleVars(RoleStep(w))
    /\ \A m \in Calls :
          /\ WF_roleVars(ScanStarted(m) /\ UNCHANGED <<role, delivered>>)
          /\ WF_roleVars(ResolveStarted(m) /\ UNCHANGED <<role, delivered>>)

FairRoleSpec == RoleSpec /\ RoleFairness

-----------------------------------------------------------------------------
(* Properties. *)

\* The workflow gets a role result only from a call whose success is durable, in
\* a child run that is closed, however often the command died on the way.  The
\* child run succeeds only when that call did and reached the provider once.
DeliveredIsDurable ==
    /\ delivered => calls[Call].state = "succeeded" /\ proj.state \in TerminalStates
    /\ proj.state = "SUCCEEDED" => calls[Call].state = "succeeded" /\ egress[Call] = 1

\* "An ambiguous post-start invocation becomes a typed incomplete/failed
\* terminal condition": a STARTED call does not stay STARTED.
StartedIsResolved ==
    calls[Call].state = "started" ~> calls[Call].state \in Terminal
=============================================================================

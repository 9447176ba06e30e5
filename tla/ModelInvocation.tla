-------------------------- MODULE ModelInvocation --------------------------
(***************************************************************************)
(* GovernedModelOrchestrator (eco_runtime/model_orchestrator.py) over the  *)
(* durable store: authorise, PREPARE, STARTED, one provider call, settle.  *)
(*                                                                         *)
(* execute() is a sequence of separate store transactions around a call to *)
(* an untrusted adapter.  Each worker is one execution of it, in its own   *)
(* process; between two of its steps other workers, the resolver of        *)
(* STARTED calls and the clock move, and the process may die.  A worker    *)
(* keeps what execute() keeps in local variables: the time it sampled,     *)
(* whether it had seen an operation, and its result.                       *)
(***************************************************************************)
EXTENDS RuntimeStore

CONSTANTS
    Workers,        \* concurrent executions of execute()
    MaxFaults       \* bound on process deaths, storage errors and clock steps back

\* Identifiers of the decisions the orchestrator derives from request and time.
PlanDecision(p) == <<"plan", p, 0>>
CallDecision(m) == <<"call", m, 0>>
ResumeDecision(m, t) == <<"resume", m, t>>
FinalDecision(m, t) == <<"finalize", m, t>>

ASSUME InvocationAssumption ==
    /\ {PlanDecision(p) : p \in Plans} \subseteq Decisions
    /\ {CallDecision(m) : m \in Calls} \subseteq Decisions
    /\ {"resume", "finalize"} \X Calls \X Times \subseteq Decisions
    /\ MaxFaults \in Nat

VARIABLES
    clock,      \* the broker-owned clock
    worker,     \* the local state of each execution
    observed,   \* the started_at a recovery scan listed for each call, or None
    egress,     \* how often each request crossed to the provider
    faults      \* process deaths, storage errors and clock steps back so far

invVars == <<clock, worker, observed, egress, faults>>

Idle == [pc |-> "idle", call |-> None, now |-> 0, fresh |-> FALSE,
         result |-> None, replayed |-> FALSE]

\* A run in RUNNING state under its active plan, as its caller has set it up.
InvInit ==
    /\ \E p \in Plans, n \in Nonces :
          /\ run = [exists |-> TRUE, complete |-> FALSE, active |-> p,
                    updatedAt |-> 0, version |-> 3]
          /\ plans = [q \in Plans |-> IF q = p THEN "active" ELSE "none"]
          /\ decisions = [d \in Decisions |->
                IF d = PlanDecision(p)
                THEN [subject |-> p, effect |-> "allow", nonce |-> n] ELSE None]
    /\ proj = Baseline("RUNNING")
    /\ budget = FreshBudget
    /\ reads = [r \in Reads |-> NoRead]
    /\ calls = [m \in Calls |-> NoCall]
    /\ checkpoint = None
    /\ clock = 0
    /\ worker = [w \in Workers |-> Idle]
    /\ observed = [m \in Calls |-> None]
    /\ egress = [m \in Calls |-> 0]
    /\ faults = 0

Terminal == {"succeeded", "failed", "ambiguous"}

-----------------------------------------------------------------------------
(* Steps of execute().  To(w, pc) moves the worker's program counter only. *)

At(w, pc) == worker[w].pc = pc
To(w, pc) == worker' = [worker EXCEPT ![w].pc = pc]
Raised(w) == worker' = [worker EXCEPT ![w].pc = "raised", ![w].result = None]
Returned(w, result) == worker' = [worker EXCEPT ![w].pc = "returned", ![w].result = result]

\* _replay: a terminal operation is returned as it stands, a started one raises.
ReplayOf(row, state) ==
    IF state \in Terminal
    THEN [row EXCEPT !.pc = "returned", !.result = state, !.replayed = TRUE]
    ELSE [row EXCEPT !.pc = "raised"]

ReplayOrRaise(w, state) == worker' = [worker EXCEPT ![w] = ReplayOf(@, state)]

\* exact_model_replay_status: which path to take is decided here, once.
Lookup(w, m) ==
    /\ At(w, "idle")
    /\ worker' = [worker EXCEPT ![w] =
          IF calls[m].state \in {"none", "prepared"}
          THEN [Idle EXCEPT !.pc = "gate", !.call = m, !.fresh = calls[m].state = "none"]
          ELSE ReplayOf([Idle EXCEPT !.call = m], calls[m].state)]
    /\ UNCHANGED <<storeVars, clock, observed, egress, faults>>

\* The broker clock is sampled and the policy asked at that time; a first
\* attempt also needs its caller's decision to be current.
Gate(w) ==
    /\ At(w, "gate")
    /\ \/ /\ worker[w].fresh => ExpiresAt[CallDecision(worker[w].call)] > clock
          /\ worker' = [worker EXCEPT ![w].pc = "prepare", ![w].now = clock]
       \/ Raised(w)
    /\ UNCHANGED <<storeVars, clock, observed, egress, faults>>

\* prepare_model_invocation inserts the operation or returns the one it finds.
Prepare(w) ==
    LET m == worker[w].call
        found == calls[m].state
    IN  /\ At(w, "prepare")
        /\ \/ /\ PrepareCall(m, CallDecision(m), worker[w].now)
              /\ To(w, "start")
           \/ /\ found # "none"
              /\ IF found # "prepared" THEN ReplayOrRaise(w, found)
                 ELSE IF worker[w].fresh THEN Raised(w) ELSE To(w, "resume")
              /\ UNCHANGED storeVars
        /\ UNCHANGED <<clock, observed, egress, faults>>

\* start_model_invocation commits the STARTED fence.
Start(w) ==
    LET m == worker[w].call
    IN  /\ At(w, "start")
        /\ \/ StartCall(m, worker[w].now) /\ To(w, "send")
           \/ /\ calls[m].state # "prepared"
              /\ ReplayOrRaise(w, calls[m].state)
              /\ UNCHANGED storeVars
        /\ UNCHANGED <<clock, observed, egress, faults>>

\* Mutant: the fence is not re-read when a PREPARE is recovered.
Resume_Unfenced(w) ==
    LET m == worker[w].call
    IN  /\ At(w, "resume")
        /\ \/ ResumeCall(m, ResumeDecision(m, worker[w].now), worker[w].now)
           \/ calls[m].state # "prepared" /\ UNCHANGED storeVars
        /\ To(w, "send")
        /\ UNCHANGED <<clock, observed, egress, faults>>

Resume(w) ==
    LET m == worker[w].call
    IN  /\ At(w, "resume")
        /\ \/ /\ ResumeCall(m, ResumeDecision(m, worker[w].now), worker[w].now)
              /\ To(w, "send")
           \/ /\ calls[m].state # "prepared"
              /\ ReplayOrRaise(w, calls[m].state)
              /\ UNCHANGED storeVars
        /\ UNCHANGED <<clock, observed, egress, faults>>

\* adapter.invoke answers or throws; either way the request left the process.
Send(w) ==
    /\ At(w, "send")
    /\ egress' = [egress EXCEPT ![worker[w].call] = @ + 1]
    /\ To(w, "answered") \/ To(w, "thrown")
    /\ UNCHANGED <<storeVars, clock, observed, faults>>

\* _completion_time and the checks on an answer: a clock that ran back raises;
\* an adapter error, an invalid response or a passed deadline fails the call;
\* otherwise the policy decides anew whether the output may be finalised.
Answer(w) ==
    /\ At(w, "answered") \/ At(w, "thrown")
    /\ \/ clock < worker[w].now /\ Raised(w)
       \/ /\ clock >= worker[w].now
          /\ \E pc \in {"fail"} \cup
                       (IF At(w, "answered") /\ clock < Deadline THEN {"deny", "complete"}
                        ELSE {}) :
                worker' = [worker EXCEPT ![w].pc = pc, ![w].now = clock]
    /\ UNCHANGED <<storeVars, clock, observed, egress, faults>>

\* A denied finalisation is recorded before the call is failed.
Deny(w) ==
    LET m == worker[w].call
    IN  /\ At(w, "deny")
        /\ IssueDecision(FinalDecision(m, worker[w].now), m, "deny")
        /\ To(w, "fail")
        /\ UNCHANGED <<clock, observed, egress, faults>>

\* Mutant: the result is returned although the settlement was refused.
Fail_Unsettled(w) ==
    /\ At(w, "fail")
    /\ FailCall(worker[w].call, worker[w].now) \/ UNCHANGED storeVars
    /\ Returned(w, "failed")
    /\ UNCHANGED <<clock, observed, egress, faults>>

Fail(w) ==
    /\ At(w, "fail")
    /\ FailCall(worker[w].call, worker[w].now)
    /\ Returned(w, "failed")
    /\ UNCHANGED <<clock, observed, egress, faults>>

\* The output is put into the artifact store, then the operation is completed.
Complete(w) ==
    LET m == worker[w].call
    IN  /\ At(w, "complete")
        /\ \E output \in 0..OutputBytes[m] :
              CompleteCall(m, FinalDecision(m, worker[w].now), output, worker[w].now)
        /\ Returned(w, "succeeded")
        /\ UNCHANGED <<clock, observed, egress, faults>>

StoreStep(w) == Prepare(w) \/ Start(w) \/ Resume(w) \/ Deny(w) \/ Fail(w) \/ Complete(w)

StorePoints == {"prepare", "start", "resume", "deny", "fail", "complete"}

\* A transaction the store refuses raises out of execute().
Refused(w) ==
    /\ worker[w].pc \in StorePoints
    /\ Raised(w)
    /\ UNCHANGED <<storeVars, clock, observed, egress, faults>>
    /\ ~ENABLED StoreStep(w)

\* The database or the artifact store fails: the transaction is rolled back.
StorageError(w) ==
    /\ worker[w].pc \in StorePoints
    /\ faults < MaxFaults
    /\ faults' = faults + 1
    /\ Raised(w)
    /\ UNCHANGED <<storeVars, clock, observed, egress>>

Crash(w) ==
    /\ ~At(w, "idle")
    /\ faults < MaxFaults
    /\ faults' = faults + 1
    /\ worker' = [worker EXCEPT ![w] = Idle]
    /\ UNCHANGED <<storeVars, clock, observed, egress>>

Execute(w) ==
    \/ Gate(w) \/ StoreStep(w) \/ Send(w) \/ Answer(w) \/ Refused(w)

-----------------------------------------------------------------------------
(* The operator's recovery of open calls, and time. *)

\* scan_started_model_invocations lists the STARTED fence of each call.
ScanStarted(m) ==
    /\ calls[m].state = "started"
    /\ observed[m] # calls[m].startedAt
    /\ observed' = [observed EXCEPT ![m] = calls[m].startedAt]
    /\ UNCHANGED <<storeVars, clock, worker, egress, faults>>

ResolveStarted(m) ==
    /\ observed[m] # None
    /\ ResolveAmbiguousCall(m, observed[m], clock)
    /\ UNCHANGED invVars

AbortPrepared(m) ==
    /\ \E reason \in {"cancelled", "deadline-expired", "endpoint-expired"} :
          AbortPreparedCall(m, reason, clock)
    /\ UNCHANGED invVars

Tick ==
    /\ clock < MaxTime
    /\ clock' = clock + 1
    /\ UNCHANGED <<storeVars, worker, observed, egress, faults>>

\* The wall clock is set back.
StepBack ==
    /\ faults < MaxFaults
    /\ faults' = faults + 1
    /\ clock' \in 0..(clock - 1)
    /\ UNCHANGED <<storeVars, worker, observed, egress>>

\* execute() returns to its caller, which may call again.
Return(w) ==
    /\ worker[w].pc \in {"returned", "raised"}
    /\ worker' = [worker EXCEPT ![w] = Idle]
    /\ UNCHANGED <<storeVars, clock, observed, egress, faults>>

Environment ==
    \/ Tick \/ StepBack
    \/ \E m \in Calls : ScanStarted(m) \/ ResolveStarted(m) \/ AbortPrepared(m)
    \/ \E w \in Workers : Crash(w) \/ StorageError(w)

InvNext ==
    \/ \E w \in Workers : Execute(w) \/ Return(w) \/ \E m \in Calls : Lookup(w, m)
    \/ Environment

InvSpec == InvInit /\ [][InvNext]_<<storeVars, invVars>>

-----------------------------------------------------------------------------
(* Properties. *)

\* "STARTED is no-retry": whatever crashes, reruns, recovered PREPAREs and
\* concurrent executions of the same request happen, it leaves the process at
\* most once, and only behind a committed STARTED fence.
AtMostOneEgress ==
    \A m \in Calls :
        /\ egress[m] <= 1
        /\ egress[m] = 1 => calls[m].state \notin {"none", "prepared"}

\* A request that reached the provider is charged its token ceiling once it is
\* settled, and one that was aborted before STARTED never reached it and is
\* charged nothing, although the provider call is outside every transaction.
EgressIsCharged ==
    \A m \in Calls :
        calls[m].state \in Terminal =>
            IF calls[m].state = "failed" /\ calls[m].reservation = "committed"
            THEN egress[m] = 0 /\ calls[m].charged = 0
            ELSE calls[m].charged = CallTokens[m]

\* What execute() returned is what the store holds, also when the call is
\* replayed or the result was settled by the resolver meanwhile.
ReturnIsDurable ==
    \A w \in Workers :
        At(w, "returned") => calls[worker[w].call].state = worker[w].result

\* "An ambiguous post-start invocation becomes a typed incomplete/failed
\* terminal condition": no call stays STARTED, whatever other calls of its run do.
StartedCallsSettle ==
    \A m \in Calls : calls[m].state = "started" ~> calls[m].state \in Terminal

\* Every prepared or started call is settled in the end, by its worker, a rerun
\* or the operator, with one exception: once a call whose outcome is not known has
\* failed the adapter, the reducer takes neither a second adapter.failed nor an
\* artifact, and another call that is STARTED stays so.
CallsSettle ==
    \A m \in Calls :
        calls[m].state \in {"prepared", "started"} ~>
            \/ calls[m].state \in Terminal
            \/ /\ calls[m].state = "started"
               /\ \E n \in Calls \ {m} : calls[n].reservation = "uncertain"
=============================================================================

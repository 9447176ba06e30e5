----------------------------- MODULE RunReducer -----------------------------
(***************************************************************************)
(* The pure run-event reducer (eco_runtime/state_reducer.py) that the      *)
(* in-memory event chain and the durable store share.                      *)
(*                                                                         *)
(* A projection is the content-free state of one run.  Reduce(p, e) is the *)
(* set of projections that event e leads to from p: one, or none when the  *)
(* code raises RuntimeStateError.  A subject is a tool request or, in a    *)
(* no-model run, a scope slot.  A digest is a model value.                 *)
(***************************************************************************)
EXTENDS Naturals, FiniteSets

CONSTANTS
    Tools,      \* tool-request identifiers
    Slots,      \* the scope slots of a no-model run ("slot-1".."slot-3")
    Requests,   \* semantic digests of plans and requests
    Contents,   \* digests of scope entries and of the contents read
    None        \* an absent value

ASSUME ReducerAssumption ==
    /\ None \notin Requests \cup Contents
    /\ Tools \cap Slots = {}
    /\ IsFiniteSet(Slots)

Subjects == Tools \cup Slots

TerminalStates == {"SUCCEEDED", "FAILED", "DENIED", "CANCELLED", "EXHAUSTED"}

\* RunProjection(state=...): a baseline with no tools, flags or no-model scope.
Baseline(state) ==
    [state     |-> state,
     phase     |-> [s \in Subjects |-> "absent"],
     subject   |-> [s \in Subjects |-> None],
     completed |-> FALSE,
     failed    |-> FALSE,
     exhausted |-> FALSE,
     noModel   |-> FALSE,
     workflow  |-> FALSE,
     plan      |-> None,
     scope     |-> [s \in Slots |-> None],
     content   |-> [s \in Slots |-> None],
     heading   |-> [s \in Slots |-> None]]

\* An event as the reducer sees it; fields a type does not use are None.
Event(type, subject, digest) ==
    [type |-> type, subject |-> subject, digest |-> digest,
     entry |-> None, scope |-> [s \in Slots |-> None],
     content |-> None, heading |-> None]

OpenTools(p) == \E s \in Subjects : p.phase[s] \in {"requested", "allowed"}

-----------------------------------------------------------------------------
(* Transitions of the run before it is RUNNING. *)

LifecycleMoves ==
    {<<"NEW",       "run.received",           "RECEIVED">>,
     <<"RECEIVED",  "run.validated",          "VALIDATED">>,
     <<"VALIDATED", "plan.created",           "PLANNED">>,
     <<"PLANNED",   "policy.allowed",         "AUTHORIZED">>,
     <<"PLANNED",   "policy.denied",          "DENIED">>,
     <<"PLANNED",   "no-model.policy.denied", "DENIED">>}
    \cup ({"RECEIVED", "VALIDATED", "PLANNED", "AUTHORIZED"}
             \X {"run.failed"} \X {"FAILED"})
    \cup ({"RECEIVED", "VALIDATED", "PLANNED", "AUTHORIZED"}
             \X {"run.cancelled"} \X {"CANCELLED"})

LifecycleStep(p, e) ==
    {[p EXCEPT !.state = m[3]] :
        m \in {m \in LifecycleMoves : m[1] = p.state /\ m[2] = e.type}}

NoModelAuthorize(p, e) ==
    {q \in {[p EXCEPT !.state = "AUTHORIZED", !.noModel = TRUE, !.plan = e.digest]} :
        /\ p.state = "PLANNED"
        /\ e.type = "no-model.policy.allowed"
        /\ e.digest # None}

AdapterStart(p, e) ==
    {q \in {[p EXCEPT !.state = "RUNNING"]} :
        /\ p.state = "AUTHORIZED"
        /\ e.type = "adapter.started"
        /\ ~p.noModel}

\* The scope entries name every slot once, with pairwise distinct digests.
ExactScope(scope) ==
    /\ \A s \in Slots : scope[s] # None
    /\ \A s, t \in Slots : scope[s] = scope[t] => s = t

WorkflowStart(p, e) ==
    {q \in {[p EXCEPT !.state = "RUNNING", !.workflow = TRUE, !.scope = e.scope]} :
        /\ p.state = "AUTHORIZED"
        /\ e.type = "no-model.workflow.started"
        /\ p.noModel
        /\ e.digest = p.plan
        /\ ExactScope(e.scope)}

-----------------------------------------------------------------------------
(* The no-model workflow of a RUNNING run. *)

ReadMoves ==
    {<<"requested", "no-model.read.allowed",   "allowed">>,
     <<"allowed",   "no-model.read.started",   "started">>,
     <<"requested", "no-model.read.denied",    "denied">>,
     <<"allowed",   "no-model.read.denied",    "denied">>,
     <<"allowed",   "no-model.read.failed",    "failed">>,
     <<"started",   "no-model.read.failed",    "failed">>,
     <<"started",   "no-model.read.completed", "completed">>}

\* A read event names a slot of the scope by its exact entry digest.
ReadBound(p, e) ==
    /\ e.subject \in Slots
    /\ p.scope[e.subject] = e.entry
    /\ e.digest # None

ReadRequest(p, e) ==
    {q \in {[p EXCEPT !.phase[e.subject] = "requested",
                      !.subject[e.subject] = e.digest]} :
        /\ e.type = "no-model.read.requested"
        /\ p.phase[e.subject] = "absent"}

ReadStep(p, e) ==
    {[p EXCEPT !.phase[e.subject] = m[3],
               !.content[e.subject] = IF m[3] = "completed" THEN e.content ELSE @,
               !.heading[e.subject] = IF m[3] = "completed" THEN e.heading ELSE @] :
        m \in {m \in ReadMoves :
                 /\ m[1] = p.phase[e.subject]
                 /\ m[2] = e.type
                 /\ p.subject[e.subject] = e.digest
                 /\ m[3] = "completed" => e.content # None /\ e.heading # None}}

AllReadsPass(p) ==
    /\ \A s \in Tools : p.phase[s] = "absent"
    /\ \A s \in Slots : p.phase[s] = "completed" /\ p.heading[s] = "pass"
    /\ \A s, t \in Slots : p.content[s] = p.content[t] => s = t

WorkflowSucceed(p, e) ==
    {q \in {[p EXCEPT !.state = "SUCCEEDED"]} :
        /\ e.type = "no-model.workflow.succeeded"
        /\ AllReadsPass(p)}

NoModelStep(p, e) ==
    (IF ReadBound(p, e) THEN ReadRequest(p, e) \cup ReadStep(p, e) ELSE {})
        \cup WorkflowSucceed(p, e)

-----------------------------------------------------------------------------
(* The adapter and tool lifecycles of a RUNNING run. *)

ToolMoves ==
    {<<"requested", "tool.allowed",   "allowed">>,
     <<"requested", "tool.denied",    "denied">>,
     <<"requested", "tool.cancelled", "cancelled">>,
     <<"allowed",   "tool.cancelled", "cancelled">>,
     <<"allowed",   "tool.completed", "completed">>,
     <<"allowed",   "tool.failed",    "failed">>}

ToolRequest(p, e) ==
    {q \in {[p EXCEPT !.phase[e.subject] = "requested",
                      !.subject[e.subject] = e.digest]} :
        /\ e.type = "tool.requested"
        /\ ~p.completed /\ ~p.failed /\ ~p.exhausted
        /\ p.phase[e.subject] = "absent"}

ToolStep(p, e) ==
    {[p EXCEPT !.phase[e.subject] = m[3]] :
        m \in {m \in ToolMoves : /\ m[1] = p.phase[e.subject]
                                 /\ m[2] = e.type
                                 /\ p.subject[e.subject] = e.digest}}

ToolLifecycle(p, e) ==
    IF e.subject \in Tools /\ e.digest # None
    THEN ToolRequest(p, e) \cup ToolStep(p, e)
    ELSE {}

\* Mutant: the adapter completes while tool requests are open.
AdapterComplete_Early(p, e) ==
    {q \in {[p EXCEPT !.completed = TRUE]} :
        /\ e.type = "adapter.completed"
        /\ ~p.completed /\ ~p.failed /\ ~p.exhausted}

AdapterComplete(p, e) ==
    {q \in {[p EXCEPT !.completed = TRUE]} :
        /\ e.type = "adapter.completed"
        /\ ~p.completed /\ ~p.failed /\ ~p.exhausted /\ ~OpenTools(p)}

AdapterFail(p, e) ==
    {q \in {[p EXCEPT !.failed = TRUE]} :
        /\ e.type = "adapter.failed"
        /\ ~p.completed /\ ~p.failed}

ArtifactRecord(p, e) ==
    {q \in {p} : e.type = "artifact.recorded" /\ ~p.failed /\ ~p.exhausted}

BudgetExhaust(p, e) ==
    {q \in {[p EXCEPT !.exhausted = TRUE]} :
        /\ e.type = "budget.exhausted"
        /\ ~p.exhausted /\ ~p.completed}

RunSucceed(p, e) ==
    {q \in {[p EXCEPT !.state = "SUCCEEDED"]} :
        /\ e.type = "run.succeeded"
        /\ p.completed /\ ~p.failed /\ ~p.exhausted /\ ~OpenTools(p)}

RunExhaust(p, e) ==
    {q \in {[p EXCEPT !.state = "EXHAUSTED"]} :
        e.type = "run.exhausted" /\ p.exhausted /\ ~OpenTools(p)}

AdapterStep(p, e) ==
    ToolLifecycle(p, e) \cup AdapterComplete(p, e) \cup AdapterFail(p, e)
        \cup ArtifactRecord(p, e) \cup BudgetExhaust(p, e)
        \cup RunSucceed(p, e) \cup RunExhaust(p, e)

\* run.failed and run.cancelled end either kind of run; a started read of a
\* no-model run does not block them, a requested or allowed one does.
RunStop(p, e) ==
    {[p EXCEPT !.state = m[2]] :
        m \in {m \in {<<"run.failed", "FAILED">>, <<"run.cancelled", "CANCELLED">>} :
                 m[1] = e.type /\ ~OpenTools(p)}}

RunningStep(p, e) ==
    RunStop(p, e) \cup (IF p.workflow THEN NoModelStep(p, e) ELSE AdapterStep(p, e))

Reduce(p, e) ==
    IF p.state = "RUNNING" THEN RunningStep(p, e)
    ELSE LifecycleStep(p, e) \cup NoModelAuthorize(p, e) \cup AdapterStart(p, e)
           \cup WorkflowStart(p, e)
=============================================================================

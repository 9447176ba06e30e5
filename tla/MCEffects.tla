------------------------------ MODULE MCEffects ------------------------------
(* The two kinds of governed effect that a fault can leave open, with the     *)
(* processes and operators that close them: model calls (ModelInvocation) and *)
(* a controlled write (ControlledWrite).  A behaviour has one kind.  The      *)
(* calls are two executions of one request, or one of each of two requests.   *)
EXTENDS ModelInvocation, TLC

CONSTANTS
    EffectKinds,        \* {"call", "write"}, or one of them
    MaxPairFaults,      \* bound on faults where two requests are executed
    MaxWriteFaults,     \* bound on faults of a write
    p1, m1, m2, w1, w2, o1, j1, g1, t1, r1, d1,
    Op, Proposal, Approval, Target, Run, Decision, Proc,
    TargetOf, DecisionOf, RunOf, OpRun, MaxOperations, ApprovalFor, MaxEpoch,
    JobOf, GrantOf, After, Bases, Edits, Opaque, NoContent, MaxEdits, Workloads,
    MaxTrouble, Timely

VARIABLES
    effect, request,
    proposals, approvals, operations, targetLocks, audit, lapsed,
    base, jobs, target, temp, flock, runActive, proc, edits, writeFaults, installs

Write == INSTANCE ControlledWrite WITH faults <- writeFaults, MaxFaults <- MaxWriteFaults

MCDecisions ==
    {<<"plan", p1, 0>>} \cup {<<"call", m, 0>> : m \in {m1, m2}}
    \cup ({"resume", "finalize"} \X {m1, m2} \X Times)

\* A decision is valid for two units from the time in its identifier.
MCExpiresAt == [d \in MCDecisions |-> d[3] + 2]
NoReads == [r \in {} |-> None]
MCCost == [m \in {m1, m2} |-> 1]

MCTargetOf == j1 :> t1
MCDecisionOf == j1 :> d1
MCRunOf == j1 :> r1
MCOpRun == o1 :> r1
MCMaxOperations == j1 :> 1
MCApprovalFor == g1 :> j1
MCJobOf == o1 :> j1
MCGrantOf == o1 :> g1
MCAfter == o1 :> "v1"

callVars == <<storeVars, invVars>>
writeVars == <<proposals, approvals, operations, targetLocks, audit, lapsed,
               base, jobs, target, temp, flock, runActive, proc, edits, writeFaults, installs>>
effectVars == <<effect, request, callVars, writeVars>>

OneRequest == [w \in Workers |-> m1]
TwoRequests == w1 :> m1 @@ w2 :> m2

EffectInit ==
    /\ effect \in EffectKinds
    /\ InvInit /\ request \in {OneRequest, TwoRequests}
    /\ Write!CWInit
    /\ IF effect = "call" THEN base = [t \in Target |-> NoContent] ELSE request = OneRequest

Call(A) == effect = "call" /\ A /\ UNCHANGED <<effect, request, writeVars>>
WriteFile(A) == effect = "write" /\ A /\ UNCHANGED <<effect, request, callVars, base, jobs>>

EffectNext ==
    \/ /\ Call(InvNext)
       /\ \A w \in Workers : worker'[w].call \in {request[w], None}
       /\ request = TwoRequests => faults' <= MaxPairFaults
    \/ WriteFile(Write!Step)

\* A live process runs execute() and recover() to their end, time passes and
\* leases lapse, and the operator keeps going through the recovery lists: scans,
\* resolves and aborts calls, and recovers what scan_recoverable returns.
EffectFairness ==
    /\ \A w \in Workers : WF_effectVars(Call(Execute(w) \/ Return(w)))
    /\ WF_effectVars(Call(Tick))
    /\ \A m \in Calls :
          /\ WF_effectVars(Call(ScanStarted(m)))
          /\ WF_effectVars(Call(ResolveStarted(m)))
          /\ WF_effectVars(Call(AbortPrepared(m)))
    /\ \A p \in Proc : WF_effectVars(WriteFile(Write!ProcStep(p)))
    /\ \A o \in Op :
          /\ WF_effectVars(WriteFile(Write!LeaseLapses(o)))
          /\ WF_effectVars(WriteFile(\E p \in Proc : Write!Claim(p, o)))

FairEffectSpec == EffectInit /\ [][EffectNext]_effectVars /\ EffectFairness

\* ControlledWrite's: a prepared create, and any write whose rollback proof is
\* durable, reaches a terminal state once recover is called (write_orchestrator.py
\* execute, recover).
EveryWriteResolves == effect = "write" => Write!EveryWriteResolves
=============================================================================

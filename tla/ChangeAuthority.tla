---------------------------- MODULE ChangeAuthority ----------------------------
(***************************************************************************)
(* SQLiteChangeAuthority (src/src/eco_runtime/change_store.py): the        *)
(* journal of single-file controlled writes.  Every method is one BEGIN    *)
(* IMMEDIATE transaction, so every action below is atomic; a call that     *)
(* raises rolls its transaction back and is a stuttering step.             *)
(*                                                                         *)
(* Data is abstracted to what authority decisions tell apart: digests and  *)
(* receipts become "recorded or not", the lease (owner, token, epoch,      *)
(* deadline) becomes the epoch, which is fresh for every holder, and       *)
(* whether the deadline has passed.                                        *)
(***************************************************************************)
EXTENDS Naturals, FiniteSets

CONSTANTS
    Op,             \* operation ids, one per (run, idempotency key)
    Proposal,       \* registered change proposals
    Approval,       \* signed approval envelopes
    Target,         \* target reference digests
    Run, Decision,  \* run ids, policy decision digests
    TargetOf, DecisionOf, RunOf, MaxOperations,   \* fields of a proposal
    ApprovalFor,    \* the proposal whose subject an approval signs
    OpRun,          \* the run an operation id is derived from
    MaxEpoch,       \* bound on the number of lease holders of an operation
    None            \* SQL NULL

ASSUME ProposalFields ==
    /\ TargetOf \in [Proposal -> Target]
    /\ DecisionOf \in [Proposal -> Decision]
    /\ RunOf \in [Proposal -> Run]
    /\ MaxOperations \in [Proposal -> Nat \ {0}]
    /\ ApprovalFor \in [Approval -> Proposal]
    /\ OpRun \in [Op -> Run]
ASSUME Bounds == MaxEpoch \in Nat \ {0}
ASSUME DistinctIds ==
    /\ None \notin Op \cup Proposal \cup Approval
    /\ Op \cap Approval = {}

VARIABLES
    proposals,      \* ids of the rows of table proposals
    approvals,      \* table approvals, by approval id
    operations,     \* table operations, by operation id
    targetLocks,    \* table target_locks, by target reference
    audit,          \* the row each entity had when it was last audited
    lapsed          \* approvals past expiresAt, operations past lease_until

authorityVars == <<proposals, approvals, operations, targetLocks, audit, lapsed>>

-----------------------------------------------------------------------------
(* Rows.  A row that is not in its table has state "none".                 *)

InFlight == {"prepared", "rollback_ready", "applying", "commit_ready",
             "rolling_back", "recovery_required"}
Terminal == {"committed", "rolled_back", "failed"}
LockRequired == InFlight \cup {"applied"}
OperationState == LockRequired \cup Terminal \cup {"none"}

OperationRow ==
    [state: OperationState, phase: {"apply", "rollback"},
     epoch: 0 .. MaxEpoch,
     leased: BOOLEAN,      \* the lease columns are not NULL
     proof: BOOLEAN,       \* before_proof_digest and execution_intent_digest
     receipt: BOOLEAN,     \* apply_receipt_digest
     reason: BOOLEAN,      \* recovery_reason_digest
     proposal: Proposal \cup {None}, approval: Approval \cup {None}]
ApprovalRow ==
    [state: {"none", "issued", "consumed"}, op: Op \cup {None}]
LockRow == [state: {"none", "active", "released"}, op: Op \cup {None}]

NoOperation ==
    [state |-> "none", phase |-> "apply", epoch |-> 0, leased |-> FALSE,
     proof |-> FALSE, receipt |-> FALSE, reason |-> FALSE,
     proposal |-> None, approval |-> None]

Exists(o) == operations[o].state # "none"
TargetOfOp(o) == TargetOf[operations[o].proposal]
LockedBy(t, o) == targetLocks[t].state = "active" /\ targetLocks[t].op = o

AuthorityInit ==
    /\ proposals = {}
    /\ approvals = [a \in Approval |-> [state |-> "none", op |-> None]]
    /\ operations = [o \in Op |-> NoOperation]
    /\ targetLocks = [t \in Target |-> [state |-> "none", op |-> None]]
    /\ audit = [approvals |-> approvals, operations |-> operations,
                locks |-> targetLocks]
    /\ lapsed = {}

-----------------------------------------------------------------------------
(* Issuing authority: proposals, approvals and the PREPARE transaction.    *)

RegisterProposal(p) ==
    /\ p \notin proposals
    /\ proposals' = proposals \cup {p}
    /\ UNCHANGED <<approvals, operations, targetLocks, audit, lapsed>>

RecordVerifiedGrant(a) ==
    /\ ApprovalFor[a] \in proposals
    /\ approvals[a].state = "none"
    /\ a \notin lapsed
    /\ approvals' = [approvals EXCEPT ![a].state = "issued"]
    /\ audit' = [audit EXCEPT !.approvals[a] = approvals'[a]]
    /\ UNCHANGED <<proposals, operations, targetLocks, lapsed>>

\* Wall time reaches the expiresAt of an approval or the lease_until of an
\* operation.  No row is written: both are comparisons made by later calls.
TimeLapses(x) ==
    /\ x \notin lapsed
    /\ x \in Op => operations[x].leased
    /\ lapsed' = lapsed \cup {x}
    /\ UNCHANGED <<proposals, approvals, operations, targetLocks, audit>>

OperationsOf(r) == {o \in Op : Exists(o) /\ OpRun[o] = r}

WithinBudget(p) == Cardinality(OperationsOf(RunOf[p])) < MaxOperations[p]

\* Wrong: a policy decision can be used again.
DecisionIgnored(p) == p \in Proposal
DecisionUnused(p) ==
    \A q \in Op : Exists(q) => DecisionOf[operations[q].proposal] # DecisionOf[p]

\* Wrong: the target's lock is not consulted.
TargetIgnored(p) == p \in Proposal
TargetFree(p) == targetLocks[TargetOf[p]].state # "active"

MayPrepare(o, p, a) ==
    /\ p \in proposals /\ ApprovalFor[a] = p /\ OpRun[o] = RunOf[p]
    /\ ~Exists(o)
    /\ WithinBudget(p)
    /\ approvals[a].state = "issued" /\ a \notin lapsed
    /\ DecisionUnused(p)
    /\ TargetFree(p)

PrepareOperation(o, p, a) ==
    /\ MayPrepare(o, p, a)
    /\ operations' = [operations EXCEPT ![o] =
                        [NoOperation EXCEPT !.state = "prepared", !.epoch = 1,
                            !.leased = TRUE, !.proposal = p, !.approval = a]]
    /\ approvals' = [approvals EXCEPT ![a].state = "consumed", ![a].op = o]
    /\ targetLocks' = [targetLocks EXCEPT ![TargetOf[p]] =
                         [state |-> "active", op |-> o]]
    /\ audit' = [audit EXCEPT !.approvals[a] = approvals'[a],
                              !.operations[o] = operations'[o],
                              !.locks[TargetOf[p]] = targetLocks'[TargetOf[p]]]
    /\ UNCHANGED <<proposals, lapsed>>

-----------------------------------------------------------------------------
(* Fenced transitions.                                                     *)

\* _require_lease: the caller presents the epoch it was given.
LeaseHeld(o, e) ==
    operations[o].leased /\ operations[o].epoch = e /\ o \notin lapsed

\* _set_lock, with the row of operation o
SetLock(o, active) ==
    LET t == TargetOfOp(o) IN
    /\ active => ~(targetLocks[t].state = "active" /\ targetLocks[t].op # o)
    /\ targetLocks' =
         IF active
         THEN [targetLocks EXCEPT ![t] = [state |-> "active", op |-> o]]
         ELSE IF targetLocks[t].op = o
              THEN [targetLocks EXCEPT ![t].state = "released"]
              ELSE targetLocks
    /\ audit' = [audit EXCEPT !.operations[o] = operations'[o],
                              !.locks[t] = targetLocks'[t]]

\* _transition.  A call that finds the row already in the target state
\* changes nothing, with or without the lease: it replays or raises.
Transition(o, e, allowed, row, lockActive) ==
    /\ operations[o].state \in allowed
    /\ LeaseHeld(o, e)
    /\ operations' = [operations EXCEPT ![o] = row]
    /\ SetLock(o, lockActive)
    /\ UNCHANGED <<proposals, approvals, lapsed>>

MarkRollbackReady(o, e) ==
    /\ operations[o].state = "recovery_required" => operations[o].phase = "apply"
    /\ Transition(o, e, {"prepared", "recovery_required"},
         [operations[o] EXCEPT !.state = "rollback_ready", !.phase = "apply",
                               !.proof = TRUE], TRUE)

MarkApplying(o, e) ==
    /\ operations[o].proof
    /\ Transition(o, e, {"rollback_ready"},
         [operations[o] EXCEPT !.state = "applying", !.phase = "apply"], TRUE)

MarkCommitReady(o, e) ==
    Transition(o, e, {"applying"},
      [operations[o] EXCEPT !.state = "commit_ready", !.phase = "apply"], TRUE)

MarkApplied(o, e) ==
    Transition(o, e, {"commit_ready"},
      [operations[o] EXCEPT !.state = "applied", !.receipt = TRUE], TRUE)

MarkCommitted(o, e) ==
    Transition(o, e, {"applied"},
      [operations[o] EXCEPT !.state = "committed", !.leased = FALSE], FALSE)

\* Wrong: the target is released before the rollback.
MarkRollingBackReleasing(o, e) ==
    Transition(o, e, {"applied", "recovery_required"},
      [operations[o] EXCEPT !.state = "rolling_back", !.phase = "rollback"], FALSE)

MarkRollingBack(o, e) ==
    Transition(o, e, {"applied", "recovery_required"},
      [operations[o] EXCEPT !.state = "rolling_back", !.phase = "rollback"], TRUE)

\* Wrong: a state the schema does not have.
MarkRolledBackMisspelt(o, e) ==
    Transition(o, e, {"rolling_back"},
      [operations[o] EXCEPT !.state = "rolledback", !.leased = FALSE], FALSE)

MarkRolledBack(o, e) ==
    Transition(o, e, {"rolling_back"},
      [operations[o] EXCEPT !.state = "rolled_back", !.leased = FALSE], FALSE)

MarkFailed(o, e) ==
    Transition(o, e, InFlight,
      [operations[o] EXCEPT !.state = "failed", !.leased = FALSE], FALSE)

MarkRecoveryRequired(o, e) ==
    Transition(o, e, LockRequired \ {"recovery_required"},
      [operations[o] EXCEPT
         !.state = "recovery_required",
         !.phase = IF operations[o].state \in {"applied", "rolling_back"}
                   THEN "rollback" ELSE "apply",
         !.reason = TRUE], TRUE)

RecordRecoveryConflict(o, e) ==
    /\ operations[o].state = "recovery_required"
    /\ LeaseHeld(o, e)
    /\ operations' = [operations EXCEPT ![o].reason = TRUE]
    /\ audit' = [audit EXCEPT !.operations[o] = operations'[o]]
    /\ UNCHANGED <<proposals, approvals, targetLocks, lapsed>>

\* assert_operation_lease(required_state), the check made before rollback I/O
AssertOperationLease(o, e, required) ==
    operations[o].state = required /\ LeaseHeld(o, e)

-----------------------------------------------------------------------------
(* Recovery: a new holder takes over once the deadline has passed.         *)

\* Wrong: a finished operation, whose lease is NULL, can be claimed.
ClaimAnyOperation(o) ==
    /\ Exists(o)
    /\ operations[o].leased => o \in lapsed
    /\ operations[o].epoch < MaxEpoch
    /\ operations' = [operations EXCEPT ![o].state = "recovery_required",
                                        ![o].epoch = @ + 1, ![o].leased = TRUE]
    /\ lapsed' = lapsed \ {o}
    /\ audit' = [audit EXCEPT !.operations[o] = operations'[o]]
    /\ UNCHANGED <<proposals, approvals, targetLocks>>

ClaimOperation(o) ==
    /\ operations[o].state \in LockRequired
    /\ operations[o].leased => o \in lapsed
    /\ operations[o].epoch < MaxEpoch
    /\ operations' =
         [operations EXCEPT
            ![o].state = "recovery_required",
            ![o].phase = IF operations[o].state \in {"applied", "rolling_back"}
                         THEN "rollback" ELSE @,
            ![o].epoch = @ + 1,
            ![o].leased = TRUE]
    /\ lapsed' = lapsed \ {o}
    /\ audit' = [audit EXCEPT !.operations[o] = operations'[o]]
    /\ UNCHANGED <<proposals, approvals, targetLocks>>

AuthorityNext ==
    \/ \E p \in Proposal : RegisterProposal(p)
    \/ \E a \in Approval : RecordVerifiedGrant(a)
    \/ \E o \in Op, p \in Proposal, a \in Approval : PrepareOperation(o, p, a)
    \/ \E o \in Op, e \in 0 .. MaxEpoch :
         \/ MarkRollbackReady(o, e) \/ MarkApplying(o, e) \/ MarkCommitReady(o, e)
         \/ MarkApplied(o, e) \/ MarkCommitted(o, e)
         \/ MarkRollingBack(o, e) \/ MarkRolledBack(o, e)
         \/ MarkFailed(o, e) \/ MarkRecoveryRequired(o, e)
         \/ RecordRecoveryConflict(o, e)
    \/ \E o \in Op : ClaimOperation(o)
    \/ \E x \in Approval \cup Op : TimeLapses(x)

AuthoritySpec == AuthorityInit /\ [][AuthorityNext]_authorityVars

-----------------------------------------------------------------------------
(* Properties.                                                             *)

\* Every table holds rows of its schema.
AuthorityTypeOK ==
    /\ proposals \subseteq Proposal
    /\ approvals \in [Approval -> ApprovalRow]
    /\ operations \in [Op -> OperationRow]
    /\ targetLocks \in [Target -> LockRow]
    /\ audit \in [approvals: [Approval -> ApprovalRow],
                  operations: [Op -> OperationRow],
                  locks: [Target -> LockRow]]
    /\ lapsed \subseteq Approval \cup Op

\* The two lock loops of verify(): an operation in a state that needs its
\* target holds the target's active lock, and an active lock is held by
\* such an operation.  Whatever calls are made, in whatever order, the store
\* never refuses to reopen because of its locks.
LocksMatchOperations ==
    /\ \A o \in Op : operations[o].state \in LockRequired
                       => LockedBy(TargetOfOp(o), o)
    /\ \A t \in Target : targetLocks[t].state = "active" =>
         /\ targetLocks[t].op \in Op
         /\ operations[targetLocks[t].op].state \in LockRequired
         /\ TargetOfOp(targetLocks[t].op) = t

\* Single use of authority (prepare_operation): an approval is consumed by
\* exactly the operation that names it, and no two operations, whatever
\* retries, recoveries and failures happened to them, were prepared from the
\* same approval or from the same policy decision.
AuthorityIsSingleUse ==
    /\ \A o \in Op : Exists(o) =>
         /\ operations[o].proposal \in proposals
         /\ ApprovalFor[operations[o].approval] = operations[o].proposal
         /\ approvals[operations[o].approval].state = "consumed"
         /\ approvals[operations[o].approval].op = o
    /\ \A a \in Approval : approvals[a].state = "consumed" =>
         /\ approvals[a].op \in Op
         /\ Exists(approvals[a].op)
         /\ operations[approvals[a].op].approval = a
    /\ \A o, q \in Op : Exists(o) /\ Exists(q) /\ o # q =>
         DecisionOf[operations[o].proposal] # DecisionOf[operations[q].proposal]

\* The audit clause of verify(): the newest audit entry of every entity
\* digests the entity's current row, so no path changes a row unaudited.
AuditIsCurrent ==
    /\ audit.approvals = approvals
    /\ audit.operations = operations
    /\ audit.locks = targetLocks

\* A terminal operation is final: no later call, however stale or fenced its
\* caller, changes its row, and the target it released is never locked for it
\* again (terminal rows clear their lease in _transition).
TerminalIsFinal ==
    [][\A o \in Op : operations[o].state \in Terminal =>
         /\ operations'[o] = operations[o]
         /\ ~LockedBy(TargetOfOp(o), o)']_authorityVars
=============================================================================

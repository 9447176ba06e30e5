------------------------ MODULE ChangeAuthorityProofs ------------------------
(***************************************************************************)
(* What the change authority guarantees for every number of operations,    *)
(* proposals, approvals and targets, whatever its callers do.              *)
(***************************************************************************)
EXTENDS ChangeAuthority, TLAPS

\* The operation rows carry the proposal and the approval they were prepared
\* from: what the other conjuncts need to speak about TargetOfOp and DecisionOf.
RowsAreBound ==
    \A o \in Op : Exists(o) =>
        /\ operations[o].proposal \in Proposal
        /\ operations[o].approval \in Approval

\* The inductive invariant: tables of the right shape whose locks, approvals
\* and audit entries agree with the operation rows.
AuthorityInv ==
    /\ AuthorityTypeOK
    /\ RowsAreBound
    /\ LocksMatchOperations
    /\ AuthorityIsSingleUse
    /\ AuditIsCurrent

-----------------------------------------------------------------------------

\* The empty store satisfies the invariant.
LEMMA InitEstablishes == AuthorityInit => AuthorityInv
  <1> SUFFICES ASSUME AuthorityInit PROVE AuthorityInv
    OBVIOUS
  <1>1. AuthorityTypeOK
    BY Bounds DEF AuthorityInit, AuthorityTypeOK, NoOperation, OperationRow,
       ApprovalRow, LockRow, OperationState
  <1>2. RowsAreBound /\ LocksMatchOperations
    BY DEF AuthorityInit, RowsAreBound, LocksMatchOperations, NoOperation,
       Exists, LockRequired, InFlight
  <1>3. AuthorityIsSingleUse /\ AuditIsCurrent
    BY DEF AuthorityInit, AuthorityIsSingleUse, AuditIsCurrent, NoOperation, Exists
  <1> QED
    BY <1>1, <1>2, <1>3 DEF AuthorityInv

\* Every fenced transition of an operation that holds its target: the row
\* keeps its bindings, and the lock is kept when the new state needs it and
\* released when the new state is terminal.
LEMMA TransitionPreserves ==
    ASSUME AuthorityInv,
           NEW o \in Op, NEW e, NEW allowed, NEW row \in OperationRow,
           NEW active \in BOOLEAN,
           allowed \subseteq LockRequired,
           row.proposal = operations[o].proposal,
           row.approval = operations[o].approval,
           row.state \in (IF active THEN LockRequired ELSE Terminal),
           Transition(o, e, allowed, row, active)
    PROVE  AuthorityInv'
  <1> DEFINE t == TargetOfOp(o)
  <1>1. /\ operations[o].state \in LockRequired
        /\ operations' = [operations EXCEPT ![o] = row]
        /\ SetLock(o, active)
        /\ UNCHANGED <<proposals, approvals, lapsed>>
    BY DEF Transition
  <1>2. Exists(o)
    BY <1>1 DEF Exists, LockRequired, InFlight
  <1>3. t \in Target /\ LockedBy(t, o)
    BY <1>1, <1>2, ProposalFields
       DEF AuthorityInv, RowsAreBound, LocksMatchOperations, TargetOfOp
  <1>4. operations' \in [Op -> OperationRow] /\ operations'[o] = row
    BY <1>1 DEF AuthorityInv, AuthorityTypeOK
  <1>5. \A q \in Op : q # o => operations'[q] = operations[q]
    BY <1>1 DEF AuthorityInv, AuthorityTypeOK
  <1>6. row.state # "none"
    BY DEF LockRequired, InFlight, Terminal
  <1>7. \A q \in Op : /\ Exists(q)' <=> Exists(q)
                      /\ operations'[q].proposal = operations[q].proposal
                      /\ operations'[q].approval = operations[q].approval
                      /\ TargetOfOp(q)' = TargetOfOp(q)
    BY <1>2, <1>4, <1>5, <1>6 DEF Exists, TargetOfOp
  <1>8. targetLocks' = [targetLocks EXCEPT ![t] =
           [state |-> IF active THEN "active" ELSE "released", op |-> o]]
    <2>1. /\ targetLocks \in [Target -> LockRow]
          /\ targetLocks[t].op = o
      BY <1>3 DEF LockedBy, AuthorityInv, AuthorityTypeOK
    <2>2. CASE active
      BY <1>1, <2>1, <2>2 DEF SetLock
    <2>3. CASE ~active
      <3>1. targetLocks' = [targetLocks EXCEPT ![t].state = "released"]
        BY <1>1, <2>1, <2>3 DEF SetLock
      <3>2. [targetLocks[t] EXCEPT !.state = "released"] = [state |-> "released", op |-> o]
        BY <1>3, <2>1 DEF LockRow
      <3> QED
        BY <2>1, <2>3, <3>1, <3>2
    <2> QED
      BY <2>2, <2>3
  <1>9. targetLocks' \in [Target -> LockRow]
    BY <1>3, <1>8 DEF AuthorityInv, AuthorityTypeOK, LockRow
  <1>10. audit' = [audit EXCEPT !.operations[o] = operations'[o],
                                !.locks[t] = targetLocks'[t]]
    BY <1>1 DEF SetLock
  <1>11. AuditIsCurrent'
    <2>1. audit.operations = operations /\ audit.locks = targetLocks
          /\ audit.approvals = approvals
      BY DEF AuthorityInv, AuditIsCurrent
    <2>2. audit'.approvals = approvals'
      BY <1>1, <1>10, <2>1 DEF AuthorityInv, AuthorityTypeOK
    <2>3. audit'.operations = operations'
      BY <1>1, <1>4, <1>10, <2>1 DEF AuthorityInv, AuthorityTypeOK
    <2>4. audit'.locks = targetLocks'
      BY <1>3, <1>8, <1>9, <1>10, <2>1 DEF AuthorityInv, AuthorityTypeOK
    <2> QED
      BY <2>2, <2>3, <2>4 DEF AuditIsCurrent
  <1>12. AuthorityTypeOK'
    BY <1>1, <1>3, <1>4, <1>9, <1>10 DEF AuthorityInv, AuthorityTypeOK
  <1>13. RowsAreBound'
    BY <1>7 DEF AuthorityInv, RowsAreBound
  <1>14. LocksMatchOperations'
    <2>1. \A q \in Op : q # o /\ operations[q].state \in LockRequired
                          => TargetOfOp(q) # t
      BY <1>3 DEF AuthorityInv, LocksMatchOperations, LockedBy
    <2>2. ASSUME NEW q \in Op, operations'[q].state \in LockRequired
          PROVE  LockedBy(TargetOfOp(q), q)'
      <3>1. CASE q = o
        <4>1. active = TRUE
          BY <1>4, <2>2, <3>1 DEF LockRequired, InFlight, Terminal
        <4> QED
          BY <1>3, <1>7, <1>8, <1>9, <3>1, <4>1
             DEF LockedBy, AuthorityInv, AuthorityTypeOK
      <3>2. CASE q # o
        <4>1. operations[q].state \in LockRequired
          BY <1>5, <2>2, <3>2
        <4>2. LockedBy(TargetOfOp(q), q) /\ TargetOfOp(q) # t /\ TargetOfOp(q) \in Target
          BY <2>1, <3>2, <4>1, ProposalFields
             DEF AuthorityInv, LocksMatchOperations, RowsAreBound, Exists,
                 TargetOfOp, LockRequired, InFlight
        <4> QED
          BY <1>3, <1>7, <1>8, <4>2 DEF LockedBy, AuthorityInv, AuthorityTypeOK
      <3> QED
        BY <3>1, <3>2
    <2>3. ASSUME NEW u \in Target, targetLocks'[u].state = "active"
          PROVE  /\ targetLocks'[u].op \in Op
                 /\ operations'[targetLocks'[u].op].state \in LockRequired
                 /\ TargetOfOp(targetLocks[u].op)' = u
      <3>1. CASE u = t
        <4>1. active = TRUE /\ targetLocks'[u].op = o
          BY <1>3, <1>8, <2>3, <3>1 DEF AuthorityInv, AuthorityTypeOK
        <4> QED
          BY <1>4, <1>7, <3>1, <4>1
      <3>2. CASE u # t
        <4>1. targetLocks'[u] = targetLocks[u]
          BY <1>8, <3>2 DEF AuthorityInv, AuthorityTypeOK
        <4>2. /\ targetLocks[u].op \in Op
              /\ operations[targetLocks[u].op].state \in LockRequired
              /\ TargetOfOp(targetLocks[u].op) = u
          BY <2>3, <4>1 DEF AuthorityInv, LocksMatchOperations
        <4>3. targetLocks[u].op # o
          BY <3>2, <4>2
        <4> QED
          BY <1>5, <1>7, <4>1, <4>2, <4>3
      <3> QED
        BY <3>1, <3>2
    <2> QED
      BY <2>2, <2>3 DEF LocksMatchOperations
  <1>15. AuthorityIsSingleUse'
    BY <1>1, <1>7 DEF AuthorityInv, AuthorityIsSingleUse, AuthorityTypeOK, ApprovalRow
  <1> QED
    BY <1>11, <1>12, <1>13, <1>14, <1>15 DEF AuthorityInv

\* The transitions of an operation row, each with the row it writes and the
\* lock it keeps or releases.
LEMMA MarksPreserve ==
    ASSUME AuthorityInv, NEW o \in Op, NEW e \in 0 .. MaxEpoch,
           \/ MarkRollbackReady(o, e) \/ MarkApplying(o, e) \/ MarkCommitReady(o, e)
           \/ MarkApplied(o, e) \/ MarkCommitted(o, e)
           \/ MarkRollingBack(o, e) \/ MarkRolledBack(o, e)
           \/ MarkFailed(o, e) \/ MarkRecoveryRequired(o, e)
    PROVE  AuthorityInv'
  <1> operations[o] \in OperationRow
    BY DEF AuthorityInv, AuthorityTypeOK
  <1> DEFINE Keeps(row, active) ==
         /\ row \in OperationRow
         /\ row.proposal = operations[o].proposal
         /\ row.approval = operations[o].approval
         /\ row.state \in (IF active THEN LockRequired ELSE Terminal)
  <1> USE DEF OperationState, LockRequired, InFlight, Terminal
  <1>1. CASE MarkRollbackReady(o, e)
    <2> DEFINE row == [operations[o] EXCEPT !.state = "rollback_ready", !.phase = "apply", !.proof = TRUE]
    <2>1. Keeps(row, TRUE)
      BY DEF OperationRow
    <2>2. Transition(o, e, {"prepared", "recovery_required"}, row, TRUE)
      BY <1>1 DEF MarkRollbackReady
    <2> QED
      BY <2>1, <2>2, TransitionPreserves
  <1>2. CASE MarkApplying(o, e)
    <2> DEFINE row == [operations[o] EXCEPT !.state = "applying", !.phase = "apply"]
    <2>1. Keeps(row, TRUE)
      BY DEF OperationRow
    <2>2. Transition(o, e, {"rollback_ready"}, row, TRUE)
      BY <1>2 DEF MarkApplying
    <2> QED
      BY <2>1, <2>2, TransitionPreserves
  <1>3. CASE MarkCommitReady(o, e)
    <2> DEFINE row == [operations[o] EXCEPT !.state = "commit_ready", !.phase = "apply"]
    <2>1. Keeps(row, TRUE)
      BY DEF OperationRow
    <2>2. Transition(o, e, {"applying"}, row, TRUE)
      BY <1>3 DEF MarkCommitReady
    <2> QED
      BY <2>1, <2>2, TransitionPreserves
  <1>4. CASE MarkApplied(o, e)
    <2> DEFINE row == [operations[o] EXCEPT !.state = "applied", !.receipt = TRUE]
    <2>1. Keeps(row, TRUE)
      BY DEF OperationRow
    <2>2. Transition(o, e, {"commit_ready"}, row, TRUE)
      BY <1>4 DEF MarkApplied
    <2> QED
      BY <2>1, <2>2, TransitionPreserves
  <1>5. CASE MarkCommitted(o, e)
    <2> DEFINE row == [operations[o] EXCEPT !.state = "committed", !.leased = FALSE]
    <2>1. Keeps(row, FALSE)
      BY DEF OperationRow
    <2>2. Transition(o, e, {"applied"}, row, FALSE)
      BY <1>5 DEF MarkCommitted
    <2> QED
      BY <2>1, <2>2, TransitionPreserves
  <1>6. CASE MarkRollingBack(o, e)
    <2> DEFINE row == [operations[o] EXCEPT !.state = "rolling_back", !.phase = "rollback"]
    <2>1. Keeps(row, TRUE)
      BY DEF OperationRow
    <2>2. Transition(o, e, {"applied", "recovery_required"}, row, TRUE)
      BY <1>6 DEF MarkRollingBack
    <2> QED
      BY <2>1, <2>2, TransitionPreserves
  <1>7. CASE MarkRolledBack(o, e)
    <2> DEFINE row == [operations[o] EXCEPT !.state = "rolled_back", !.leased = FALSE]
    <2>1. Keeps(row, FALSE)
      BY DEF OperationRow
    <2>2. Transition(o, e, {"rolling_back"}, row, FALSE)
      BY <1>7 DEF MarkRolledBack
    <2> QED
      BY <2>1, <2>2, TransitionPreserves
  <1>8. CASE MarkFailed(o, e)
    <2> DEFINE row == [operations[o] EXCEPT !.state = "failed", !.leased = FALSE]
    <2>1. Keeps(row, FALSE)
      BY DEF OperationRow
    <2>2. Transition(o, e, InFlight, row, FALSE)
      BY <1>8 DEF MarkFailed
    <2> QED
      BY <2>1, <2>2, TransitionPreserves
  <1>9. CASE MarkRecoveryRequired(o, e)
    <2> DEFINE row == [operations[o] EXCEPT
           !.state = "recovery_required",
           !.phase = IF operations[o].state \in {"applied", "rolling_back"}
                     THEN "rollback" ELSE "apply",
           !.reason = TRUE]
    <2>1. Keeps(row, TRUE)
      BY DEF OperationRow
    <2>2. Transition(o, e, LockRequired \ {"recovery_required"}, row, TRUE)
      BY <1>9 DEF MarkRecoveryRequired
    <2> QED
      BY <2>1, <2>2, TransitionPreserves
  <1> QED
    BY <1>1, <1>2, <1>3, <1>4, <1>5, <1>6, <1>7, <1>8, <1>9

\* PREPARE consumes an issued approval and an unused decision, and takes a
\* free target lock.
LEMMA PreparePreserves ==
    ASSUME AuthorityInv, NEW o \in Op, NEW p \in Proposal, NEW a \in Approval,
           PrepareOperation(o, p, a)
    PROVE  AuthorityInv'
  <1> DEFINE t == TargetOf[p]
  <1> DEFINE row == [NoOperation EXCEPT !.state = "prepared", !.epoch = 1,
                       !.leased = TRUE, !.proposal = p, !.approval = a]
  <1>1. /\ MayPrepare(o, p, a)
        /\ operations' = [operations EXCEPT ![o] = row]
        /\ approvals' = [approvals EXCEPT ![a].state = "consumed", ![a].op = o]
        /\ targetLocks' = [targetLocks EXCEPT ![t] = [state |-> "active", op |-> o]]
        /\ audit' = [audit EXCEPT !.approvals[a] = approvals'[a],
                                  !.operations[o] = operations'[o],
                                  !.locks[t] = targetLocks'[t]]
        /\ UNCHANGED <<proposals, lapsed>>
    BY DEF PrepareOperation
  <1>2. t \in Target
    BY ProposalFields
  <1>3. row \in OperationRow /\ row.state = "prepared"
        /\ row.proposal = p /\ row.approval = a
    <2>1. NoOperation \in OperationRow
      BY Bounds DEF NoOperation, OperationRow, OperationState
    <2>2. 1 \in 0 .. MaxEpoch
      BY Bounds
    <2> QED
      BY <2>1, <2>2 DEF OperationRow, OperationState, LockRequired, InFlight
  <1> HIDE DEF row
  <1>4. /\ operations' \in [Op -> OperationRow] /\ operations'[o] = row
        /\ \A q \in Op : q # o => operations'[q] = operations[q]
    BY <1>1, <1>3 DEF AuthorityInv, AuthorityTypeOK
  <1>5. /\ approvals' \in [Approval -> ApprovalRow]
        /\ approvals'[a].state = "consumed" /\ approvals'[a].op = o
        /\ \A b \in Approval : b # a => approvals'[b] = approvals[b]
    BY <1>1 DEF AuthorityInv, AuthorityTypeOK, ApprovalRow
  <1>6. /\ targetLocks' \in [Target -> LockRow]
        /\ LockedBy(t, o)'
        /\ \A u \in Target : u # t => targetLocks'[u] = targetLocks[u]
    BY <1>1, <1>2 DEF AuthorityInv, AuthorityTypeOK, LockRow, LockedBy
  <1>7. AuditIsCurrent'
    <2>1. audit.operations = operations /\ audit.locks = targetLocks
          /\ audit.approvals = approvals
      BY DEF AuthorityInv, AuditIsCurrent
    <2>2. /\ audit' = [audit EXCEPT !.approvals = [@ EXCEPT ![a] = approvals'[a]],
                                    !.operations = [@ EXCEPT ![o] = operations'[o]],
                                    !.locks = [@ EXCEPT ![t] = targetLocks'[t]]]
      BY <1>1
    <2>3. audit'.approvals = [approvals EXCEPT ![a] = approvals'[a]]
      BY <2>1, <2>2 DEF AuthorityInv, AuthorityTypeOK
    <2>4. audit'.operations = [operations EXCEPT ![o] = operations'[o]]
      BY <2>1, <2>2 DEF AuthorityInv, AuthorityTypeOK
    <2>5. audit'.locks = [targetLocks EXCEPT ![t] = targetLocks'[t]]
      BY <2>1, <2>2 DEF AuthorityInv, AuthorityTypeOK
    <2>6. audit'.approvals = approvals'
      BY <1>5, <2>3 DEF AuthorityInv, AuthorityTypeOK
    <2>7. audit'.operations = operations'
      BY <1>4, <2>4 DEF AuthorityInv, AuthorityTypeOK
    <2>8. audit'.locks = targetLocks'
      BY <1>6, <2>5 DEF AuthorityInv, AuthorityTypeOK
    <2> QED
      BY <2>6, <2>7, <2>8 DEF AuditIsCurrent
  <1>8. AuthorityTypeOK'
    <2>1. audit' \in [approvals: [Approval -> ApprovalRow],
                      operations: [Op -> OperationRow],
                      locks: [Target -> LockRow]]
      BY <1>1, <1>2, <1>4, <1>5, <1>6 DEF AuthorityInv, AuthorityTypeOK
    <2> QED
      BY <1>1, <1>4, <1>5, <1>6, <2>1 DEF AuthorityInv, AuthorityTypeOK
  <1>9. RowsAreBound'
    BY <1>3, <1>4 DEF AuthorityInv, RowsAreBound, Exists
  <1>10. ~Exists(o) /\ targetLocks[t].state # "active"
    BY <1>1 DEF MayPrepare, DecisionUnused, TargetFree
  <1>11. LocksMatchOperations'
    <2>1. ASSUME NEW q \in Op, operations'[q].state \in LockRequired
          PROVE  LockedBy(TargetOfOp(q), q)'
      <3>1. CASE q = o
        BY <1>3, <1>4, <1>6, <3>1 DEF TargetOfOp
      <3>2. CASE q # o
        <4>1. LockedBy(TargetOfOp(q), q) /\ TargetOfOp(q) \in Target
          BY <1>4, <2>1, <3>2, ProposalFields
             DEF AuthorityInv, LocksMatchOperations, RowsAreBound, Exists,
                 TargetOfOp, LockRequired, InFlight
        <4> QED
          BY <1>4, <1>6, <1>10, <3>2, <4>1 DEF LockedBy, TargetOfOp
      <3> QED
        BY <3>1, <3>2
    <2>2. ASSUME NEW u \in Target, targetLocks'[u].state = "active"
          PROVE  /\ targetLocks'[u].op \in Op
                 /\ operations'[targetLocks'[u].op].state \in LockRequired
                 /\ TargetOfOp(targetLocks[u].op)' = u
      <3>1. CASE u = t
        BY <1>3, <1>4, <1>6, <3>1 DEF LockedBy, TargetOfOp, LockRequired, InFlight
      <3>2. CASE u # t
        <4>1. /\ targetLocks'[u] = targetLocks[u]
              /\ targetLocks[u].op \in Op
              /\ operations[targetLocks[u].op].state \in LockRequired
              /\ TargetOfOp(targetLocks[u].op) = u
          BY <1>6, <2>2, <3>2 DEF AuthorityInv, LocksMatchOperations
        <4>2. targetLocks[u].op # o
          BY <1>10, <4>1 DEF Exists, LockRequired, InFlight
        <4> QED
          BY <1>4, <4>1, <4>2 DEF TargetOfOp
      <3> QED
        BY <3>1, <3>2
    <2> QED
      BY <2>1, <2>2 DEF LocksMatchOperations
  <1>12. AuthorityIsSingleUse'
    <2>1. /\ p \in proposals /\ ApprovalFor[a] = p /\ approvals[a].state = "issued"
          /\ \A q \in Op : Exists(q) =>
               DecisionOf[operations[q].proposal] # DecisionOf[p]
      BY <1>1 DEF MayPrepare, DecisionUnused, TargetFree
    <2>2. ASSUME NEW q \in Op, Exists(q)'
          PROVE  /\ operations'[q].proposal \in proposals'
                 /\ ApprovalFor[operations'[q].approval] = operations'[q].proposal
                 /\ approvals'[operations'[q].approval].state = "consumed"
                 /\ approvals'[operations'[q].approval].op = q
      <3>1. CASE q = o
        BY <1>1, <1>3, <1>4, <1>5, <2>1, <3>1
      <3>2. CASE q # o
        <4>1. Exists(q) /\ operations'[q] = operations[q]
          BY <1>4, <2>2, <3>2 DEF Exists
        <4>2. operations[q].approval \in Approval /\ operations[q].approval # a
          BY <2>1, <4>1 DEF AuthorityInv, AuthorityIsSingleUse, RowsAreBound
        <4> QED
          BY <1>1, <1>5, <4>1, <4>2 DEF AuthorityInv, AuthorityIsSingleUse
      <3> QED
        BY <3>1, <3>2
    <2>3. ASSUME NEW b \in Approval, approvals'[b].state = "consumed"
          PROVE  /\ approvals'[b].op \in Op
                 /\ Exists(approvals[b].op)'
                 /\ operations'[approvals'[b].op].approval = b
      <3>1. CASE b = a
        BY <1>3, <1>4, <1>5, <3>1 DEF Exists
      <3>2. CASE b # a
        <4>1. /\ approvals'[b] = approvals[b]
              /\ approvals[b].op \in Op /\ Exists(approvals[b].op)
              /\ operations[approvals[b].op].approval = b
          BY <1>5, <2>3, <3>2 DEF AuthorityInv, AuthorityIsSingleUse
        <4>2. approvals[b].op # o
          BY <1>10, <4>1
        <4> QED
          BY <1>4, <4>1, <4>2 DEF Exists
      <3> QED
        BY <3>1, <3>2
    <2>4. ASSUME NEW q \in Op, NEW r \in Op, Exists(q)', Exists(r)', q # r
          PROVE  DecisionOf[operations'[q].proposal] # DecisionOf[operations'[r].proposal]
      <3>1. CASE q = o
        BY <1>3, <1>4, <2>1, <2>4, <3>1 DEF Exists
      <3>2. CASE r = o
        BY <1>3, <1>4, <2>1, <2>4, <3>2 DEF Exists
      <3>3. CASE q # o /\ r # o
        BY <1>4, <2>4, <3>3 DEF AuthorityInv, AuthorityIsSingleUse, Exists
      <3> QED
        BY <3>1, <3>2, <3>3
    <2> QED
      BY <2>2, <2>3, <2>4 DEF AuthorityIsSingleUse
  <1> QED
    BY <1>7, <1>8, <1>9, <1>11, <1>12 DEF AuthorityInv

\* Every call preserves the invariant.
LEMMA NextPreserves == AuthorityInv /\ [AuthorityNext]_authorityVars => AuthorityInv'
  <1> SUFFICES ASSUME AuthorityInv, [AuthorityNext]_authorityVars
               PROVE  AuthorityInv'
    OBVIOUS
  <1>1. ASSUME NEW p \in Proposal, RegisterProposal(p)
        PROVE  AuthorityInv'
    <2>1. /\ proposals' = proposals \cup {p}
          /\ UNCHANGED <<approvals, operations, targetLocks, audit, lapsed>>
      BY <1>1 DEF RegisterProposal
    <2>2. AuthorityTypeOK' /\ RowsAreBound' /\ AuditIsCurrent'
      BY <2>1 DEF AuthorityInv, AuthorityTypeOK, RowsAreBound, AuditIsCurrent, Exists
    <2>3. LocksMatchOperations' /\ AuthorityIsSingleUse'
      BY <2>1 DEF AuthorityInv, LocksMatchOperations, LockedBy, TargetOfOp,
                  AuthorityIsSingleUse, Exists
    <2> QED
      BY <2>2, <2>3 DEF AuthorityInv
  <1>2. ASSUME NEW a \in Approval, RecordVerifiedGrant(a)
        PROVE  AuthorityInv'
    <2>1. /\ approvals[a].state = "none"
          /\ approvals' = [approvals EXCEPT ![a].state = "issued"]
          /\ audit' = [audit EXCEPT !.approvals[a] = approvals'[a]]
          /\ UNCHANGED <<proposals, operations, targetLocks, lapsed>>
      BY <1>2 DEF RecordVerifiedGrant
    <2>2. /\ approvals' \in [Approval -> ApprovalRow]
          /\ approvals'[a].state = "issued"
          /\ \A b \in Approval : b # a => approvals'[b] = approvals[b]
      BY <2>1 DEF AuthorityInv, AuthorityTypeOK, ApprovalRow
    <2>3. AuthorityTypeOK'
      BY <2>1, <2>2 DEF AuthorityInv, AuthorityTypeOK
    <2>4. AuditIsCurrent'
      BY <2>1, <2>2 DEF AuthorityInv, AuthorityTypeOK, AuditIsCurrent
    <2>5. RowsAreBound' /\ LocksMatchOperations'
      BY <2>1 DEF AuthorityInv, RowsAreBound, LocksMatchOperations, LockedBy,
                  TargetOfOp, Exists
    <2>6. AuthorityIsSingleUse'
      BY <2>1, <2>2 DEF AuthorityInv, AuthorityIsSingleUse, RowsAreBound, Exists
    <2> QED
      BY <2>3, <2>4, <2>5, <2>6 DEF AuthorityInv
  <1>3. ASSUME NEW o \in Op, NEW e \in 0 .. MaxEpoch, RecordRecoveryConflict(o, e)
        PROVE  AuthorityInv'
    <2>1. /\ operations' = [operations EXCEPT ![o].reason = TRUE]
          /\ audit' = [audit EXCEPT !.operations[o] = operations'[o]]
          /\ UNCHANGED <<proposals, approvals, targetLocks, lapsed>>
      BY <1>3 DEF RecordRecoveryConflict
    <2>2. /\ operations' \in [Op -> OperationRow]
          /\ \A q \in Op : /\ operations'[q].state = operations[q].state
                            /\ operations'[q].proposal = operations[q].proposal
                            /\ operations'[q].approval = operations[q].approval
          /\ \A q \in Op : q # o => operations'[q] = operations[q]
      <3> DEFINE row == [operations[o] EXCEPT !.reason = TRUE]
      <3>1. operations[o] \in OperationRow /\ operations \in [Op -> OperationRow]
        BY DEF AuthorityInv, AuthorityTypeOK
      <3>2. /\ row \in OperationRow
            /\ row.state = operations[o].state
            /\ row.proposal = operations[o].proposal
            /\ row.approval = operations[o].approval
        BY <3>1 DEF OperationRow
      <3>3. operations' = [operations EXCEPT ![o] = row]
        BY <2>1
      <3> HIDE DEF row
      <3> QED
        BY <3>1, <3>2, <3>3
    <2>3. AuthorityTypeOK'
      BY <2>1, <2>2 DEF AuthorityInv, AuthorityTypeOK
    <2>4. AuditIsCurrent'
      BY <2>1, <2>2 DEF AuthorityInv, AuthorityTypeOK, AuditIsCurrent
    <2>5. RowsAreBound' /\ LocksMatchOperations' /\ AuthorityIsSingleUse'
      BY <2>1, <2>2 DEF AuthorityInv, RowsAreBound, LocksMatchOperations, LockedBy,
                        TargetOfOp, AuthorityIsSingleUse, AuthorityTypeOK, LockRow,
                        ApprovalRow, Exists
    <2> QED
      BY <2>3, <2>4, <2>5 DEF AuthorityInv
  <1>4. ASSUME NEW o \in Op, ClaimOperation(o)
        PROVE  AuthorityInv'
    <2> DEFINE phase == IF operations[o].state \in {"applied", "rolling_back"}
                        THEN "rollback" ELSE operations[o].phase
    <2> DEFINE row == [operations[o] EXCEPT
                         !.state = "recovery_required", !.phase = phase,
                         !.epoch = operations[o].epoch + 1, !.leased = TRUE]
    <2>1. /\ operations[o].state \in LockRequired
          /\ operations[o].epoch < MaxEpoch
          /\ operations' = [operations EXCEPT ![o] = row]
          /\ audit' = [audit EXCEPT !.operations[o] = operations'[o]]
          /\ lapsed' = lapsed \ {o}
          /\ UNCHANGED <<proposals, approvals, targetLocks>>
      BY <1>4 DEF ClaimOperation, AuthorityInv, AuthorityTypeOK, OperationRow
    <2>2. operations[o] \in OperationRow
      BY DEF AuthorityInv, AuthorityTypeOK
    <2>3. operations[o].epoch + 1 \in 0 .. MaxEpoch
      BY <2>1, <2>2, Bounds DEF OperationRow
    <2>4. /\ row \in OperationRow
          /\ row.state = "recovery_required"
          /\ row.proposal = operations[o].proposal
          /\ row.approval = operations[o].approval
      BY <2>2, <2>3 DEF OperationRow, OperationState, LockRequired, InFlight
    <2> HIDE DEF row
    <2>5. /\ operations' \in [Op -> OperationRow] /\ operations'[o] = row
          /\ \A q \in Op : q # o => operations'[q] = operations[q]
      BY <2>1, <2>4 DEF AuthorityInv, AuthorityTypeOK
    <2>6. \A q \in Op :
            /\ operations'[q].proposal = operations[q].proposal
            /\ operations'[q].approval = operations[q].approval
            /\ operations'[q].state \in LockRequired <=> operations[q].state \in LockRequired
            /\ Exists(q)' <=> Exists(q)
      BY <2>1, <2>4, <2>5 DEF Exists, LockRequired, InFlight
    <2>7. AuthorityTypeOK'
      BY <2>1, <2>5 DEF AuthorityInv, AuthorityTypeOK
    <2>8. AuditIsCurrent'
      BY <2>1, <2>5 DEF AuthorityInv, AuthorityTypeOK, AuditIsCurrent
    <2>9. RowsAreBound' /\ AuthorityIsSingleUse'
      BY <2>1, <2>6 DEF AuthorityInv, RowsAreBound, AuthorityIsSingleUse,
                        AuthorityTypeOK, ApprovalRow
    <2>10. LocksMatchOperations'
      BY <2>1, <2>6 DEF AuthorityInv, LocksMatchOperations, LockedBy, TargetOfOp
    <2> QED
      BY <2>7, <2>8, <2>9, <2>10 DEF AuthorityInv
  <1>5. ASSUME NEW x \in Approval \cup Op, TimeLapses(x)
        PROVE  AuthorityInv'
    BY <1>5 DEF TimeLapses, AuthorityInv, AuthorityTypeOK, RowsAreBound,
       LocksMatchOperations, LockedBy, TargetOfOp, AuthorityIsSingleUse,
       AuditIsCurrent, Exists
  <1>6. CASE UNCHANGED authorityVars
    BY <1>6 DEF authorityVars, AuthorityInv, AuthorityTypeOK, RowsAreBound,
       LocksMatchOperations, LockedBy, TargetOfOp, AuthorityIsSingleUse,
       AuditIsCurrent, Exists
  <1> QED
    BY <1>1, <1>2, <1>3, <1>4, <1>5, <1>6, MarksPreserve, PreparePreserves
       DEF AuthorityNext

-----------------------------------------------------------------------------

\* The invariant holds in every reachable state of the store, whatever calls
\* its clients make and however they interleave.
THEOREM AuthorityInvariant == AuthoritySpec => []AuthorityInv
  <1>1. AuthorityInit => AuthorityInv
    BY InitEstablishes
  <1>2. AuthorityInv /\ [AuthorityNext]_authorityVars => AuthorityInv'
    BY NextPreserves
  <1> QED
    BY <1>1, <1>2, PTL DEF AuthoritySpec

\* The tables always hold rows of their schema.
THEOREM AuthorityTypes == AuthoritySpec => []AuthorityTypeOK
  <1>1. AuthorityInv => AuthorityTypeOK
    BY DEF AuthorityInv
  <1> QED
    BY <1>1, AuthorityInvariant, PTL

\* Mutual exclusion on targets: the operations that may still touch a target
\* and the active rows of target_locks correspond one to one (verify, _set_lock).
THEOREM LocksAreExact == AuthoritySpec => []LocksMatchOperations
  <1>1. AuthorityInv => LocksMatchOperations
    BY DEF AuthorityInv
  <1> QED
    BY <1>1, AuthorityInvariant, PTL

\* No approval and no policy decision ever backs two operations
\* (prepare_operation and its UNIQUE columns).
THEOREM SingleUse == AuthoritySpec => []AuthorityIsSingleUse
  <1>1. AuthorityInv => AuthorityIsSingleUse
    BY DEF AuthorityInv
  <1> QED
    BY <1>1, AuthorityInvariant, PTL

\* The newest audit entry of every entity is always the entity's row (_audit).
THEOREM AuditIsComplete == AuthoritySpec => []AuditIsCurrent
  <1>1. AuthorityInv => AuditIsCurrent
    BY DEF AuthorityInv
  <1> QED
    BY <1>1, AuthorityInvariant, PTL

\* A committed, rolled back or failed operation is never touched again, and
\* its target is never locked for it again (_transition, claim_operation).
THEOREM TerminalOperationsAreFinal == AuthoritySpec => TerminalIsFinal
  <1> DEFINE Kept == \A o \in Op : operations[o].state \in Terminal =>
                       /\ operations'[o] = operations[o]
                       /\ ~LockedBy(TargetOfOp(o), o)'
  <1>1. AuthorityInv /\ AuthorityInv' /\ [AuthorityNext]_authorityVars
          => [Kept]_authorityVars
    <2> SUFFICES ASSUME AuthorityInv, AuthorityInv', AuthorityNext,
                        NEW o \in Op, operations[o].state \in Terminal
                 PROVE  /\ operations'[o] = operations[o]
                        /\ ~LockedBy(TargetOfOp(o), o)'
      OBVIOUS
    <2>1. /\ operations[o].state \notin LockRequired
          /\ operations[o].state # "none"
      BY DEF Terminal, LockRequired, InFlight
    <2>2. operations \in [Op -> OperationRow]
      BY DEF AuthorityInv, AuthorityTypeOK
    <2>3. operations'[o] = operations[o]
      <3>1. ASSUME NEW q \in Op, operations[q].state \in LockRequired \/ ~Exists(q),
                   NEW row, operations' = [operations EXCEPT ![q] = row]
            PROVE  operations'[o] = operations[o]
        BY <2>1, <2>2, <3>1 DEF Exists
      <3>2. ASSUME NEW q \in Op, NEW e \in 0 .. MaxEpoch,
                   \/ MarkRollbackReady(q, e) \/ MarkApplying(q, e)
                   \/ MarkCommitReady(q, e) \/ MarkApplied(q, e)
                   \/ MarkCommitted(q, e) \/ MarkRollingBack(q, e)
                   \/ MarkRolledBack(q, e) \/ MarkFailed(q, e)
                   \/ MarkRecoveryRequired(q, e)
            PROVE  operations'[o] = operations[o]
        <4>1. ASSUME NEW allowed, NEW row, NEW active,
                     allowed \subseteq LockRequired,
                     Transition(q, e, allowed, row, active)
              PROVE  operations'[o] = operations[o]
          BY <3>1, <4>1 DEF Transition
        <4> QED
          BY <3>2, <4>1, Zenon DEF MarkRollbackReady, MarkApplying, MarkCommitReady,
             MarkApplied, MarkCommitted, MarkRollingBack, MarkRolledBack,
             MarkFailed, MarkRecoveryRequired, LockRequired, InFlight
      <3>3. ASSUME NEW q \in Op, NEW e \in 0 .. MaxEpoch, RecordRecoveryConflict(q, e)
            PROVE  operations'[o] = operations[o]
        BY <2>1, <2>2, <3>3 DEF RecordRecoveryConflict, LockRequired, InFlight
      <3>4. ASSUME NEW q \in Op, NEW p \in Proposal, NEW a \in Approval,
                   PrepareOperation(q, p, a)
            PROVE  operations'[o] = operations[o]
        BY <3>1, <3>4 DEF PrepareOperation, MayPrepare
      <3>5. ASSUME NEW q \in Op, ClaimOperation(q)
            PROVE  operations'[o] = operations[o]
        BY <2>1, <2>2, <3>5 DEF ClaimOperation
      <3>6. ASSUME NEW p \in Proposal, RegisterProposal(p)
            PROVE  operations'[o] = operations[o]
        BY <3>6 DEF RegisterProposal
      <3>7. ASSUME NEW a \in Approval, RecordVerifiedGrant(a)
            PROVE  operations'[o] = operations[o]
        BY <3>7 DEF RecordVerifiedGrant
      <3>8. ASSUME NEW x \in Approval \cup Op, TimeLapses(x)
            PROVE  operations'[o] = operations[o]
        BY <3>8 DEF TimeLapses
      <3> QED
        BY <3>2, <3>3, <3>4, <3>5, <3>6, <3>7, <3>8 DEF AuthorityNext
    <2>4. ~LockedBy(TargetOfOp(o), o)'
      <3>1. TargetOfOp(o)' \in Target
        BY <2>1, <2>3, ProposalFields DEF AuthorityInv, RowsAreBound, Exists, TargetOfOp
      <3> QED
        BY <2>1, <2>3, <3>1 DEF AuthorityInv, LocksMatchOperations, LockedBy
    <2> QED
      BY <2>3, <2>4
  <1> QED
    BY <1>1, AuthorityInvariant, PTL DEF AuthoritySpec, TerminalIsFinal
=============================================================================

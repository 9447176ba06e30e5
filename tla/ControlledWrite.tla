---------------------------- MODULE ControlledWrite ----------------------------
(***************************************************************************)
(* ControlledWriteOrchestrator (write_orchestrator.py) driving             *)
(* SQLiteChangeAuthority and LinuxWorkspaceWriteBroker (write_broker.py):  *)
(* processes that execute and recover single-file writes, an external      *)
(* editor that does not take the broker's lock, crashes and I/O faults.    *)
(*                                                                         *)
(* A file is its content, its inode identity and, as a ghost, who wrote    *)
(* it.  Each observation, copy, rename and authority call is one step: the *)
(* editor, a crash and the other processes interleave between any two.     *)
(***************************************************************************)
EXTENDS ChangeAuthority

CONSTANTS
    Proc,               \* orchestrator processes
    JobOf, GrantOf,     \* the proposal and the approval an operation is executed with
    After,              \* candidate content, by operation
    Bases,              \* contents a target may have when its writes are proposed
    Edits,              \* contents an external editor may leave
    Opaque,             \* content _read_file_state refuses (binary, not UTF-8, too large)
    NoContent,          \* no file
    MaxEdits, MaxFaults,\* bounds on external edits, and on crashes and I/O errors
    Workloads,          \* sets of operations somebody may try to execute
    MaxTrouble,         \* bound on edits and faults, less two for each further operation
    Timely              \* leases lapse only when their holder is gone

ASSUME JobFields ==
    /\ JobOf \in [Op -> Proposal] /\ GrantOf \in [Op -> Approval]
    /\ None \notin Proc
    /\ \A o \in Op : /\ ApprovalFor[GrantOf[o]] = JobOf[o]
                     /\ After[o] \notin Bases \cup {NoContent, Opaque}
    /\ Opaque \notin Bases
    /\ Workloads \subseteq SUBSET Op

VARIABLES
    base,       \* content of each target when its writes were proposed
    jobs,       \* the operations that are tried
    target,     \* the file at each target path
    temp,       \* the file at each operation's temporary name
    flock,      \* holder of the exclusive lock on the workspace root
    runActive,  \* the plan of the run is the active one in the runtime store
    proc,       \* what each process is doing
    edits, faults,
    installs    \* ghost: how often each operation's candidate became visible

fileVars == <<target, temp, installs>>
cwVars == <<base, jobs, authorityVars, fileVars, flock, runActive, proc, edits, faults>>

Absent == [c |-> NoContent, id |-> 0, by |-> None]
MaxId == Cardinality(Target) + Cardinality(Op) + 2 * Cardinality(Proc) + 1

\* id and tmp are the identities of the descriptors a call keeps open; own
\* says that its temp_name is set and committed is not.  raced is a ghost: the
\* path was edited between the rename and the check of what it took away.
Idle == [pc |-> "idle", op |-> None, epoch |-> 0, recover |-> FALSE,
         phase |-> "apply", id |-> 0, tmp |-> 0, own |-> FALSE, err |-> "none",
         raced |-> FALSE]

\* An inode number is reused only once no name and no descriptor refers to it.
FreshId ==
    LET used == {target[t].id : t \in Target} \cup {temp[o].id : o \in Op}
                  \cup {proc[p].id : p \in Proc} \cup {proc[p].tmp : p \in Proc}
    IN  CHOOSE i \in 1 .. MaxId : i \notin used /\ \A j \in 1 .. i - 1 : j \in used

PathOf(o) == TargetOf[JobOf[o]]
\* expectedBefore of the proposal: every operation was proposed on the same file.
Before(o) == base[PathOf(o)]
IsCreate(o) == Before(o) = NoContent

CWInit ==
    /\ AuthorityInit
    /\ base \in [Target -> Bases] /\ jobs \in Workloads
    /\ target = [t \in Target |->
                   IF base[t] = NoContent THEN Absent
                   ELSE [c |-> base[t], id |-> 1, by |-> "base"]]
    /\ temp = [o \in Op |-> Absent]
    /\ flock = None
    /\ runActive = TRUE
    /\ proc = [p \in Proc |-> Idle]
    /\ edits = 0 /\ faults = 0
    /\ installs = [o \in Op |-> 0]

\* The bounds of the exploration.
Trouble == edits + faults + 2 * (Cardinality(jobs) - 1)
CanEdit == edits < MaxEdits /\ Trouble < MaxTrouble
CanClaim(o) == operations[o].epoch + Cardinality(jobs) <= MaxEpoch
CanFail == faults < MaxFaults /\ Trouble < MaxTrouble

At(p, pc) == proc[p].pc = pc
To(p, pc) == proc' = [proc EXCEPT ![p].pc = pc]
Return(p) == proc' = [proc EXCEPT ![p] = Idle]
\* The descriptors of a broker call are closed when it returns.
Leave(p, pc) == proc' = [proc EXCEPT ![p].pc = pc, ![p].id = 0, ![p].tmp = 0,
                                     ![p].own = FALSE, ![p].err = "none",
                                     ![p].raced = FALSE]
\* An exception inside a broker call, BrokerError or any other.
Raise(p, kind) == proc' = [proc EXCEPT ![p].pc = "finally", ![p].err = kind]

\* The transition of operation o that its caller expects to make is accepted.
Accepts(o, e, from) == operations[o].state \in from /\ LeaseHeld(o, e)

-----------------------------------------------------------------------------
(* execute: authorization.  A call that finds the operation in the journal *)
(* replays it and changes nothing.                                         *)

CreateProposal(p) ==
    /\ runActive
    /\ \E o \in jobs : JobOf[o] = p
    /\ RegisterProposal(p)
    /\ UNCHANGED <<fileVars, flock, runActive, proc, edits, faults>>

Execute(p, o) ==
    /\ At(p, "idle")
    /\ JobOf[o] \in proposals
    /\ ~Exists(o)
    /\ proc' = [proc EXCEPT ![p] = [Idle EXCEPT !.pc = "grant", !.op = o]]
    /\ UNCHANGED <<authorityVars, fileVars, flock, runActive, edits, faults>>

RecordGrant(p) ==
    LET a == GrantOf[proc[p].op] IN
    /\ At(p, "grant")
    /\ \/ RecordVerifiedGrant(a) /\ To(p, "prepare")
       \/ approvals[a].state # "none" /\ a \notin lapsed
          /\ To(p, "prepare") /\ UNCHANGED authorityVars
       \/ a \in lapsed /\ Return(p) /\ UNCHANGED authorityVars
    /\ UNCHANGED <<fileVars, flock, runActive, edits, faults>>

\* A second execution of the operation reserves another temporary name, so
\* its intent differs from the recorded one and PREPARE refuses it.
Prepare(p) ==
    LET o == proc[p].op IN
    /\ At(p, "prepare")
    /\ \/ /\ PrepareOperation(o, JobOf[o], GrantOf[o])
          /\ proc' = [proc EXCEPT ![p].pc = "apply", ![p].epoch = 1]
       \/ ~MayPrepare(o, JobOf[o], GrantOf[o]) /\ Return(p) /\ UNCHANGED authorityVars
    /\ UNCHANGED <<fileVars, flock, runActive, edits, faults>>

-----------------------------------------------------------------------------
(* LinuxWorkspaceWriteBroker.apply, with the two hooks of execute.         *)

\* Take the lock, observe the target, persist its bytes as rollback artifact.
ApplyBegin(p) ==
    LET o == proc[p].op  f == target[PathOf(o)] IN
    /\ At(p, "apply") /\ flock = None
    /\ flock' = p
    /\ IF f.c = Before(o)
       THEN proc' = [proc EXCEPT ![p].pc = "plan1", ![p].id = f.id]
       ELSE Raise(p, "broker")
    /\ UNCHANGED <<authorityVars, fileVars, runActive, edits, faults>>

RequireActivePlan(p) ==
    /\ \/ At(p, "plan1") /\ runActive /\ To(p, "rollback_ready")
       \/ At(p, "plan2") /\ runActive /\ To(p, "applying")
       \/ (At(p, "plan1") \/ At(p, "plan2")) /\ ~runActive /\ Raise(p, "store")
    /\ UNCHANGED <<authorityVars, fileVars, flock, runActive, edits, faults>>

RollbackReady(p) ==
    LET o == proc[p].op  e == proc[p].epoch IN
    /\ At(p, "rollback_ready")
    /\ \/ MarkRollbackReady(o, e) /\ To(p, "plan2")
       \/ ~Accepts(o, e, {"prepared"}) /\ Raise(p, "store") /\ UNCHANGED authorityVars
    /\ UNCHANGED <<fileVars, flock, runActive, edits, faults>>

Applying(p) ==
    LET o == proc[p].op  e == proc[p].epoch IN
    /\ At(p, "applying")
    /\ \/ MarkApplying(o, e) /\ To(p, "temp")
       \/ ~Accepts(o, e, {"rollback_ready"}) /\ Raise(p, "store") /\ UNCHANGED authorityVars
    /\ UNCHANGED <<fileVars, flock, runActive, edits, faults>>

\* _copy_candidate_to_temp, also used by rollback with the backup: O_EXCL
\* creation, and a failed copy removes what it created.
CopyToTemp(p, file, pc) ==
    LET o == proc[p].op IN
    /\ \/ /\ temp[o] = Absent
          /\ temp' = [temp EXCEPT ![o] = file]
          /\ proc' = [proc EXCEPT ![p].pc = pc, ![p].tmp = file.id, ![p].own = TRUE]
          /\ UNCHANGED faults
       \/ temp[o] # Absent /\ Raise(p, "broker") /\ UNCHANGED <<temp, faults>>
       \/ /\ temp[o] = Absent /\ CanFail
          /\ faults' = faults + 1
          /\ \E kind \in {"broker", "store"} : Raise(p, kind)
          /\ UNCHANGED temp
    /\ UNCHANGED <<authorityVars, target, installs, flock, runActive, edits>>

CopyCandidate(p) ==
    LET o == proc[p].op IN
    /\ At(p, "temp")
    /\ CopyToTemp(p, [c |-> After[o], id |-> FreshId, by |-> o], "recheck")

\* The target still has the expected content and identity.
Recheck(p) ==
    LET f == target[PathOf(proc[p].op)] IN
    /\ At(p, "recheck")
    /\ IF f.c = Before(proc[p].op) /\ f.id = proc[p].id
       THEN To(p, "commit")
       ELSE Raise(p, "broker")
    /\ UNCHANGED <<authorityVars, fileVars, flock, runActive, edits, faults>>

\* Wrong: the plan is checked but the permit is not recorded.
CommitAuthorityUnrecorded(p) ==
    /\ At(p, "commit")
    /\ IF runActive THEN To(p, "rename") ELSE Raise(p, "store")
    /\ UNCHANGED <<authorityVars, fileVars, flock, runActive, edits, faults>>

\* commit_authority: active_plan_guard is held while the permit is recorded.
CommitAuthority(p) ==
    LET o == proc[p].op  e == proc[p].epoch IN
    /\ At(p, "commit")
    /\ \/ runActive /\ MarkCommitReady(o, e) /\ To(p, "rename")
       \/ /\ ~(runActive /\ Accepts(o, e, {"applying"}))
          /\ Raise(p, "store") /\ UNCHANGED authorityVars
    /\ UNCHANGED <<fileVars, flock, runActive, edits, faults>>

\* renameat2: RENAME_NOREPLACE fails on an existing name, RENAME_EXCHANGE on
\* a missing one.
Rename(p) ==
    LET o == proc[p].op  t == PathOf(o) IN
    /\ At(p, "rename")
    /\ IF IsCreate(o) = (target[t] = Absent)
       THEN /\ target' = [target EXCEPT ![t] = temp[o]]
            /\ temp' = [temp EXCEPT ![o] = target[t]]
            /\ installs' = [installs EXCEPT ![o] = @ + 1]
            /\ proc' = [proc EXCEPT ![p].pc = IF IsCreate(o) THEN "verify" ELSE "exchanged",
                                    ![p].own = ~IsCreate(o)]
       ELSE Raise(p, "broker") /\ UNCHANGED fileVars
    /\ UNCHANGED <<authorityVars, flock, runActive, edits, faults>>

\* Swap target and temp back, if there is still something to swap with.
ExchangeBack(o) ==
    LET t == PathOf(o) IN
    IF target[t] = Absent THEN UNCHANGED <<target, temp>>
    ELSE /\ target' = [target EXCEPT ![t] = temp[o]]
         /\ temp' = [temp EXCEPT ![o] = target[t]]

\* Wrong: a lost race is reported but not undone.
CheckExchangedKeeping(p) ==
    LET o == proc[p].op IN
    /\ At(p, "exchanged")
    /\ IF temp[o].c = Before(o) /\ temp[o].id = proc[p].id
       THEN /\ temp' = [temp EXCEPT ![o] = Absent]
            /\ proc' = [proc EXCEPT ![p].pc = "verify", ![p].own = FALSE]
       ELSE Raise(p, "broker") /\ UNCHANGED temp
    /\ UNCHANGED <<authorityVars, target, installs, flock, runActive, edits, faults>>

\* The file that was exchanged out is the one that was expected and backed
\* up, or the exchange is undone.
CheckExchanged(p) ==
    LET o == proc[p].op IN
    /\ At(p, "exchanged")
    /\ IF temp[o].c = Before(o) /\ temp[o].id = proc[p].id
       THEN /\ temp' = [temp EXCEPT ![o] = Absent]
            /\ proc' = [proc EXCEPT ![p].pc = "verify", ![p].own = FALSE]
            /\ UNCHANGED target
       ELSE /\ Raise(p, "broker")
            /\ IF temp[o].c = Opaque THEN UNCHANGED <<target, temp>> ELSE ExchangeBack(o)
    /\ UNCHANGED <<authorityVars, installs, flock, runActive, edits, faults>>

\* fsync the directory and observe the applied file.
VerifyApplied(p) ==
    LET o == proc[p].op  f == target[PathOf(o)] IN
    /\ At(p, "verify")
    /\ \/ /\ f.c = After[o] /\ f.id = proc[p].tmp
          /\ Leave(p, "applied") /\ flock' = None /\ UNCHANGED faults
       \/ /\ ~(f.c = After[o] /\ f.id = proc[p].tmp)
          /\ Raise(p, "broker") /\ UNCHANGED <<flock, faults>>
       \/ /\ CanFail /\ faults' = faults + 1
          /\ Raise(p, "broker") /\ UNCHANGED flock
    /\ UNCHANGED <<authorityVars, fileVars, runActive, edits>>

\* The finally clause of apply and rollback, and where the exception goes.
Finally(p) ==
    LET o == proc[p].op IN
    /\ At(p, "finally")
    /\ temp' = IF proc[p].own THEN [temp EXCEPT ![o] = Absent] ELSE temp
    /\ flock' = None
    /\ CASE proc[p].err = "store" -> Return(p)
         [] proc[p].err = "broker" /\ proc[p].recover -> Leave(p, "recovery")
         [] OTHER -> Leave(p, "error")
    /\ UNCHANGED <<authorityVars, target, installs, runActive, edits, faults>>

-----------------------------------------------------------------------------
(* execute: the receipt, the post-apply validator and the outcome.         *)

Applied(p) ==
    LET o == proc[p].op  e == proc[p].epoch IN
    /\ At(p, "applied")
    /\ \/ MarkApplied(o, e) /\ To(p, "validate")
       \/ ~Accepts(o, e, {"commit_ready"}) /\ Return(p) /\ UNCHANGED authorityVars
    /\ UNCHANGED <<fileVars, flock, runActive, edits, faults>>

\* post_apply_validator is the caller's: it accepts, or rejects or raises.
Validate(p) ==
    /\ At(p, "validate")
    /\ \E pc \in {"commit_final", "rolling_back"} : To(p, pc)
    /\ UNCHANGED <<authorityVars, fileVars, flock, runActive, edits, faults>>

Commit(p) ==
    LET o == proc[p].op  e == proc[p].epoch IN
    /\ At(p, "commit_final")
    /\ \/ MarkCommitted(o, e)
       \/ ~Accepts(o, e, {"applied"}) /\ UNCHANGED authorityVars
    /\ Return(p)
    /\ UNCHANGED <<fileVars, flock, runActive, edits, faults>>

\* Wrong: a failure before the receipt is taken to mean that nothing changed.
ErrorPresumesBefore(p) ==
    LET o == proc[p].op IN
    /\ At(p, "error") /\ flock = None
    /\ IF operations[o].state \in {"prepared", "rollback_ready", "applying", "commit_ready"}
       THEN To(p, "failed") ELSE To(p, "recovery")
    /\ UNCHANGED <<authorityVars, fileVars, flock, runActive, edits, faults>>

\* Wrong: the approved content at the path is taken to be this write's.
ErrorPresumesApplied(p) ==
    LET o == proc[p].op IN
    /\ At(p, "error") /\ flock = None
    /\ CASE target[PathOf(o)].c = After[o] -> To(p, "applied")
         [] target[PathOf(o)].c = Before(o) -> To(p, "failed")
         [] OTHER -> To(p, "recovery")
    /\ UNCHANGED <<authorityVars, fileVars, flock, runActive, edits, faults>>

\* except BrokerError: read the state, observe the target under the lock.
\* The state can change in between only through another claim, after which
\* the mark below is refused.
ErrorObserve(p) ==
    LET o == proc[p].op IN
    /\ At(p, "error") /\ flock = None
    /\ IF /\ operations[o].state \in {"prepared", "rollback_ready", "applying", "commit_ready"}
          /\ target[PathOf(o)].c = Before(o)
       THEN To(p, "failed") ELSE To(p, "recovery")
    /\ UNCHANGED <<authorityVars, fileVars, flock, runActive, edits, faults>>

Failed(p) ==
    LET o == proc[p].op  e == proc[p].epoch IN
    /\ At(p, "failed")
    /\ \/ MarkFailed(o, e)
       \/ ~Accepts(o, e, InFlight) /\ UNCHANGED authorityVars
    /\ Return(p)
    /\ UNCHANGED <<fileVars, flock, runActive, edits, faults>>

RecoveryRequired(p) ==
    LET o == proc[p].op  e == proc[p].epoch IN
    /\ At(p, "recovery")
    /\ \/ MarkRecoveryRequired(o, e)
       \/ ~Accepts(o, e, LockRequired \ {"recovery_required"}) /\ UNCHANGED authorityVars
    /\ Return(p)
    /\ UNCHANGED <<fileVars, flock, runActive, edits, faults>>

-----------------------------------------------------------------------------
(* LinuxWorkspaceWriteBroker.rollback, reached by execute and by recover.  *)

\* A row already in rolling_back answers the call, whoever made it so.  pc
\* is the step that follows.
RollingBackThen(p, pc) ==
    LET o == proc[p].op  e == proc[p].epoch IN
    /\ \/ MarkRollingBack(o, e) /\ To(p, pc)
       \/ operations[o].state = "rolling_back" /\ To(p, pc) /\ UNCHANGED authorityVars
       \/ /\ operations[o].state # "rolling_back"
          /\ ~Accepts(o, e, {"applied", "recovery_required"})
          /\ Return(p) /\ UNCHANGED authorityVars
    /\ UNCHANGED <<fileVars, flock, runActive, edits, faults>>

RollingBack(p) == At(p, "rolling_back") /\ RollingBackThen(p, "rollback")

RollbackBegin(p) ==
    LET o == proc[p].op  f == target[PathOf(o)] IN
    /\ At(p, "rollback") /\ flock = None
    /\ IF f.c = Before(o)
       THEN Leave(p, "rolled_back") /\ UNCHANGED flock
       ELSE /\ flock' = p
            /\ IF f.c = After[o]
               THEN proc' = [proc EXCEPT ![p].pc = IF IsCreate(o) THEN "rb_lease" ELSE "rb_temp",
                                         ![p].id = f.id, ![p].own = IsCreate(o)]
               ELSE Raise(p, "broker")
    /\ UNCHANGED <<authorityVars, fileVars, runActive, edits, faults>>

CopyBackup(p) ==
    /\ At(p, "rb_temp")
    /\ CopyToTemp(p, [c |-> Before(proc[p].op), id |-> FreshId, by |-> "restored"],
                  "rb_recheck")

RollbackRecheck(p) ==
    LET o == proc[p].op  f == target[PathOf(o)] IN
    /\ At(p, "rb_recheck")
    /\ IF f.c = After[o] /\ f.id = proc[p].id
       THEN To(p, "rb_lease") ELSE Raise(p, "broker")
    /\ UNCHANGED <<authorityVars, fileVars, flock, runActive, edits, faults>>

RollbackLease(p) ==
    /\ At(p, "rb_lease")
    /\ IF AssertOperationLease(proc[p].op, proc[p].epoch, "rolling_back")
       THEN To(p, "rb_rename") ELSE Raise(p, "store")
    /\ UNCHANGED <<authorityVars, fileVars, flock, runActive, edits, faults>>

\* A created file is moved to the temporary name, a replaced one exchanged
\* with the backup.
RollbackRename(p) ==
    LET o == proc[p].op  t == PathOf(o) IN
    /\ At(p, "rb_rename")
    /\ IF target[t] # Absent /\ (IsCreate(o) => temp[o] = Absent)
       THEN /\ target' = [target EXCEPT ![t] = temp[o]]
            /\ temp' = [temp EXCEPT ![o] = target[t]]
            /\ To(p, "rb_check") /\ UNCHANGED installs
       ELSE Raise(p, "broker") /\ UNCHANGED fileVars
    /\ UNCHANGED <<authorityVars, flock, runActive, edits, faults>>

\* Undo the move of a created file, unless its name is taken again.
MoveBack(o) ==
    LET t == PathOf(o) IN
    IF target[t] # Absent THEN UNCHANGED <<target, temp>>
    ELSE /\ target' = [target EXCEPT ![t] = temp[o]]
         /\ temp' = [temp EXCEPT ![o] = Absent]

RollbackCheck(p) ==
    LET o == proc[p].op IN
    /\ At(p, "rb_check")
    /\ IF temp[o].c = After[o] /\ temp[o].id = proc[p].id
       THEN /\ temp' = [temp EXCEPT ![o] = Absent]
            /\ proc' = [proc EXCEPT ![p].pc = "rb_verify", ![p].own = FALSE]
            /\ UNCHANGED target
       ELSE /\ Raise(p, "broker")
            /\ IF temp[o].c = Opaque THEN UNCHANGED <<target, temp>>
               ELSE IF IsCreate(o) THEN MoveBack(o) ELSE ExchangeBack(o)
    /\ UNCHANGED <<authorityVars, installs, flock, runActive, edits, faults>>

RollbackVerify(p) ==
    LET o == proc[p].op  f == target[PathOf(o)] IN
    /\ At(p, "rb_verify")
    /\ \/ f.c = Before(o) /\ Leave(p, "rolled_back") /\ flock' = None /\ UNCHANGED faults
       \/ f.c # Before(o) /\ Raise(p, "broker") /\ UNCHANGED <<flock, faults>>
       \/ /\ CanFail /\ faults' = faults + 1
          /\ Raise(p, "broker") /\ UNCHANGED flock
    /\ UNCHANGED <<authorityVars, fileVars, runActive, edits>>

RolledBack(p) ==
    LET o == proc[p].op  e == proc[p].epoch IN
    /\ At(p, "rolled_back")
    /\ \/ MarkRolledBack(o, e)
       \/ ~Accepts(o, e, {"rolling_back"}) /\ UNCHANGED authorityVars
    /\ Return(p)
    /\ UNCHANGED <<fileVars, flock, runActive, edits, faults>>

-----------------------------------------------------------------------------
(* recover.                                                                *)

Claim(p, o) ==
    /\ At(p, "idle") /\ CanClaim(o)
    /\ ClaimOperation(o)
    /\ proc' = [proc EXCEPT ![p] =
                  [Idle EXCEPT !.pc = "bundle", !.op = o, !.recover = TRUE,
                               !.epoch = operations'[o].epoch,
                               !.phase = operations'[o].phase]]
    /\ UNCHANGED <<fileVars, flock, runActive, edits, faults>>

\* Wrong: a rollback proof is demanded of every bundle.
LoadReadyBundle(p) ==
    /\ At(p, "bundle")
    /\ IF operations[proc[p].op].proof THEN To(p, "cleanup") ELSE Return(p)
    /\ UNCHANGED <<authorityVars, fileVars, flock, runActive, edits, faults>>

\* The recovery bundle has a backup exactly when rollback_ready replaced it.
LoadBundle(p) ==
    LET o == proc[p].op IN
    /\ At(p, "bundle")
    /\ IF IsCreate(o) \/ operations[o].proof THEN To(p, "cleanup") ELSE Return(p)
    /\ UNCHANGED <<authorityVars, fileVars, flock, runActive, edits, faults>>

CleanupTemporary(p) ==
    /\ At(p, "cleanup") /\ flock = None
    /\ temp' = [temp EXCEPT ![proc[p].op] = Absent]
    /\ To(p, "observe")
    /\ UNCHANGED <<authorityVars, target, installs, flock, runActive, edits, faults>>

\* Wrong: what looks applied is rolled back, with or without a backup.
ObserveTargetUnproved(p) ==
    LET o == proc[p].op  c == target[PathOf(o)].c IN
    /\ At(p, "observe") /\ flock = None
    /\ CASE c = Before(o) -> To(p, IF proc[p].phase = "rollback" THEN "reconcile" ELSE "failed")
         [] c = After[o] -> To(p, "rolling_back")
         [] c = Opaque -> Return(p)
         [] OTHER -> To(p, "conflict")
    /\ UNCHANGED <<authorityVars, fileVars, flock, runActive, edits, faults>>

\* Exact before fails or completes the rollback, exact after is rolled back,
\* anything else is a conflict; what cannot be observed raises.
ObserveTarget(p) ==
    LET o == proc[p].op  c == target[PathOf(o)].c IN
    /\ At(p, "observe") /\ flock = None
    /\ CASE c = Before(o) -> To(p, IF proc[p].phase = "rollback" THEN "reconcile" ELSE "failed")
         [] c = After[o] /\ operations[o].proof -> To(p, "rolling_back")
         [] c \in {Opaque, After[o]} -> Return(p)
         [] OTHER -> To(p, "conflict")
    /\ UNCHANGED <<authorityVars, fileVars, flock, runActive, edits, faults>>

Reconcile(p) == At(p, "reconcile") /\ RollingBackThen(p, "rolled_back")

Conflict(p) ==
    LET o == proc[p].op  e == proc[p].epoch IN
    /\ At(p, "conflict")
    /\ \/ RecordRecoveryConflict(o, e)
       \/ ~Accepts(o, e, {"recovery_required"}) /\ UNCHANGED authorityVars
    /\ Return(p)
    /\ UNCHANGED <<fileVars, flock, runActive, edits, faults>>

-----------------------------------------------------------------------------
(* The environment.                                                        *)

\* An editor saves through a new file or in place, or deletes the file.
ExternalEdit(t) ==
    /\ CanEdit
    /\ edits' = edits + 1
    /\ \/ \E c \in Edits, id \in {FreshId} \cup ({target[t].id} \ {0}) :
            target' = [target EXCEPT ![t] = [c |-> c, id |-> id, by |-> "ext"]]
       \/ target[t] # Absent /\ target' = [target EXCEPT ![t] = Absent]
    /\ proc' = [p \in Proc |->
                  IF (At(p, "exchanged") \/ At(p, "rb_check")) /\ PathOf(proc[p].op) = t
                  THEN [proc[p] EXCEPT !.raced = TRUE] ELSE proc[p]]
    /\ UNCHANGED <<authorityVars, temp, installs, flock, runActive, faults>>

Crash(p) ==
    /\ ~At(p, "idle")
    /\ CanFail
    /\ faults' = faults + 1
    /\ Return(p)
    /\ flock' = IF flock = p THEN None ELSE flock
    /\ UNCHANGED <<authorityVars, fileVars, runActive, edits>>

EndRun ==
    /\ runActive
    /\ runActive' = FALSE
    /\ UNCHANGED <<authorityVars, fileVars, flock, proc, edits, faults>>

HolderGone(o) ==
    \A p \in Proc : proc[p].op = o => proc[p].epoch # operations[o].epoch

LeaseLapses(o) ==
    /\ Timely => HolderGone(o)
    /\ operations[o].state \in LockRequired
    /\ TimeLapses(o)
    /\ UNCHANGED <<fileVars, flock, runActive, proc, edits, faults>>

ApprovalExpires(a) ==
    /\ ApprovalFor[a] \in proposals /\ approvals[a].state # "consumed"
    /\ TimeLapses(a)
    /\ UNCHANGED <<fileVars, flock, runActive, proc, edits, faults>>

ProcStep(p) ==
    \/ RecordGrant(p) \/ Prepare(p)
    \/ ApplyBegin(p) \/ RequireActivePlan(p) \/ RollbackReady(p) \/ Applying(p)
    \/ CopyCandidate(p) \/ Recheck(p) \/ CommitAuthority(p) \/ Rename(p)
    \/ CheckExchanged(p) \/ VerifyApplied(p) \/ Finally(p)
    \/ Applied(p) \/ Validate(p) \/ Commit(p)
    \/ ErrorObserve(p) \/ Failed(p) \/ RecoveryRequired(p)
    \/ RollingBack(p) \/ RollbackBegin(p) \/ CopyBackup(p) \/ RollbackRecheck(p)
    \/ RollbackLease(p) \/ RollbackRename(p) \/ RollbackCheck(p)
    \/ RollbackVerify(p) \/ RolledBack(p)
    \/ LoadBundle(p) \/ CleanupTemporary(p) \/ ObserveTarget(p)
    \/ Reconcile(p) \/ Conflict(p)

Step ==
    \/ \E j \in Proposal : CreateProposal(j)
    \/ \E p \in Proc, o \in Op : Execute(p, o) \/ Claim(p, o)
    \/ \E p \in Proc : ProcStep(p) \/ Crash(p)
    \/ \E t \in Target : ExternalEdit(t)
    \/ \E o \in Op : LeaseLapses(o)
    \/ \E a \in Approval : ApprovalExpires(a)
    \/ EndRun

CWNext == Step /\ UNCHANGED <<base, jobs>>

CWSpec == CWInit /\ [][CWNext]_cwVars

\* Processes run and leases lapse; the operator keeps calling recover on
\* what scan_recoverable lists.
CWFairSpec ==
    /\ CWSpec
    /\ \A p \in Proc : WF_cwVars(ProcStep(p) /\ UNCHANGED <<base, jobs>>)
    /\ \A o \in Op :
         /\ WF_cwVars(LeaseLapses(o) /\ UNCHANGED <<base, jobs>>)
         /\ WF_cwVars(\E p \in Proc : Claim(p, o) /\ UNCHANGED <<base, jobs>>)

-----------------------------------------------------------------------------
(* Properties.                                                             *)

File == [c: Edits \cup {Opaque, NoContent} \cup Bases \cup {After[o] : o \in Op},
         id: 0 .. MaxId, by: Op \cup {"base", "ext", "restored", None}]

CWTypeOK ==
    /\ AuthorityTypeOK
    /\ target \in [Target -> File] /\ temp \in [Op -> File]
    /\ flock \in Proc \cup {None} /\ runActive \in BOOLEAN
    /\ proc \in [Proc -> [pc: STRING, op: Op \cup {None}, epoch: 0 .. MaxEpoch,
                          recover: BOOLEAN, phase: {"apply", "rollback"},
                          id: 0 .. MaxId, tmp: 0 .. MaxId, own: BOOLEAN,
                          err: {"none", "broker", "store"}, raced: BOOLEAN]]
    /\ edits \in 0 .. MaxEdits /\ faults \in 0 .. MaxFaults

\* A candidate is at its target path only while the journal says it may be:
\* never before a rollback proof and commit_ready were recorded, and never once
\* the operation is recorded as failed or rolled back, however stale the process
\* that moved it.
CandidateNeedsPermit ==
    \A t \in Target, o \in Op : target[t].by = o =>
        /\ operations[o].proof
        /\ operations[o].state \in {"commit_ready", "applied", "committed",
                                    "rolling_back", "recovery_required"}

\* The broker changes a path only for the operation whose lock on it is
\* active: a fenced-out holder, a second process or a later operation on the
\* same path never has a namespace change of its own in flight.
ChangesHoldTargetLock ==
    [][\A t \in Target : target'[t] # target[t] /\ edits' = edits =>
         flock # None /\ LockedBy(t, proc[flock].op)]_cwVars

\* Same-intent retries have at most one physical effect, and a committed
\* operation had exactly one.
AtMostOneEffect ==
    \A o \in Op : /\ installs[o] <= 1
                   /\ operations[o].state \in {"applied", "committed"} => installs[o] = 1

\* Without external edits a recorded outcome is the truth about the workspace.
\* No temporary file outlives its operation, whichever step a process died in.
\* Until another operation changes the file, committed means that the candidate
\* is there, failed and rolled back mean that the exact before-state is.
OutcomeIsExact ==
    edits = 0 =>
    \A o \in Op :
        /\ operations[o].state \in Terminal => temp[o] = Absent
        /\ (\A q \in Op \ {o} : PathOf(q) = PathOf(o) => installs[q] = 0) =>
            /\ operations[o].state = "committed" => target[PathOf(o)].by = o
            /\ operations[o].state \in {"failed", "rolled_back"}
                 => target[PathOf(o)].c = Before(o)

\* The operation clause of verify(), which the store runs when it is opened: the
\* evidence a state stands for is recorded.  Alone the journal accepts calls that
\* break it (mark_rolling_back of a claimed operation that was only prepared);
\* the order in which execute and recover observe, claim and mark does not, after
\* whatever deaths and edits.
RowsVerify ==
    \A o \in Op : LET row == operations[o] IN
        /\ row.state \in {"rollback_ready", "applying", "commit_ready", "applied",
                          "committed", "rolling_back", "rolled_back"} => row.proof
        /\ row.state \in {"applied", "committed"} => row.receipt
        /\ row.state = "recovery_required" /\ row.epoch = 1 => row.reason

\* controlled-writes.md: recovery with the exact before-state at the path
\* never gets stuck, it always reaches the decision to fail.
ExactBeforeIsRecoverable ==
    [][\A p \in Proc : LET o == proc[p].op IN
         At(p, "bundle") /\ target[PathOf(o)].c = Before(o) /\ faults' = faults
           => ~At(p, "idle")']_cwVars

\* Content somebody else wrote, and which no approved state of the file has.
Foreign(f) == f.by = "ext" /\ \A o \in Op : f.c \notin {Before(o), After[o]}
Somewhere(Kind(_)) ==
    (\E t \in Target : Kind(target[t])) \/ (\E o \in Op : Kind(temp[o]))
Readable(f) == Foreign(f) /\ f.c # Opaque

\* controlled-writes.md: a conflicting change by another actor is reported
\* without overwriting that actor's work.
EditsArePreserved ==
    [][Somewhere(Foreign) /\ edits' = edits => Somewhere(Foreign)']_cwVars

ReadableFiles ==
    {f \in {target[t] : t \in Target} \cup {temp[o] : o \in Op} : Readable(f)}

\* A text edit that races the atomic exchange, of an apply or of a rollback, is
\* put back: the broker removes no text file it did not write, with two
\* exceptions.  The finally clause unlinks one if the path was edited a second
\* time before the exchange was checked, and recovery unlinks one that a dead
\* process left at the temporary name.
TextEditsArePreserved ==
    [][edits' = edits =>
         \A f \in ReadableFiles \ ReadableFiles' :
           \E p \in Proc :
             /\ (At(p, "finally") /\ proc[p].raced) \/ (At(p, "cleanup") /\ faults > 0)
             /\ f = temp[proc[p].op]]_cwVars

\* A prepared create, and any write whose rollback proof is durable, reaches a
\* terminal state: crashes, I/O errors, an ended run and a rejected receipt
\* all end in committed, rolled back or failed once recover is called.
EveryWriteResolves ==
    \A o \in Op :
        (IF IsCreate(o) THEN Exists(o) ELSE operations[o].proof)
          ~> operations[o].state \in Terminal
=============================================================================

----------------------------- MODULE LoopEngine -----------------------------
(***************************************************************************)
(* One run of a bounded loop: BoundedLoopEngine over InMemoryLoopJournal   *)
(* or SQLiteLoopJournal (eco_loops/engine.py).                             *)
(*                                                                         *)
(* A driver is a caller of run() or recover(): a process on the SQLite     *)
(* journal, a thread on the in-memory one.  It works on its own copy of    *)
(* the checkpoint; between two of its steps other drivers commit           *)
(* transitions, an operator cancels or throws the kill switch, and the     *)
(* clock moves.  transition() is one critical section (BEGIN IMMEDIATE, or *)
(* a lock) and compares the journal with the copy.  The SQLite load() is   *)
(* two statements outside any transaction: the row, and the events         *)
(* against which _verify checks it.  The in-memory journal does Commit,    *)
(* Load and Verify with nothing in between, so its behaviours are among    *)
(* these.                                                                  *)
(*                                                                         *)
(* Events repeat what the checkpoint of their sequence number holds, and   *)
(* their digests identify it, so a checkpoint stands for its history.      *)
(***************************************************************************)
EXTENDS Integers, FiniteSets

CONSTANTS
  Drivers,
  Resources,        \* tokens, cost, storage: all are budgeted alike
  MaxUsage,         \* max_tokens, max_cost_microusd, max_storage_bytes
  Reserve,          \* reserve_..._per_attempt
  MaxAttempts, MaxIterations,
  MaxStagnant,      \* retry.max_stagnant_iterations
  Progress,         \* progress digests a gate may report
  MaxTrouble,       \* bound on interruptions and on turns of clock and kill switch
  None

ASSUME LoopAssumption ==
  /\ MaxUsage \in [Resources -> Nat] /\ Reserve \in [Resources -> Nat]
  /\ MaxAttempts \in Nat \ {0} /\ MaxIterations \in Nat \ {0}
  /\ MaxStagnant \in Nat \ {0} /\ MaxTrouble \in Nat
  /\ None \notin Progress \cup Nat

VARIABLES
  journal,    \* the stored checkpoint
  cancelled,  \* request_cancel was called
  killed,     \* the kill switch
  late,       \* the clock reads past the deadline
  trouble,    \* interruptions and turns of clock and kill switch so far
  driver,     \* the local variables of each call
  ran,        \* ghost: executor calls on the running checkpoint of each attempt
  stray,      \* ghost: executor calls on a checkpoint that is not running
  passed,     \* ghost: sequence numbers of the checkpoints a gate passed
  atCancel    \* ghost: attempts reserved when cancellation was requested, or None

outside == <<cancelled, killed, late, trouble, atCancel>>
ghosts == <<ran, stray, passed>>
vars == <<journal, outside, driver, ghosts>>

\* LoopCheckpoint
Terminal == {"succeeded", "failed", "exhausted", "cancelled"}
LoopStates == {"none", "new", "ready", "running", "gating", "retry-wait"} \cup Terminal
Checkpoints ==
  [state : LoopStates, sequence : Nat, attempts : Nat, iterations : Nat,
   used : [Resources -> Nat], progress : Progress \cup {None}, stagnant : Nat]
NoCheckpoint ==
  [state |-> "none", sequence |-> 0, attempts |-> 0, iterations |-> 0,
   used |-> [r \in Resources |-> 0], progress |-> None, stagnant |-> 0]

Off == [pc |-> "off", cp |-> NoCheckpoint, want |-> NoCheckpoint, then |-> "return",
        got |-> None]

LoopInit ==
  /\ journal = NoCheckpoint
  /\ cancelled = FALSE /\ killed = FALSE /\ late = FALSE /\ trouble = 0
  /\ driver = [d \in Drivers |-> Off]
  /\ ran = [k \in 0..MaxAttempts |-> 0] /\ stray = 0 /\ passed = {}
  /\ atCancel = None

-----------------------------------------------------------------------------
(* The journal.                                                             *)

\* Mutant: a failed run may be taken up again.
Allowed_Reopens(state) ==
  CASE state = "new" -> {"ready", "cancelled"}
    [] state \in {"ready", "retry-wait"} -> {"running", "cancelled", "exhausted"}
    [] state = "running" -> {"gating", "retry-wait", "failed", "cancelled", "exhausted"}
    [] state = "gating" -> {"succeeded", "retry-wait", "failed", "cancelled", "exhausted"}
    [] state = "failed" -> {"retry-wait", "gating"}
    [] OTHER -> {}

\* TRANSITIONS
Allowed(state) ==
  CASE state = "new" -> {"ready", "cancelled"}
    [] state = "ready" -> {"running", "cancelled", "exhausted"}
    [] state = "running" -> {"gating", "retry-wait", "failed", "cancelled", "exhausted"}
    [] state = "gating" -> {"succeeded", "retry-wait", "failed", "cancelled", "exhausted"}
    [] state = "retry-wait" -> {"running", "cancelled", "exhausted"}
    [] OTHER -> {}

\* The checkpoint after cp with nothing but its state changed, with another attempt
\* reserved, with another iteration, and with the verdict of a gate.
Moved(cp, state) == [cp EXCEPT !.state = state, !.sequence = cp.sequence + 1]
Reserved(cp) ==
  [Moved(cp, "running") EXCEPT
     !.attempts = cp.attempts + 1,
     !.used = [r \in Resources |-> cp.used[r] + Reserve[r]]]
Iterated(cp) == [Moved(cp, "gating") EXCEPT !.iterations = cp.iterations + 1]
Stagnant(cp, p) == IF cp.progress = p THEN cp.stagnant + 1 ELSE 0
Judged(cp, state, p) ==
  [Moved(cp, state) EXCEPT !.progress = p, !.stagnant = Stagnant(cp, p)]

At(d, pc) == driver[d].pc = pc
Local(d) == driver[d].cp
To(d, pc) == driver' = [driver EXCEPT ![d].pc = pc]
Leave(d) == driver' = [driver EXCEPT ![d] = Off]

\* The call goes on to transition(cp, ...), which leads to the checkpoint want.
Propose(d, cp, want, then) ==
  driver' = [driver EXCEPT ![d] = [pc |-> "commit", cp |-> cp, want |-> want,
                                   then |-> then, got |-> None]]

\* The engine continues with the checkpoint it was given.
Goes(d, cp) ==
  driver' = [driver EXCEPT ![d] =
    IF driver[d].then = "return" THEN Off ELSE [Off EXCEPT !.pc = driver[d].then, !.cp = cp]]

\* Mutant: only the state is looked at.
Commit_Blind(d) ==
  /\ At(d, "commit")
  /\ \/ /\ driver[d].want.state \in Allowed(journal.state)
        /\ journal' = driver[d].want
        /\ To(d, "load")
     \/ /\ driver[d].want.state \notin Allowed(journal.state)
        /\ Leave(d) /\ UNCHANGED journal
  /\ UNCHANGED <<outside, ghosts>>

\* transition: the journal must be what the caller saw; a run that has ended
\* meanwhile is returned as it stands.  The SQLite journal loads what it wrote.
Commit(d) ==
  /\ At(d, "commit")
  /\ \/ /\ journal = Local(d)
        /\ driver[d].want.state \in Allowed(journal.state)
        /\ journal' = driver[d].want
        /\ To(d, "load")
     \/ /\ journal = Local(d)
        /\ driver[d].want.state \notin Allowed(journal.state)
        /\ Leave(d) /\ UNCHANGED journal
     \/ /\ journal # Local(d) /\ journal.state \in Terminal
        /\ Goes(d, journal) /\ UNCHANGED journal
     \/ /\ journal # Local(d) /\ journal.state \notin Terminal
        /\ Leave(d) /\ UNCHANGED journal
  /\ UNCHANGED <<outside, ghosts>>

\* load: the run's row ...
Load(d) ==
  /\ At(d, "load")
  /\ driver' = [driver EXCEPT ![d].cp = journal, ![d].pc = "verify"]
  /\ UNCHANGED <<journal, outside, ghosts>>

\* ... and _verify on its events: a transition committed in between is taken for
\* a corrupt journal.
Verify(d) ==
  /\ At(d, "verify")
  /\ IF journal.sequence = Local(d).sequence THEN Goes(d, Local(d)) ELSE Leave(d)
  /\ UNCHANGED <<journal, outside, ghosts>>

\* create: a run that exists is returned as it stands.
Create(d) ==
  LET found == IF journal.state = "none" THEN [journal EXCEPT !.state = "new"] ELSE journal
  IN
  /\ At(d, "create")
  /\ journal' = found
  /\ IF found.state = "new"
     THEN driver' = [driver EXCEPT ![d].pc = "start", ![d].cp = found]
     ELSE Goes(d, found)
  /\ UNCHANGED <<outside, ghosts>>

-----------------------------------------------------------------------------
(* BoundedLoopEngine.                                                       *)

\* Mutant: cancellation is not looked at.
Stopped_KillOnly == killed

\* stop_reason
Stopped == killed \/ cancelled

\* A call on a run that has ended returns its checkpoint; it is left out.
Run(d) ==
  /\ At(d, "off") /\ journal.state \notin Terminal
  /\ driver' = [driver EXCEPT ![d] = [Off EXCEPT !.pc = "create", !.then = "head"]]
  /\ UNCHANGED <<journal, outside, ghosts>>

\* start of a new run
Start(d) ==
  /\ At(d, "start")
  /\ Propose(d, Local(d), Moved(Local(d), IF Stopped THEN "cancelled" ELSE "ready"),
             driver[d].then)
  /\ UNCHANGED <<journal, outside, ghosts>>

\* Mutant: what the next attempt reserves is not counted.
OverBudget_UsedOnly(cp) ==
  \/ cp.attempts >= MaxAttempts
  \/ cp.iterations >= MaxIterations
  \/ \E r \in Resources : cp.used[r] > MaxUsage[r]

OverBudget(cp) ==
  \/ cp.attempts >= MaxAttempts
  \/ cp.iterations >= MaxIterations
  \/ \E r \in Resources : cp.used[r] + Reserve[r] > MaxUsage[r]

\* The loop condition, _stop_or_budget and the reservation of an attempt.
Head(d) ==
  LET cp == Local(d) IN
  /\ At(d, "head")
  /\ IF cp.state \notin {"ready", "retry-wait"} THEN Leave(d)
     ELSE IF Stopped THEN Propose(d, cp, Moved(cp, "cancelled"), "return")
     ELSE IF late \/ OverBudget(cp) THEN Propose(d, cp, Moved(cp, "exhausted"), "return")
     ELSE Propose(d, cp, Reserved(cp), "execute")
  /\ UNCHANGED <<journal, outside, ghosts>>

\* executor(checkpoint), whatever state the checkpoint is in: a candidate, an error
\* of a class that may be retried, one that may not, or an exception.
Execute(d) ==
  LET cp == Local(d) IN
  /\ At(d, "execute")
  /\ \/ \E got \in {"candidate", "retryable", "fatal"} :
          driver' = [driver EXCEPT ![d].pc = "executed", ![d].got = got]
     \/ Propose(d, cp, Moved(cp, "failed"), "return")
  /\ IF cp.state = "running"
     THEN ran' = [ran EXCEPT ![cp.attempts] = @ + 1] /\ UNCHANGED stray
     ELSE stray' = stray + 1 /\ UNCHANGED ran
  /\ UNCHANGED <<journal, outside, passed>>

Executed(d) ==
  LET cp == Local(d) IN
  /\ At(d, "executed")
  /\ IF Stopped THEN Propose(d, cp, Moved(cp, "cancelled"), "return")
     ELSE IF late THEN Propose(d, cp, Moved(cp, "exhausted"), "return")
     ELSE CASE driver[d].got = "retryable" -> Propose(d, cp, Moved(cp, "retry-wait"), "head")
            [] driver[d].got = "fatal" -> Propose(d, cp, Moved(cp, "failed"), "return")
            [] OTHER -> Propose(d, cp, Iterated(cp), "gate")
  /\ UNCHANGED <<journal, outside, ghosts>>

\* gate(checkpoint, attempt): a verdict with its progress, or an exception.
Gate(d) ==
  LET cp == Local(d) IN
  /\ At(d, "gate")
  /\ \/ \E v \in {"pass", "retryable", "fatal"}, p \in Progress :
          /\ driver' = [driver EXCEPT ![d].pc = "gated", ![d].got = <<v, p>>]
          /\ passed' = IF v = "pass" THEN passed \cup {cp.sequence} ELSE passed
     \/ Propose(d, cp, Moved(cp, "failed"), "return") /\ UNCHANGED passed
  /\ UNCHANGED <<journal, outside, ran, stray>>

\* Mutant: a gate that reports the same progress again counts as passed.
Gated_Promotes(d) ==
  LET cp == Local(d)
      v == driver[d].got[1]
      p == driver[d].got[2]
  IN
  /\ At(d, "gated")
  /\ IF Stopped THEN Propose(d, cp, Moved(cp, "cancelled"), "return")
     ELSE IF v = "pass" \/ cp.progress = p
     THEN Propose(d, cp, Judged(cp, "succeeded", p), "return")
     ELSE Propose(d, cp, Judged(cp, "retry-wait", p), "head")
  /\ UNCHANGED <<journal, outside, ghosts>>

Gated(d) ==
  LET cp == Local(d)
      v == driver[d].got[1]
      p == driver[d].got[2]
  IN
  /\ At(d, "gated")
  /\ IF Stopped THEN Propose(d, cp, Moved(cp, "cancelled"), "return")
     ELSE IF late THEN Propose(d, cp, Moved(cp, "exhausted"), "return")
     ELSE CASE v = "pass" -> Propose(d, cp, Judged(cp, "succeeded", p), "return")
            [] v = "fatal" -> Propose(d, cp, Judged(cp, "failed", p), "return")
            [] v = "retryable" /\ Stagnant(cp, p) >= MaxStagnant ->
                 Propose(d, cp, Judged(cp, "exhausted", p), "return")
            [] OTHER -> Propose(d, cp, Judged(cp, "retry-wait", p), "head")
  /\ UNCHANGED <<journal, outside, ghosts>>

\* recover: loads the run, and takes one that is under way for ambiguous.
Recover(d) ==
  /\ At(d, "off") /\ journal.state \notin Terminal \cup {"none"}
  /\ driver' = [driver EXCEPT ![d] = [Off EXCEPT !.pc = "load", !.then = "recover"]]
  /\ UNCHANGED <<journal, outside, ghosts>>

\* Mutant: an attempt under way is left alone.
Recovered_Passive(d) ==
  /\ At(d, "recover")
  /\ IF Local(d).state = "new" THEN To(d, "create") ELSE Leave(d)
  /\ UNCHANGED <<journal, outside, ghosts>>

Recovered(d) ==
  LET cp == Local(d) IN
  /\ At(d, "recover")
  /\ CASE cp.state = "new" -> To(d, "create")
       [] cp.state \in {"running", "gating"} ->
            Propose(d, cp, Moved(cp, "failed"), "return")
       [] OTHER -> Leave(d)
  /\ UNCHANGED <<journal, outside, ghosts>>

Trouble == trouble < MaxTrouble /\ trouble' = trouble + 1

\* The process or the thread is interrupted.
Crash(d) ==
  /\ ~At(d, "off")
  /\ Trouble
  /\ Leave(d)
  /\ UNCHANGED <<journal, cancelled, killed, late, atCancel, ghosts>>

RequestCancel ==
  /\ journal.state # "none" /\ ~cancelled
  /\ cancelled' = TRUE /\ atCancel' = journal.attempts
  /\ UNCHANGED <<journal, killed, late, trouble, driver, ghosts>>

SetKillSwitch ==
  /\ Trouble
  /\ killed' = ~killed
  /\ UNCHANGED <<journal, cancelled, late, atCancel, driver, ghosts>>

\* Time passes the deadline, or the wall clock is set back.
Clock ==
  /\ Trouble
  /\ late' = ~late
  /\ UNCHANGED <<journal, cancelled, killed, atCancel, driver, ghosts>>

DriverStep(d) ==
  \/ Create(d) \/ Start(d) \/ Head(d) \/ Commit(d) \/ Load(d) \/ Verify(d)
  \/ Execute(d) \/ Executed(d) \/ Gate(d) \/ Gated(d) \/ Recovered(d)

LoopNext ==
  \/ \E d \in Drivers : DriverStep(d) \/ Run(d) \/ Recover(d) \/ Crash(d)
  \/ RequestCancel \/ SetKillSwitch \/ Clock

LoopSpec == LoopInit /\ [][LoopNext]_vars

\* Calls that are not interrupted run to their end, and a run is driven and
\* recovered again and again: whoever started it is assumed to come back.
FairLoopSpec ==
  /\ LoopSpec
  /\ \A d \in Drivers :
       /\ WF_vars(DriverStep(d)) /\ SF_vars(Run(d)) /\ SF_vars(Recover(d))
-----------------------------------------------------------------------------
(* Properties.                                                              *)

Points == {"off", "create", "start", "head", "commit", "load", "verify", "execute",
           "executed", "gate", "gated", "recover"}
DriverStates ==
  [pc : Points, cp : Checkpoints, want : Checkpoints,
   then : {"return", "head", "execute", "gate", "recover"},
   got : {None, "candidate", "retryable", "fatal"}
           \cup ({"pass", "retryable", "fatal"} \X Progress)]

\* The journal holds a checkpoint, and each call is at a step of the engine.
LoopTypeOK ==
  /\ journal \in Checkpoints
  /\ cancelled \in BOOLEAN /\ killed \in BOOLEAN
  /\ late \in BOOLEAN /\ trouble \in Nat
  /\ driver \in [Drivers -> DriverStates]
  /\ ran \in [0..MaxAttempts -> Nat] /\ stray \in Nat /\ passed \subseteq Nat
  /\ atCancel \in Nat \cup {None}

\* What is reserved never exceeds the definition's limits, although the limits are
\* checked on a copy of the checkpoint (_stop_or_budget, transition).
ReservationsFitBudget ==
  /\ journal.attempts <= MaxAttempts /\ journal.iterations <= MaxIterations
  /\ \A r \in Resources : journal.used[r] <= MaxUsage[r]

\* "never repeats an ambiguous started attempt": the executor is called at most
\* once on the running checkpoint of an attempt, and only on one that was
\* reserved, whoever drives, recovers or dies (run, recover, transition).
AttemptsRunOnce ==
  \A k \in 0..MaxAttempts : ran[k] <= (IF k \in 1..journal.attempts THEN 1 ELSE 0)

\* A run succeeds only by the verdict of a gate on the checkpoint before, for an
\* attempt that was executed (run).
SuccessIsGated ==
  journal.state = "succeeded" =>
    journal.sequence - 1 \in passed /\ ran[journal.attempts] = 1

\* After request_cancel at most one more attempt is reserved: the one whose driver
\* had already asked stop_reason (_stop_or_budget, transition).
CancellationStopsLoop == cancelled => journal.attempts <= atCancel + 1

\* The checkpoint of a run that ended is never replaced (transition).
OneTerminalOutcome == [][journal.state \in Terminal => journal' = journal]_vars

\* A run that is driven and recovered ends: budgets, conflicts and the recovery of
\* ambiguous attempts leave it no way to go on or to hang (run, recover).
LoopsEnd == journal.state # "none" ~> journal.state \in Terminal

\* "kill switch and operator cancellation stop the loop", and "concurrent resume fail
\* closed": once the run has ended, no driver calls its executor (run, transition).
NoAttemptAfterTheEnd == stray = 0
=============================================================================

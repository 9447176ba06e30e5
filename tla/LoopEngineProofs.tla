-------------------------- MODULE LoopEngineProofs --------------------------
(***************************************************************************)
(* Proofs about LoopEngine, for any number of drivers and any limits.      *)
(*                                                                         *)
(* The argument is ownership.  The attempt that the journal shows as       *)
(* running or gating belongs to the one call that reserved it; every other *)
(* call that still holds a copy of that checkpoint can only end the run.   *)
(* So nobody else can take the journal back to a state from which the      *)
(* attempt would be reserved or executed again.                            *)
(***************************************************************************)
EXTENDS LoopEngine, TLAPS

Active == {"running", "gating"}

\* The call is working on the attempt it reserved.
Owns(r) ==
  \/ r.pc \in {"load", "verify"} /\ r.then \in {"execute", "gate"}
  \/ r.pc \in {"execute", "executed", "gate", "gated"} /\ r.cp.state \in Active
  \/ r.pc = "commit" /\ r.cp.state \in Active /\ r.want.state \notin Terminal

\* The number of that attempt.
Mine(r) == IF r.pc \in {"load", "verify"} THEN r.want.attempts ELSE r.cp.attempts

\* Its executor has not been called yet.
Early(r) ==
  \/ r.pc \in {"load", "verify"} /\ r.then = "execute"
  \/ r.pc = "execute" /\ r.cp.state = "running"

\* What a call may propose: to reserve an attempt, to gate one, or anything that
\* changes no usage.
Proposal(r) ==
  \/ /\ r.want = Reserved(r.cp) /\ r.then = "execute"
     /\ r.cp.state \in {"ready", "retry-wait"} /\ ~OverBudget(r.cp)
  \/ r.want = Iterated(r.cp) /\ r.then = "gate"
  \/ /\ r.want.state \notin Active \cup {"none", "new"}
     /\ r.want.sequence = r.cp.sequence + 1
     /\ r.want.attempts = r.cp.attempts /\ r.want.iterations = r.cp.iterations
     /\ r.want.used = r.cp.used
     /\ r.then \in {"return", "head"}

RowOK(r, j) ==
  /\ r.pc = "start" => r.cp.state = "new" /\ r.then \in {"return", "head"}
  /\ r.pc \in {"create", "recover"} => r.then \in {"return", "head"}
  /\ r.pc = "gated" => r.got \in {"pass", "retryable", "fatal"} \X Progress
  /\ r.pc = "commit" => Proposal(r)
  /\ r.pc \in {"load", "verify"} => j.state # "none"
  /\ r.pc = "verify" => /\ r.cp.sequence <= j.sequence
                        /\ r.cp.sequence = j.sequence => r.cp = j
  /\ Owns(r) => /\ Mine(r) \in 1..j.attempts
                /\ j.state \in Terminal \/ (j.state \in Active /\ j.attempts = Mine(r))

WithinLimits(j) ==
  /\ j.attempts <= MaxAttempts /\ j.iterations <= MaxIterations
  /\ j.state = "running" => j.iterations < MaxIterations
  /\ \A r \in Resources : j.used[r] <= MaxUsage[r]

OneOwner == \A d, e \in Drivers : Owns(driver[d]) /\ Owns(driver[e]) => d = e

RanOnce ==
  /\ \A k \in 0..MaxAttempts : ran[k] <= 1 /\ (ran[k] = 1 => k \in 1..journal.attempts)
  /\ \A d \in Drivers : Early(driver[d]) => ran[Mine(driver[d])] = 0

LoopInv ==
  /\ LoopTypeOK
  /\ WithinLimits(journal)
  /\ \A d \in Drivers : RowOK(driver[d], journal)
  /\ OneOwner
  /\ RanOnce
-----------------------------------------------------------------------------
(* Checkpoints and rows                                                    *)

\* The checkpoints that Moved, Reserved, Iterated and Judged build from another.
LEMMA MovedCheckpoint ==
  ASSUME NEW cp \in Checkpoints, NEW s \in LoopStates
  PROVE  /\ Moved(cp, s) \in Checkpoints
         /\ Moved(cp, s).state = s /\ Moved(cp, s).sequence = cp.sequence + 1
         /\ Moved(cp, s).attempts = cp.attempts /\ Moved(cp, s).iterations = cp.iterations
         /\ Moved(cp, s).used = cp.used
  <1> DEFINE n == cp.sequence + 1
  <1>1. n \in Nat
    BY DEF Checkpoints
  <1> HIDE DEF n
  <1>2. [cp EXCEPT !.state = s, !.sequence = n] \in Checkpoints
    BY <1>1, Zenon DEF Checkpoints
  <1>3. Moved(cp, s) = [cp EXCEPT !.state = s, !.sequence = n]
    BY DEF Moved, n
  <1>4. QED
    BY <1>2, <1>3 DEF Checkpoints, n

LEMMA ReservedCheckpoint ==
  ASSUME NEW cp \in Checkpoints
  PROVE  /\ Reserved(cp) \in Checkpoints
         /\ Reserved(cp).state = "running" /\ Reserved(cp).sequence = cp.sequence + 1
         /\ Reserved(cp).attempts = cp.attempts + 1
         /\ Reserved(cp).iterations = cp.iterations
         /\ \A r \in Resources : Reserved(cp).used[r] = cp.used[r] + Reserve[r]
  <1> DEFINE m == Moved(cp, "running")
             a == cp.attempts + 1
             u == [r \in Resources |-> cp.used[r] + Reserve[r]]
  <1>1. a \in Nat /\ u \in [Resources -> Nat]
    BY LoopAssumption DEF Checkpoints
  <1>2. /\ m \in Checkpoints /\ m.state = "running" /\ m.sequence = cp.sequence + 1
        /\ m.iterations = cp.iterations
    BY MovedCheckpoint DEF LoopStates
  <1>3. Reserved(cp) = [m EXCEPT !.attempts = a, !.used = u]
    BY DEF Reserved
  <1>4. \A r \in Resources : u[r] = cp.used[r] + Reserve[r]
    OBVIOUS
  <1>5. a = cp.attempts + 1
    OBVIOUS
  <1> HIDE DEF m, a, u
  <1>6. [m EXCEPT !.attempts = a, !.used = u] \in Checkpoints
    BY <1>1, <1>2, Zenon DEF Checkpoints
  <1>7. QED
    BY <1>1, <1>2, <1>3, <1>4, <1>5, <1>6 DEF Checkpoints

LEMMA IteratedCheckpoint ==
  ASSUME NEW cp \in Checkpoints
  PROVE  /\ Iterated(cp) \in Checkpoints
         /\ Iterated(cp).state = "gating" /\ Iterated(cp).sequence = cp.sequence + 1
         /\ Iterated(cp).attempts = cp.attempts
         /\ Iterated(cp).iterations = cp.iterations + 1
         /\ Iterated(cp).used = cp.used
  <1> DEFINE m == Moved(cp, "gating")
  <1>1. /\ m \in Checkpoints /\ m.state = "gating" /\ m.sequence = cp.sequence + 1
        /\ m.attempts = cp.attempts /\ m.used = cp.used
    BY MovedCheckpoint DEF LoopStates
  <1>2. Iterated(cp) = [m EXCEPT !.iterations = cp.iterations + 1]
    BY DEF Iterated
  <1> HIDE DEF m
  <1>3. QED
    BY <1>1, <1>2 DEF Checkpoints

LEMMA JudgedCheckpoint ==
  ASSUME NEW cp \in Checkpoints, NEW s \in LoopStates, NEW p \in Progress
  PROVE  /\ Judged(cp, s, p) \in Checkpoints
         /\ Judged(cp, s, p).state = s /\ Judged(cp, s, p).sequence = cp.sequence + 1
         /\ Judged(cp, s, p).attempts = cp.attempts
         /\ Judged(cp, s, p).iterations = cp.iterations
         /\ Judged(cp, s, p).used = cp.used
  <1> DEFINE m == Moved(cp, s)
             n == Stagnant(cp, p)
  <1>1. n \in Nat
    BY DEF Stagnant, Checkpoints
  <1>2. /\ m \in Checkpoints /\ m.state = s /\ m.sequence = cp.sequence + 1
        /\ m.attempts = cp.attempts /\ m.iterations = cp.iterations /\ m.used = cp.used
    BY MovedCheckpoint
  <1>3. Judged(cp, s, p) = [m EXCEPT !.progress = p, !.stagnant = n]
    BY DEF Judged
  <1> HIDE DEF m, n
  <1>4. [m EXCEPT !.progress = p, !.stagnant = n] \in Checkpoints
    BY <1>1, <1>2, Zenon DEF Checkpoints
  <1>5. QED
    BY <1>1, <1>2, <1>3, <1>4 DEF Checkpoints

\* An idle call owns nothing and has a well-formed row.
LEMMA OffRow ==
  ASSUME NEW j PROVE Off \in DriverStates /\ RowOK(Off, j) /\ ~Owns(Off) /\ ~Early(Off)
  <1>1. NoCheckpoint \in Checkpoints
    BY DEF NoCheckpoint, Checkpoints, LoopStates
  <1>2. Off \in DriverStates
    BY <1>1 DEF Off, DriverStates, Points
  <1>3. QED
    BY <1>2 DEF Off, RowOK, Owns, Early

-----------------------------------------------------------------------------
(* Steps that leave the journal alone                                      *)

Frame ==
  /\ cancelled' \in BOOLEAN /\ killed' \in BOOLEAN /\ late' \in BOOLEAN /\ trouble' \in Nat
  /\ stray' \in Nat /\ passed' \subseteq Nat /\ atCancel' \in Nat \cup {None}

\* A call moves on to row r, and gains no ownership by that.
LEMMA LocalStep ==
  ASSUME LoopInv, Frame, NEW d \in Drivers, NEW r \in DriverStates,
         driver' = [driver EXCEPT ![d] = r], journal' = journal,
         ran' \in [0..MaxAttempts -> Nat], RanOnce',
         RowOK(r, journal), Owns(r) => Owns(driver[d])
  PROVE  LoopInv'
  <1>1. /\ driver'[d] = r /\ \A e \in Drivers \ {d} : driver'[e] = driver[e]
        /\ driver' \in [Drivers -> DriverStates]
    BY DEF LoopInv, LoopTypeOK
  <1>2. LoopTypeOK'
    BY <1>1 DEF LoopInv, LoopTypeOK, Frame
  <1>3. \A e \in Drivers : RowOK(driver[e], journal)'
    BY <1>1 DEF LoopInv, RowOK, Proposal, Owns, Mine
  <1>4. OneOwner'
    BY <1>1 DEF LoopInv, OneOwner, Owns
  <1>5. WithinLimits(journal)'
    BY DEF LoopInv, WithinLimits
  <1>6. QED
    BY <1>2, <1>3, <1>4, <1>5 DEF LoopInv

\* The same for a step that calls no executor.
LEMMA QuietStep ==
  ASSUME LoopInv, Frame, NEW d \in Drivers, NEW r \in DriverStates,
         driver' = [driver EXCEPT ![d] = r], journal' = journal, ran' = ran,
         RowOK(r, journal), Owns(r) => Owns(driver[d]),
         Early(r) => Early(driver[d]) /\ Mine(r) = Mine(driver[d])
  PROVE  LoopInv'
  <1>1. driver'[d] = r /\ \A e \in Drivers \ {d} : driver'[e] = driver[e]
    BY DEF LoopInv, LoopTypeOK
  <1>2. RanOnce'
    BY <1>1 DEF LoopInv, RanOnce, Early, Mine
  <1>3. QED
    BY <1>2, LocalStep, Zenon DEF LoopInv, LoopTypeOK

LEMMA LeaveStep ==
  ASSUME LoopInv, Frame, NEW d \in Drivers, Leave(d), journal' = journal, ran' = ran
  PROVE  LoopInv'
  BY OffRow, QuietStep, Zenon DEF Leave

\* A call goes on to transition; if that leaves its attempt open, the call owns it.
LEMMA ProposeStep ==
  ASSUME LoopInv, Frame, NEW d \in Drivers, journal' = journal, ran' = ran,
         NEW want \in Checkpoints, NEW then \in {"return", "head", "execute", "gate"},
         Propose(d, driver[d].cp, want, then),
         Proposal([pc |-> "commit", cp |-> driver[d].cp, want |-> want, then |-> then,
                   got |-> None]),
         want.state \in Terminal \/ driver[d].cp.state \notin Active
           \/ (Owns(driver[d]) /\ driver[d].pc \notin {"load", "verify"})
  PROVE  LoopInv'
  <1> DEFINE r == [pc |-> "commit", cp |-> driver[d].cp, want |-> want, then |-> then,
                   got |-> None]
  <1>1. driver[d] \in DriverStates /\ RowOK(driver[d], journal)
    BY DEF LoopInv, LoopTypeOK
  <1>2. r \in DriverStates
    BY <1>1 DEF DriverStates, Points
  <1>3. /\ r.pc = "commit" /\ r.cp = driver[d].cp /\ r.want = want /\ Proposal(r)
        /\ driver' = [driver EXCEPT ![d] = r]
    BY DEF Propose
  <1> HIDE DEF r
  <1>4. ~Early(r)
    BY <1>3 DEF Early
  <1>5. Owns(r) => Owns(driver[d]) /\ Mine(r) = Mine(driver[d])
    BY <1>3 DEF Owns, Mine
  <1>6. RowOK(r, journal)
    BY <1>1, <1>3, <1>5 DEF RowOK
  <1>7. QED
    BY <1>2, <1>3, <1>4, <1>5, <1>6, QuietStep, Zenon

\* The proposals that end the run or let it wait.
LEMMA MovedProposal ==
  ASSUME LoopInv, Frame, NEW d \in Drivers, journal' = journal, ran' = ran,
         NEW s \in Terminal \cup {"ready", "retry-wait"}, NEW then \in {"return", "head"},
         Propose(d, driver[d].cp, Moved(driver[d].cp, s), then),
         s \in Terminal \/ driver[d].cp.state \notin Active
           \/ (Owns(driver[d]) /\ driver[d].pc \notin {"load", "verify"})
  PROVE  LoopInv'
  <1>1. driver[d].cp \in Checkpoints /\ s \in LoopStates
    BY DEF LoopInv, LoopTypeOK, DriverStates, LoopStates, Terminal
  <1> DEFINE w == Moved(driver[d].cp, s)
             r == [pc |-> "commit", cp |-> driver[d].cp, want |-> w, then |-> then,
                   got |-> None]
  <1>2. /\ w \in Checkpoints /\ w.state = s /\ w.sequence = driver[d].cp.sequence + 1
        /\ w.attempts = driver[d].cp.attempts /\ w.iterations = driver[d].cp.iterations
        /\ w.used = driver[d].cp.used
    BY <1>1, MovedCheckpoint
  <1>3. Propose(d, driver[d].cp, w, then)
    OBVIOUS
  <1> HIDE DEF w
  <1>4. Proposal(r)
    BY <1>2 DEF Proposal, Terminal, Active
  <1>5. QED
    BY <1>2, <1>3, <1>4, ProposeStep, Zenon

LEMMA JudgedProposal ==
  ASSUME LoopInv, Frame, NEW d \in Drivers, journal' = journal, ran' = ran,
         NEW s \in Terminal \cup {"retry-wait"}, NEW then \in {"return", "head"},
         NEW p \in Progress,
         Propose(d, driver[d].cp, Judged(driver[d].cp, s, p), then),
         driver[d].pc = "gated"
  PROVE  LoopInv'
  <1>1. driver[d].cp \in Checkpoints /\ s \in LoopStates
    BY DEF LoopInv, LoopTypeOK, DriverStates, LoopStates, Terminal
  <1> DEFINE w == Judged(driver[d].cp, s, p)
             r == [pc |-> "commit", cp |-> driver[d].cp, want |-> w, then |-> then,
                   got |-> None]
  <1>2. /\ w \in Checkpoints /\ w.state = s /\ w.sequence = driver[d].cp.sequence + 1
        /\ w.attempts = driver[d].cp.attempts /\ w.iterations = driver[d].cp.iterations
        /\ w.used = driver[d].cp.used
    BY <1>1, JudgedCheckpoint
  <1>3. Propose(d, driver[d].cp, w, then)
    OBVIOUS
  <1> HIDE DEF w
  <1>4. Proposal(r)
    BY <1>2 DEF Proposal, Terminal, Active
  <1>5. driver[d].cp.state \notin Active \/ Owns(driver[d])
    BY DEF Owns
  <1>6. QED
    BY <1>2, <1>3, <1>4, <1>5, ProposeStep, Zenon

LEMMA FrameKept ==
  ASSUME LoopInv, UNCHANGED <<outside, ghosts>>
  PROVE  Frame /\ ran' = ran
  BY DEF LoopInv, LoopTypeOK, Frame, outside, ghosts

-----------------------------------------------------------------------------
(* The steps of the engine                                                 *)

LEMMA RunStep ==
  ASSUME LoopInv, NEW d \in Drivers, Run(d) \/ Recover(d)
  PROVE  LoopInv'
  <1>1. Frame /\ ran' = ran /\ journal' = journal
    BY FrameKept DEF Run, Recover
  <1> DEFINE a == [Off EXCEPT !.pc = "create", !.then = "head"]
             b == [Off EXCEPT !.pc = "load", !.then = "recover"]
  <1>2. Off \in DriverStates
    BY OffRow
  <1>3. /\ a \in DriverStates /\ a.pc = "create" /\ a.then = "head"
        /\ b \in DriverStates /\ b.pc = "load" /\ b.then = "recover"
    BY <1>2, Zenon DEF DriverStates, Points
  <1>4. Run(d) => driver' = [driver EXCEPT ![d] = a]
    BY DEF Run
  <1>5. Recover(d) => driver' = [driver EXCEPT ![d] = b] /\ journal.state # "none"
    BY DEF Recover
  <1> HIDE DEF a, b
  <1>6. ~Owns(a) /\ ~Early(a) /\ RowOK(a, journal)
    BY <1>3 DEF Owns, Early, RowOK
  <1>7. journal.state # "none" => ~Owns(b) /\ ~Early(b) /\ RowOK(b, journal)
    BY <1>3 DEF Owns, Early, RowOK
  <1>8. QED
    BY <1>1, <1>3, <1>4, <1>5, <1>6, <1>7, QuietStep

LEMMA StartStep ==
  ASSUME LoopInv, NEW d \in Drivers, Start(d) PROVE LoopInv'
  <1>1. Frame /\ ran' = ran /\ journal' = journal
    BY FrameKept DEF Start
  <1>2. driver[d].cp.state = "new" /\ driver[d].then \in {"return", "head"}
    BY DEF LoopInv, RowOK, Start, At
  <1>3. \E s \in {"cancelled", "ready"} :
          Propose(d, driver[d].cp, Moved(driver[d].cp, s), driver[d].then)
    BY DEF Start, Local
  <1>4. QED
    BY <1>1, <1>2, <1>3, MovedProposal DEF Terminal, Active

LEMMA HeadStep ==
  ASSUME LoopInv, NEW d \in Drivers, Head(d) PROVE LoopInv'
  <1> DEFINE cp == driver[d].cp
  <1>1. Frame /\ ran' = ran /\ journal' = journal
    BY FrameKept DEF Head
  <1>2. CASE Leave(d)
    BY <1>1, <1>2, LeaveStep
  <1>3. CASE \E s \in {"cancelled", "exhausted"} : Propose(d, cp, Moved(cp, s), "return")
    BY <1>1, <1>3, MovedProposal DEF Terminal
  <1>4. CASE /\ cp.state \in {"ready", "retry-wait"} /\ ~OverBudget(cp)
             /\ Propose(d, cp, Reserved(cp), "execute")
    <2> DEFINE w == Reserved(cp)
               r == [pc |-> "commit", cp |-> cp, want |-> w, then |-> "execute", got |-> None]
    <2>1. cp \in Checkpoints
      BY DEF LoopInv, LoopTypeOK, DriverStates
    <2>2. w \in Checkpoints /\ cp.state \notin Active
      BY <1>4, <2>1, ReservedCheckpoint DEF Active
    <2>3. Proposal(r)
      BY <1>4 DEF Proposal
    <2>4. Propose(d, cp, w, "execute")
      BY <1>4
    <2> HIDE DEF w
    <2>5. QED
      BY <1>1, <2>2, <2>3, <2>4, ProposeStep, Zenon
  <1>5. QED
    BY <1>2, <1>3, <1>4 DEF Head, Local

LEMMA ExecuteStep ==
  ASSUME LoopInv, NEW d \in Drivers, Execute(d) PROVE LoopInv'
  <1> DEFINE cp == driver[d].cp
  <1>1. /\ driver[d] \in DriverStates /\ cp \in Checkpoints /\ driver[d].pc = "execute"
        /\ RowOK(driver[d], journal)
    BY DEF LoopInv, LoopTypeOK, DriverStates, Execute, At
  <1>2. PICK r \in DriverStates :
          /\ driver' = [driver EXCEPT ![d] = r]
          /\ RowOK(r, journal) /\ ~Early(r)
          /\ Owns(r) => Owns(driver[d])
    <2>1. CASE \E got \in {"candidate", "retryable", "fatal"} :
                 driver' = [driver EXCEPT ![d].pc = "executed", ![d].got = got]
      <3>1. PICK got \in {"candidate", "retryable", "fatal"} :
              driver' = [driver EXCEPT ![d].pc = "executed", ![d].got = got]
        BY <2>1, Zenon
      <3> DEFINE r == [driver[d] EXCEPT !.pc = "executed", !.got = got]
      <3>2. driver' = [driver EXCEPT ![d] = r]
        BY <3>1, Zenon DEF LoopInv, LoopTypeOK
      <3>3. r \in DriverStates /\ r.pc = "executed" /\ r.cp = cp
        BY <1>1, Zenon DEF DriverStates, Points
      <3> HIDE DEF r
      <3>4. ~Early(r)
        BY <3>3 DEF Early
      <3>5. Owns(r) => Owns(driver[d]) /\ Mine(r) = Mine(driver[d])
        BY <1>1, <3>3 DEF Owns, Mine
      <3>6. RowOK(r, journal)
        BY <1>1, <3>3, <3>5 DEF RowOK
      <3>7. QED
        BY <3>2, <3>3, <3>4, <3>5, <3>6, Zenon
    <2>2. CASE Propose(d, cp, Moved(cp, "failed"), "return")
      <3> DEFINE w == Moved(cp, "failed")
                 r == [pc |-> "commit", cp |-> cp, want |-> w, then |-> "return", got |-> None]
      <3>1. /\ w \in Checkpoints /\ w.state = "failed" /\ w.sequence = cp.sequence + 1
            /\ w.attempts = cp.attempts /\ w.iterations = cp.iterations /\ w.used = cp.used
        BY <1>1, MovedCheckpoint DEF LoopStates, Terminal
      <3>2. driver' = [driver EXCEPT ![d] = r]
        BY <2>2 DEF Propose
      <3> HIDE DEF w
      <3>3. r \in DriverStates
        BY <1>1, <3>1 DEF DriverStates, Points
      <3>4. Proposal(r)
        BY <3>1 DEF Proposal, Active
      <3>5. ~Owns(r) /\ ~Early(r)
        BY <3>1 DEF Owns, Early, Terminal
      <3>6. RowOK(r, journal)
        BY <3>4, <3>5 DEF RowOK
      <3>7. QED
        BY <3>2, <3>3, <3>5, <3>6, Zenon
    <2>3. QED
      BY <2>1, <2>2 DEF Execute, Local
  <1>3. Frame /\ journal' = journal
    BY DEF LoopInv, LoopTypeOK, Frame, Execute, outside
  <1>4. driver'[d] = r /\ \A e \in Drivers \ {d} : driver'[e] = driver[e]
    BY <1>2 DEF LoopInv, LoopTypeOK
  <1>5. ran' \in [0..MaxAttempts -> Nat] /\ RanOnce'
    <2>1. CASE cp.state = "running"
      <3>1. /\ Owns(driver[d]) /\ Early(driver[d]) /\ Mine(driver[d]) = cp.attempts
        BY <1>1, <2>1 DEF Owns, Early, Mine, Active
      <3>2. cp.attempts \in 1..journal.attempts /\ ran[cp.attempts] = 0
        BY <1>1, <3>1 DEF LoopInv, RowOK, RanOnce
      <3>3. journal.attempts \in Nat /\ journal.attempts <= MaxAttempts /\ MaxAttempts \in Nat
        BY LoopAssumption DEF LoopInv, LoopTypeOK, Checkpoints, WithinLimits
      <3>4. ran' = [ran EXCEPT ![cp.attempts] = ran[cp.attempts] + 1]
        BY <2>1 DEF Execute, Local
      <3>5. /\ ran' \in [0..MaxAttempts -> Nat] /\ ran'[cp.attempts] = 1
            /\ \A k \in 0..MaxAttempts : k # cp.attempts => ran'[k] = ran[k]
        BY <3>2, <3>3, <3>4 DEF LoopInv, LoopTypeOK
      <3>6. \A e \in Drivers \ {d} : Early(driver[e]) => Owns(driver[e])
        BY DEF Early, Owns, Active
      <3>7. \A e \in Drivers \ {d} : ~Early(driver[e])
        BY <3>1, <3>6 DEF LoopInv, OneOwner
      <3>8. \A e \in Drivers : ~Early(driver'[e])
        BY <1>2, <1>4, <3>7
      <3>9. \A k \in 0..MaxAttempts :
              ran'[k] <= 1 /\ (ran'[k] = 1 => k \in 1..journal'.attempts)
        BY <1>3, <3>2, <3>5 DEF LoopInv, RanOnce
      <3>10. \A e \in Drivers : ~Early(driver[e])'
        BY <3>8 DEF Early
      <3>11. QED
        BY <3>5, <3>9, <3>10 DEF RanOnce
    <2>2. CASE cp.state # "running"
      <3>1. ran' = ran
        BY <2>2 DEF Execute, Local
      <3>2. QED
        BY <1>2, <1>3, <1>4, <3>1 DEF LoopInv, LoopTypeOK, RanOnce, Early, Mine
    <2>3. QED
      BY <2>1, <2>2
  <1>6. QED
    BY <1>2, <1>3, <1>5, LocalStep, Zenon

LEMMA ExecutedStep ==
  ASSUME LoopInv, NEW d \in Drivers, Executed(d) PROVE LoopInv'
  <1> DEFINE cp == driver[d].cp
  <1>1. Frame /\ ran' = ran /\ journal' = journal
    BY FrameKept DEF Executed
  <1>2. driver[d].pc = "executed" /\ cp \in Checkpoints
    BY DEF LoopInv, LoopTypeOK, DriverStates, Executed, At
  <1>3. cp.state \notin Active \/ Owns(driver[d])
    BY <1>2 DEF Owns
  <1>4. CASE \E s \in {"cancelled", "exhausted", "failed"} : Propose(d, cp, Moved(cp, s), "return")
    BY <1>1, <1>4, MovedProposal DEF Terminal
  <1>5. CASE Propose(d, cp, Moved(cp, "retry-wait"), "head")
    BY <1>1, <1>2, <1>3, <1>5, MovedProposal
  <1>6. CASE Propose(d, cp, Iterated(cp), "gate")
    <2> DEFINE w == Iterated(cp)
               r == [pc |-> "commit", cp |-> cp, want |-> w, then |-> "gate", got |-> None]
    <2>1. w \in Checkpoints
      BY <1>2, IteratedCheckpoint
    <2>2. Proposal(r)
      BY DEF Proposal
    <2>3. Propose(d, cp, w, "gate")
      BY <1>6
    <2> HIDE DEF w
    <2>4. QED
      BY <1>1, <1>2, <1>3, <2>1, <2>2, <2>3, ProposeStep, Zenon
  <1>7. QED
    BY <1>4, <1>5, <1>6 DEF Executed, Local

LEMMA GateStep ==
  ASSUME LoopInv, NEW d \in Drivers, Gate(d) PROVE LoopInv'
  <1> DEFINE cp == driver[d].cp
  <1>1. /\ driver[d] \in DriverStates /\ cp \in Checkpoints /\ cp.sequence \in Nat
        /\ driver[d].pc = "gate" /\ RowOK(driver[d], journal)
    BY SMTT(30) DEF LoopInv, LoopTypeOK, DriverStates, Checkpoints, Gate, At
  <1>2. Frame /\ ran' = ran /\ journal' = journal
    BY <1>1 DEF LoopInv, LoopTypeOK, Frame, Gate, Local, outside
  <1>3. CASE Propose(d, cp, Moved(cp, "failed"), "return")
    BY <1>2, <1>3, MovedProposal DEF Terminal
  <1>4. ASSUME NEW v \in {"pass", "retryable", "fatal"}, NEW p \in Progress,
               driver' = [driver EXCEPT ![d].pc = "gated", ![d].got = <<v, p>>]
        PROVE  LoopInv'
    <2> DEFINE t == <<v, p>>
    <2>1. t \in {"pass", "retryable", "fatal"} \X Progress
      OBVIOUS
    <2>2. driver' = [driver EXCEPT ![d].pc = "gated", ![d].got = t]
      BY <1>4
    <2> HIDE DEF t
    <2> DEFINE r == [driver[d] EXCEPT !.pc = "gated", !.got = t]
    <2>3. driver' = [driver EXCEPT ![d] = r]
      BY <2>2, Zenon DEF LoopInv, LoopTypeOK
    <2>4. r \in DriverStates /\ r.pc = "gated" /\ r.cp = cp /\ r.got = t
      BY <1>1, <2>1, Zenon DEF DriverStates, Points
    <2> HIDE DEF r
    <2>5. ~Early(r)
      BY <2>4 DEF Early
    <2>6. Owns(r) => Owns(driver[d]) /\ Mine(r) = Mine(driver[d])
      BY <1>1, <2>4 DEF Owns, Mine
    <2>7. RowOK(r, journal)
      BY <1>1, <2>1, <2>4, <2>6 DEF RowOK
    <2>8. QED
      BY <1>2, <2>3, <2>4, <2>5, <2>6, <2>7, QuietStep, Zenon
  <1>5. QED
    BY <1>3, <1>4 DEF Gate, Local

LEMMA GatedStep ==
  ASSUME LoopInv, NEW d \in Drivers, Gated(d) PROVE LoopInv'
  <1> DEFINE cp == driver[d].cp
             p == driver[d].got[2]
  <1>1. Frame /\ ran' = ran /\ journal' = journal
    BY FrameKept DEF Gated
  <1>2. driver[d].pc = "gated" /\ driver[d].got \in {"pass", "retryable", "fatal"} \X Progress
    BY DEF LoopInv, RowOK, Gated, At
  <1>3. p \in Progress
    BY <1>2
  <1>4. CASE \E s \in {"cancelled", "exhausted"} : Propose(d, cp, Moved(cp, s), "return")
    BY <1>1, <1>4, MovedProposal DEF Terminal
  <1>5. CASE \E s \in {"succeeded", "failed", "exhausted"} :
               Propose(d, cp, Judged(cp, s, p), "return")
    BY <1>1, <1>2, <1>3, <1>5, JudgedProposal DEF Terminal
  <1>6. CASE Propose(d, cp, Judged(cp, "retry-wait", p), "head")
    BY <1>1, <1>2, <1>3, <1>6, JudgedProposal
  <1>7. QED
    BY <1>4, <1>5, <1>6 DEF Gated, Local

LEMMA RecoveredStep ==
  ASSUME LoopInv, NEW d \in Drivers, Recovered(d) PROVE LoopInv'
  <1> DEFINE cp == driver[d].cp
  <1>1. Frame /\ ran' = ran /\ journal' = journal
    BY FrameKept DEF Recovered
  <1>2. CASE To(d, "create")
    <2> DEFINE r == [driver[d] EXCEPT !.pc = "create"]
    <2>1. /\ driver[d] \in DriverStates /\ driver[d].pc = "recover"
          /\ driver[d].then \in {"return", "head"}
      BY DEF LoopInv, LoopTypeOK, RowOK, Recovered, At
    <2>2. driver' = [driver EXCEPT ![d] = r]
      BY <1>2 DEF LoopInv, LoopTypeOK, To
    <2>3. r \in DriverStates /\ r.pc = "create" /\ r.then = driver[d].then
      BY <2>1 DEF DriverStates, Points
    <2> HIDE DEF r
    <2>4. ~Owns(r) /\ ~Early(r) /\ RowOK(r, journal)
      BY <2>1, <2>3 DEF Owns, Early, RowOK
    <2>5. QED
      BY <1>1, <2>2, <2>3, <2>4, QuietStep, Zenon
  <1>3. CASE Propose(d, cp, Moved(cp, "failed"), "return")
    BY <1>1, <1>3, MovedProposal DEF Terminal
  <1>4. CASE Leave(d)
    BY <1>1, <1>4, LeaveStep
  <1>5. QED
    BY <1>2, <1>3, <1>4 DEF Recovered, Local

-----------------------------------------------------------------------------
(* The steps of the journal                                                *)

\* The row with which a call goes on from the journal owns an attempt only when it
\* was given a checkpoint that is under way.
LEMMA GoesRow ==
  ASSUME LoopInv, NEW d \in Drivers, NEW cp \in Checkpoints, Goes(d, cp)
  PROVE  \E r \in DriverStates :
           /\ driver' = [driver EXCEPT ![d] = r]
           /\ r.pc \in {"off", "head", "execute", "gate", "recover"} /\ r.then = "return"
           /\ Owns(r) => /\ cp.state \in Active /\ driver[d].then \in {"execute", "gate"}
                         /\ Mine(r) = cp.attempts
           /\ Early(r) => cp.state = "running" /\ driver[d].then = "execute"
  <1> DEFINE t == driver[d].then
             r == IF t = "return" THEN Off ELSE [Off EXCEPT !.pc = t, !.cp = cp]
  <1>1. Off \in DriverStates /\ Off.pc = "off" /\ Off.then = "return"
    BY OffRow DEF Off
  <1>2. t \in {"return", "head", "execute", "gate", "recover"}
    BY DEF LoopInv, LoopTypeOK, DriverStates
  <1>3. driver' = [driver EXCEPT ![d] = r]
    BY DEF Goes
  <1>4. CASE t = "return"
    BY <1>1, <1>3, <1>4, Zenon DEF Owns, Early
  <1>5. CASE t # "return"
    <2>1. /\ r \in DriverStates /\ r.pc = t /\ r.cp = cp /\ r.then = "return"
      BY <1>1, <1>2, <1>5, Zenon DEF DriverStates, Points
    <2> HIDE DEF r
    <2>2. Owns(r) => cp.state \in Active /\ t \in {"execute", "gate"} /\ Mine(r) = cp.attempts
      BY <1>2, <1>5, <2>1 DEF Owns, Mine
    <2>3. Early(r) => cp.state = "running" /\ t = "execute"
      BY <1>2, <1>5, <2>1 DEF Early
    <2>4. QED
      BY <1>2, <1>3, <1>5, <2>1, <2>2, <2>3, Zenon
  <1>6. QED
    BY <1>4, <1>5

LEMMA LoadStep ==
  ASSUME LoopInv, NEW d \in Drivers, Load(d) PROVE LoopInv'
  <1> DEFINE r == [driver[d] EXCEPT !.cp = journal, !.pc = "verify"]
  <1>1. Frame /\ ran' = ran /\ journal' = journal
    BY FrameKept DEF Load
  <1>2. /\ driver[d] \in DriverStates /\ driver[d].pc = "load" /\ journal \in Checkpoints
        /\ RowOK(driver[d], journal)
    BY DEF LoopInv, LoopTypeOK, Load, At
  <1>3. driver' = [driver EXCEPT ![d] = r]
    BY Zenon DEF LoopInv, LoopTypeOK, Load
  <1>4. /\ r \in DriverStates /\ r.pc = "verify" /\ r.cp = journal
        /\ r.then = driver[d].then /\ r.want = driver[d].want
    BY <1>2, Zenon DEF DriverStates, Points
  <1> HIDE DEF r
  <1>5. /\ Owns(r) => Owns(driver[d])
        /\ Early(r) => Early(driver[d])
        /\ Mine(r) = Mine(driver[d])
    BY <1>2, <1>4 DEF Owns, Early, Mine
  <1>6. journal.sequence \in Nat
    BY <1>2 DEF Checkpoints
  <1>7. RowOK(r, journal)
    BY <1>2, <1>4, <1>5, <1>6 DEF RowOK
  <1>8. QED
    BY <1>1, <1>3, <1>4, <1>5, <1>7, QuietStep, Zenon

LEMMA VerifyStep ==
  ASSUME LoopInv, NEW d \in Drivers, Verify(d) PROVE LoopInv'
  <1>1. Frame /\ ran' = ran /\ journal' = journal
    BY FrameKept DEF Verify
  <1>2. CASE Leave(d)
    BY <1>1, <1>2, LeaveStep
  <1>3. CASE journal.sequence = driver[d].cp.sequence /\ Goes(d, driver[d].cp)
    <2>1. /\ driver[d].pc = "verify" /\ RowOK(driver[d], journal) /\ journal \in Checkpoints
      BY DEF LoopInv, LoopTypeOK, Verify, At
    <2>2. driver[d].cp = journal
      BY <1>3, <2>1 DEF RowOK
    <2>3. PICK r \in DriverStates :
            /\ driver' = [driver EXCEPT ![d] = r]
            /\ r.pc \in {"off", "head", "execute", "gate", "recover"} /\ r.then = "return"
            /\ Owns(r) => /\ journal.state \in Active /\ driver[d].then \in {"execute", "gate"}
                          /\ Mine(r) = journal.attempts
            /\ Early(r) => journal.state = "running" /\ driver[d].then = "execute"
      BY <1>3, <2>1, <2>2, GoesRow
    <2>4. Owns(r) => Owns(driver[d]) /\ Mine(r) = Mine(driver[d])
      BY <2>1, <2>3 DEF Owns, RowOK, Active, Terminal
    <2>5. Early(r) => Owns(r) /\ Early(driver[d])
      BY <2>1, <2>3 DEF Early, Owns, Active
    <2>6. RowOK(r, journal)
      BY <2>1, <2>3, <2>4 DEF RowOK
    <2>7. QED
      BY <1>1, <2>3, <2>4, <2>5, <2>6, QuietStep, Zenon
  <1>4. QED
    BY <1>2, <1>3 DEF Verify, Local

\* The journal moves on to another checkpoint: whoever owned an attempt before and
\* is not the caller finds the run ended.
LEMMA JournalStep ==
  ASSUME LoopInv, Frame, ran' = ran, NEW d \in Drivers, NEW r \in DriverStates,
         driver' = [driver EXCEPT ![d] = r],
         journal' \in Checkpoints, WithinLimits(journal'), journal'.state # "none",
         journal.state = "none" \/ journal.sequence < journal'.sequence,
         journal.attempts <= journal'.attempts,
         \A e \in Drivers \ {d} :
           Owns(driver[e]) => ~Owns(r) /\ journal'.state \in Terminal,
         RowOK(r, journal'), Early(r) => ran[Mine(r)] = 0
  PROVE  LoopInv'
  <1>1. /\ driver'[d] = r /\ \A e \in Drivers \ {d} : driver'[e] = driver[e]
        /\ driver' \in [Drivers -> DriverStates]
    BY DEF LoopInv, LoopTypeOK
  <1>2. LoopTypeOK'
    BY <1>1 DEF LoopInv, LoopTypeOK, Frame
  <1>3. \A e \in Drivers : RowOK(driver[e], journal)'
    <2>1. RowOK(driver[d], journal)'
      BY <1>1, Zenon DEF RowOK, Proposal, Owns, Mine
    <2>2. ASSUME NEW e \in Drivers \ {d} PROVE RowOK(driver[e], journal)'
      <3>1. RowOK(driver[e], journal) /\ driver[e] \in DriverStates
        BY DEF LoopInv, LoopTypeOK
      <3>2. driver'[e] = driver[e]
        BY <1>1
      <3>3. driver[e].cp.sequence \in Nat /\ journal.sequence \in Nat
            /\ journal'.sequence \in Nat /\ journal.attempts \in Nat
            /\ journal'.attempts \in Nat
        BY <3>1 DEF LoopInv, LoopTypeOK, DriverStates, Checkpoints
      <3>4. driver[e].pc = "verify" => driver[e].cp.sequence < journal'.sequence
        BY <3>1, <3>3 DEF RowOK
      <3>5. Owns(driver[e]) => Mine(driver[e]) \in 1..journal'.attempts
        BY <3>1, <3>3 DEF RowOK
      <3>6. RowOK(driver[e], journal')
        BY <3>1, <3>3, <3>4, <3>5 DEF RowOK
      <3>7. QED
        BY <3>2, <3>6, ZenonT(40) DEF RowOK, Proposal, Owns, Mine
    <2>3. QED
      BY <2>1, <2>2
  <1>4. OneOwner'
    <2>1. ASSUME NEW a \in Drivers, NEW b \in Drivers, Owns(driver'[a]), Owns(driver'[b])
          PROVE  a = b
      BY <1>1, <2>1, Zenon DEF LoopInv, OneOwner
    <2>2. QED
      BY <2>1, Zenon DEF OneOwner, Owns
  <1>5. RanOnce'
    <2>1. journal.attempts \in Nat /\ journal'.attempts \in Nat
      BY DEF LoopInv, LoopTypeOK, Checkpoints
    <2>2. \A k \in 0..MaxAttempts : ran'[k] <= 1 /\ (ran'[k] = 1 => k \in 1..journal'.attempts)
      BY <2>1 DEF LoopInv, RanOnce
    <2>3. \A e \in Drivers : (Early(driver[e]) => ran[Mine(driver[e])] = 0)'
      BY <1>1 DEF LoopInv, RanOnce, Early, Mine
    <2>4. QED
      BY <2>2, <2>3 DEF RanOnce
  <1>6. WithinLimits(journal)'
    BY DEF WithinLimits
  <1>7. QED
    BY <1>2, <1>3, <1>4, <1>5, <1>6 DEF LoopInv

\* A successful compare-and-swap.
LEMMA SwapStep ==
  ASSUME LoopInv, Frame, ran' = ran, NEW d \in Drivers, At(d, "commit"),
         journal = driver[d].cp, driver[d].want.state \in Allowed(journal.state),
         journal' = driver[d].want, To(d, "load")
  PROVE  LoopInv'
  <1> DEFINE w == driver[d].want
             r == [driver[d] EXCEPT !.pc = "load"]
  <1>1. /\ driver[d] \in DriverStates /\ driver[d].pc = "commit" /\ w \in Checkpoints
        /\ journal \in Checkpoints /\ Proposal(driver[d]) /\ WithinLimits(journal)
    BY DEF LoopInv, LoopTypeOK, DriverStates, At, RowOK
  <1>2. driver' = [driver EXCEPT ![d] = r]
    BY DEF LoopInv, LoopTypeOK, To
  <1>3. r \in DriverStates /\ r.pc = "load" /\ r.then = driver[d].then /\ r.want = w
    BY <1>1 DEF DriverStates, Points
  <1> HIDE DEF r
  <1>4. \A e \in Drivers : Owns(driver[e]) => journal.state \in Terminal \cup Active
    BY DEF LoopInv, RowOK
  <1>5. /\ journal.sequence \in Nat /\ journal.attempts \in Nat /\ journal.iterations \in Nat
        /\ journal.used \in [Resources -> Nat]
    BY <1>1 DEF Checkpoints
  <1>6. MaxAttempts \in Nat /\ MaxIterations \in Nat
    BY LoopAssumption
  <1>7. CASE /\ w = Reserved(journal) /\ driver[d].then = "execute"
             /\ journal.state \in {"ready", "retry-wait"} /\ ~OverBudget(journal)
    <2>1. /\ w.state = "running" /\ w.sequence = journal.sequence + 1
          /\ w.attempts = journal.attempts + 1 /\ w.iterations = journal.iterations
          /\ \A x \in Resources : w.used[x] = journal.used[x] + Reserve[x]
      <3> DEFINE c == Reserved(journal)
      <3>1. /\ c.state = "running" /\ c.sequence = journal.sequence + 1
            /\ c.attempts = journal.attempts + 1 /\ c.iterations = journal.iterations
            /\ \A x \in Resources : c.used[x] = journal.used[x] + Reserve[x]
        BY <1>1, ReservedCheckpoint
      <3>2. w = c
        BY <1>7
      <3> HIDE DEF c, w
      <3>3. QED
        BY <3>1, <3>2, Zenon
    <2>2. /\ journal.attempts < MaxAttempts /\ journal.iterations < MaxIterations
          /\ \A x \in Resources : w.used[x] <= MaxUsage[x]
      BY <1>5, <1>6, <1>7, <2>1, LoopAssumption DEF OverBudget
    <2>3. WithinLimits(w)
      <3>1. w.attempts <= MaxAttempts /\ w.iterations < MaxIterations
            /\ w.iterations <= MaxIterations
        BY <1>5, <1>6, <2>1, <2>2
      <3>2. QED
        BY <2>2, <3>1 DEF WithinLimits
    <2>4. \A e \in Drivers : ~Owns(driver[e])
      BY <1>4, <1>7 DEF Terminal, Active
    <2>5. Owns(r) /\ Mine(r) = w.attempts
      BY <1>3, <1>7 DEF Owns, Mine
    <2>6. RowOK(r, w)
      BY <1>3, <1>5, <2>1, <2>5 DEF RowOK, Active
    <2>7. ran[Mine(r)] = 0
      <3>1. w.attempts \in 0..MaxAttempts /\ w.attempts \notin 1..journal.attempts
        BY <1>5, <1>6, <2>1, <2>2
      <3>2. ran[w.attempts] \in Nat /\ ran[w.attempts] <= 1 /\ ran[w.attempts] # 1
        BY <3>1 DEF LoopInv, LoopTypeOK, RanOnce
      <3>3. QED
        BY <2>5, <3>2
    <2>8. /\ journal' \in Checkpoints /\ WithinLimits(journal') /\ RowOK(r, journal')
          /\ journal'.state # "none" /\ journal.sequence < journal'.sequence
          /\ journal.attempts <= journal'.attempts
      BY <1>1, <1>5, <2>1, <2>3, <2>6 DEF w
    <2>9. QED
      BY <1>2, <1>3, <2>4, <2>7, <2>8, JournalStep, Zenon
  <1>8. CASE w = Iterated(journal) /\ driver[d].then = "gate"
    <2>1. /\ w.state = "gating" /\ w.sequence = journal.sequence + 1
          /\ w.attempts = journal.attempts /\ w.iterations = journal.iterations + 1
          /\ w.used = journal.used
      BY <1>1, <1>8, IteratedCheckpoint
    <2>2. journal.state = "running"
      BY <1>1, <2>1 DEF Allowed, Checkpoints, LoopStates, Terminal
    <2>3. WithinLimits(w)
      BY <1>1, <1>5, <1>6, <2>1, <2>2 DEF WithinLimits
    <2>4. Owns(driver[d]) /\ Mine(driver[d]) = journal.attempts
      BY <1>1, <2>1, <2>2 DEF Owns, Mine, Active, Terminal
    <2>5. \A e \in Drivers \ {d} : ~Owns(driver[e])
      BY <2>4 DEF LoopInv, OneOwner
    <2>6. Mine(r) = w.attempts /\ ~Early(r)
      BY <1>3, <1>8 DEF Mine, Early
    <2>7. w.attempts \in 1..journal.attempts
      BY <2>1, <2>4 DEF LoopInv, RowOK
    <2>8. RowOK(r, w)
      BY <1>3, <2>1, <2>6, <2>7 DEF RowOK, Active
    <2>9. /\ journal' \in Checkpoints /\ WithinLimits(journal') /\ RowOK(r, journal')
          /\ journal'.state # "none" /\ journal.sequence < journal'.sequence
          /\ journal.attempts <= journal'.attempts
      BY <1>1, <1>5, <2>1, <2>3, <2>8 DEF w
    <2>10. QED
      BY <1>2, <1>3, <2>5, <2>6, <2>9, JournalStep, Zenon
  <1>9. CASE /\ w.state \notin Active \cup {"none", "new"}
             /\ w.sequence = journal.sequence + 1
             /\ w.attempts = journal.attempts /\ w.iterations = journal.iterations
             /\ w.used = journal.used /\ driver[d].then \in {"return", "head"}
    <2>1. WithinLimits(w)
      BY <1>1, <1>9 DEF WithinLimits, Active
    <2>2. ~Owns(r) /\ ~Early(r)
      BY <1>3, <1>9 DEF Owns, Early
    <2>3. RowOK(r, w)
      BY <1>3, <1>9, <2>2 DEF RowOK
    <2>4. journal.state \notin Terminal
      BY DEF Allowed, Terminal
    <2>5. \A e \in Drivers \ {d} : Owns(driver[e]) => w.state \in Terminal
      <3> SUFFICES ASSUME NEW e \in Drivers \ {d}, Owns(driver[e]), w.state \notin Terminal
                   PROVE  FALSE
        OBVIOUS
      <3>1. journal.state \in Active
        BY <1>4, <2>4
      <3>2. Owns(driver[d])
        BY <1>1, <3>1 DEF Owns
      <3>3. QED
        BY <3>2 DEF LoopInv, OneOwner
    <2>6. /\ journal' \in Checkpoints /\ WithinLimits(journal') /\ RowOK(r, journal')
          /\ journal'.state # "none" /\ journal.sequence < journal'.sequence
          /\ journal.attempts <= journal'.attempts
      BY <1>1, <1>5, <1>9, <2>1, <2>3 DEF w
    <2>7. QED
      BY <1>2, <1>3, <2>2, <2>5, <2>6, JournalStep, Zenon
  <1>10. QED
    BY <1>1, <1>7, <1>8, <1>9 DEF Proposal

\* A call that was given a checkpoint of a run that is not under way owns nothing.
LEMMA GoesStep ==
  ASSUME LoopInv, Frame, ran' = ran, journal' = journal, NEW d \in Drivers,
         journal.state \notin Active \/ driver[d].then \in {"return", "head"},
         Goes(d, journal)
  PROVE  LoopInv'
  <1>1. PICK r \in DriverStates :
          /\ driver' = [driver EXCEPT ![d] = r]
          /\ r.pc \in {"off", "head", "execute", "gate", "recover"} /\ r.then = "return"
          /\ Owns(r) => /\ journal.state \in Active /\ driver[d].then \in {"execute", "gate"}
                        /\ Mine(r) = journal.attempts
          /\ Early(r) => journal.state = "running" /\ driver[d].then = "execute"
    BY GoesRow DEF LoopInv, LoopTypeOK
  <1>2. ~Owns(r) /\ ~Early(r)
    BY <1>1 DEF Active
  <1>3. RowOK(r, journal)
    BY <1>1, <1>2 DEF RowOK
  <1>4. QED
    BY <1>1, <1>2, <1>3, QuietStep, Zenon

LEMMA CommitStep ==
  ASSUME LoopInv, NEW d \in Drivers, Commit(d) PROVE LoopInv'
  <1>1. Frame /\ ran' = ran
    BY FrameKept DEF Commit
  <1>2. CASE Leave(d) /\ journal' = journal
    BY <1>1, <1>2, LeaveStep
  <1>3. CASE journal.state \in Terminal /\ Goes(d, journal) /\ journal' = journal
    BY <1>1, <1>3, GoesStep DEF Terminal, Active
  <1>4. CASE /\ journal = driver[d].cp /\ driver[d].want.state \in Allowed(journal.state)
             /\ journal' = driver[d].want /\ To(d, "load")
    BY <1>1, <1>4, SwapStep DEF Commit
  <1>5. QED
    BY <1>2, <1>3, <1>4 DEF Commit, Local

LEMMA CreateStep ==
  ASSUME LoopInv, NEW d \in Drivers, Create(d) PROVE LoopInv'
  <1> DEFINE found == IF journal.state = "none" THEN [journal EXCEPT !.state = "new"] ELSE journal
  <1>1. Frame /\ ran' = ran
    BY FrameKept DEF Create
  <1>2. /\ driver[d] \in DriverStates /\ driver[d].then \in {"return", "head"}
        /\ journal \in Checkpoints /\ WithinLimits(journal)
    BY DEF LoopInv, LoopTypeOK, RowOK, Create, At
  <1>3. found \in Checkpoints /\ journal' = found
    BY <1>2 DEF Create, Checkpoints, LoopStates
  <1>4. CASE found.state # "new"
    <2>1. found = journal
      BY <1>2, <1>4 DEF Checkpoints
    <2>2. QED
      BY <1>1, <1>2, <1>3, <1>4, <2>1, GoesStep DEF Create
  <1>5. CASE found.state = "new"
    <2> DEFINE r == [driver[d] EXCEPT !.pc = "start", !.cp = found]
    <2>1. driver' = [driver EXCEPT ![d] = r]
      BY <1>5, Zenon DEF LoopInv, LoopTypeOK, Create
    <2>2. /\ r \in DriverStates /\ r.pc = "start" /\ r.cp.state = "new"
          /\ r.then = driver[d].then
      BY <1>2, <1>3, <1>5, Zenon DEF DriverStates, Points
    <2>3. WithinLimits(found) /\ journal.attempts <= found.attempts
      BY <1>2, <1>3, <1>5 DEF WithinLimits, Checkpoints
    <2> HIDE DEF r
    <2>4. ~Owns(r) /\ ~Early(r)
      BY <2>2 DEF Owns, Early
    <2>5. RowOK(r, journal) /\ RowOK(r, journal')
      BY <1>2, <2>2, <2>4 DEF RowOK
    <2>6. CASE journal.state = "none"
      <3>1. \A e \in Drivers : ~Owns(driver[e])
        BY <2>6 DEF LoopInv, RowOK, Terminal, Active
      <3>2. journal' \in Checkpoints /\ WithinLimits(journal') /\ journal'.state # "none"
            /\ journal.attempts <= journal'.attempts
        BY <1>3, <1>5, <2>3
      <3>3. QED
        BY <1>1, <2>1, <2>2, <2>4, <2>5, <2>6, <3>1, <3>2, JournalStep, Zenon
    <2>7. CASE journal.state # "none"
      BY <1>1, <1>3, <2>1, <2>2, <2>4, <2>5, <2>7, QuietStep, Zenon
    <2>8. QED
      BY <2>6, <2>7
  <1>6. QED
    BY <1>4, <1>5

-----------------------------------------------------------------------------
(* The environment                                                         *)

LEMMA CrashStep ==
  ASSUME LoopInv, NEW d \in Drivers, Crash(d) PROVE LoopInv'
  <1>1. Frame /\ ran' = ran /\ journal' = journal
    BY DEF LoopInv, LoopTypeOK, Frame, Crash, Trouble, ghosts
  <1>2. QED
    BY <1>1, LeaveStep DEF Crash

LEMMA OutsideStep ==
  ASSUME LoopInv, Frame, UNCHANGED <<journal, driver, ran>> PROVE LoopInv'
  <1>1. LoopTypeOK'
    BY DEF LoopInv, LoopTypeOK, Frame
  <1>2. WithinLimits(journal)'
    BY DEF LoopInv, WithinLimits
  <1>3. ASSUME NEW d \in Drivers PROVE RowOK(driver[d], journal)'
    <2>1. RowOK(driver[d], journal) /\ driver' = driver /\ journal' = journal
      BY DEF LoopInv
    <2>2. RowOK(driver'[d], journal')
      BY <2>1
    <2>3. QED
      BY <2>2, Zenon DEF RowOK, Proposal, Owns, Mine
  <1>4. OneOwner'
    BY Zenon DEF LoopInv, OneOwner, Owns
  <1>5. RanOnce'
    BY DEF LoopInv, RanOnce, Early, Mine
  <1>6. QED
    BY <1>1, <1>2, <1>3, <1>4, <1>5 DEF LoopInv

LEMMA EnvironmentStep ==
  ASSUME LoopInv, RequestCancel \/ SetKillSwitch \/ Clock PROVE LoopInv'
  <1>1. Frame
    <2>1. journal.attempts \in Nat /\ trouble + 1 \in Nat
      BY DEF LoopInv, LoopTypeOK, Checkpoints
    <2>2. (~killed) \in BOOLEAN /\ (~late) \in BOOLEAN
      BY Zenon
    <2>3. CASE RequestCancel
      BY <2>1, <2>3 DEF LoopInv, LoopTypeOK, Frame, RequestCancel, ghosts
    <2>4. CASE SetKillSwitch
      BY <2>1, <2>2, <2>4 DEF LoopInv, LoopTypeOK, Frame, SetKillSwitch, Trouble, ghosts
    <2>5. CASE Clock
      BY <2>1, <2>2, <2>5 DEF LoopInv, LoopTypeOK, Frame, Clock, Trouble, ghosts
    <2>6. QED
      BY <2>3, <2>4, <2>5
  <1>2. UNCHANGED <<journal, driver, ran>>
    BY DEF RequestCancel, SetKillSwitch, Clock, ghosts
  <1>3. QED
    BY <1>1, <1>2, OutsideStep

LEMMA StutterStep ==
  ASSUME LoopInv, UNCHANGED vars PROVE LoopInv'
  <1>1. UNCHANGED <<outside, ghosts>> /\ UNCHANGED <<journal, driver, ran>>
    BY DEF vars, outside, ghosts
  <1>2. QED
    BY <1>1, FrameKept, OutsideStep

-----------------------------------------------------------------------------
(* Theorems                                                                *)

\* The inductive invariant: the journal stays within the definition's limits, at
\* most one call owns the attempt under way, and an executor that was called
\* belongs to an attempt that was reserved.
THEOREM LoopInvariant == LoopSpec => []LoopInv
  <1>1. LoopInit => LoopInv
    <2> SUFFICES ASSUME LoopInit PROVE LoopInv
      OBVIOUS
    <2>1. NoCheckpoint \in Checkpoints
      BY DEF NoCheckpoint, Checkpoints, LoopStates
    <2>2. LoopTypeOK
      BY <2>1, OffRow, Zenon DEF LoopInit, LoopTypeOK
    <2>3. WithinLimits(journal)
      BY LoopAssumption DEF LoopInit, NoCheckpoint, WithinLimits
    <2>4. \A d \in Drivers : RowOK(driver[d], journal) /\ ~Owns(driver[d]) /\ ~Early(driver[d])
      BY OffRow DEF LoopInit
    <2>5. OneOwner /\ RanOnce
      BY <2>4 DEF LoopInit, OneOwner, RanOnce
    <2>6. QED
      BY <2>2, <2>3, <2>4, <2>5 DEF LoopInv
  <1>2. LoopInv /\ [LoopNext]_vars => LoopInv'
    <2> SUFFICES ASSUME LoopInv, [LoopNext]_vars PROVE LoopInv'
      OBVIOUS
    <2>1. ASSUME NEW d \in Drivers, DriverStep(d) PROVE LoopInv'
      BY <2>1, CreateStep, StartStep, HeadStep, CommitStep, LoadStep, VerifyStep, ExecuteStep,
         ExecutedStep, GateStep, GatedStep, RecoveredStep DEF DriverStep
    <2>2. ASSUME NEW d \in Drivers, Run(d) \/ Recover(d) \/ Crash(d) PROVE LoopInv'
      BY <2>2, RunStep, CrashStep
    <2>3. CASE RequestCancel \/ SetKillSwitch \/ Clock
      BY <2>3, EnvironmentStep
    <2>4. CASE UNCHANGED vars
      BY <2>4, StutterStep
    <2>5. QED
      BY <2>1, <2>2, <2>3, <2>4 DEF LoopNext
  <1>3. QED
    BY <1>1, <1>2, PTL DEF LoopSpec

\* Every reachable state of the journal and of the calls is well formed.
THEOREM LoopTypes == LoopSpec => []LoopTypeOK
  BY LoopInvariant, PTL DEF LoopInv

\* Attempts, iterations and every resource stay within the definition, although the
\* limits are checked on a copy (_stop_or_budget): the compare-and-swap of
\* transition makes the copy current.
THEOREM BudgetsHold == LoopSpec => []ReservationsFitBudget
  <1>1. LoopInv => ReservationsFitBudget
    BY DEF LoopInv, WithinLimits, ReservationsFitBudget
  <1>2. QED
    BY <1>1, LoopInvariant, PTL

\* No attempt is executed twice, whatever calls run, recover or die (run, recover).
THEOREM AttemptsAreNotRepeated == LoopSpec => []AttemptsRunOnce
  <1>1. LoopInv => AttemptsRunOnce
    BY DEF LoopInv, LoopTypeOK, RanOnce, AttemptsRunOnce
  <1>2. QED
    BY <1>1, LoopInvariant, PTL

\* Once a run has ended nothing replaces its checkpoint (transition).
THEOREM OutcomesAreFinal == LoopSpec => OneTerminalOutcome
  <1>1. LoopInv /\ [LoopNext]_vars => [journal.state \in Terminal => journal' = journal]_vars
    <2> SUFFICES ASSUME LoopInv, LoopNext, journal.state \in Terminal PROVE journal' = journal
      OBVIOUS
    <2>1. Allowed(journal.state) = {} /\ journal.state # "none"
      BY DEF Allowed, Terminal
    <2>2. \A d \in Drivers : Commit(d) => journal' = journal
      BY <2>1 DEF Commit
    <2>3. \A d \in Drivers : Create(d) => journal' = journal
      BY <2>1 DEF Create
    <2>4. QED
      BY <2>2, <2>3, Zenon DEF LoopNext, DriverStep, Start, Head, Load, Verify, Execute, Executed,
                        Gate, Gated, Recovered, Run, Recover, Crash, RequestCancel,
                        SetKillSwitch, Clock
  <1>2. QED
    BY <1>1, LoopInvariant, PTL DEF LoopSpec, OneTerminalOutcome
=============================================================================

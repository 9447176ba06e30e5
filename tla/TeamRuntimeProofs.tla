-------------------------- MODULE TeamRuntimeProofs --------------------------
(***************************************************************************)
(* What the team coordinator guarantees for every set of tasks, workers,   *)
(* coordinator objects and manifests, and every order of their steps.      *)
(***************************************************************************)
EXTENDS TeamRuntime, TLAPS

Open == {"pending", "leased"}

\* Why an operation runs at most once: a task that may still be claimed or started
\* has not run, and a worker that may run its operation is the only one, on a task
\* that is no longer open.
StartIsExclusive ==
  /\ \A t \in Tasks : /\ effects[t] <= 1
                      /\ task[t].status \in Open => effects[t] = 0
  /\ \A w \in Workers : worker[w].pc = "started" =>
       /\ task[worker[w].task].status \notin Open
       /\ effects[worker[w].task] = 0
  /\ \A v, w \in Workers :
       worker[v].pc = "started" /\ worker[w].pc = "started"
         /\ worker[v].task = worker[w].task => v = w

TeamInv == TeamTypeOK /\ StartIsExclusive /\ CancellationStops

\* What every transaction does to the task rows: nothing reopens, nothing terminal
\* changes, and a request to cancel is not forgotten.
RowsAdvance(old, new) ==
  /\ new \in [Tasks -> TaskRows]
  /\ \A t \in Tasks :
       /\ new[t].status \in Open => old[t].status \in Open
       /\ old[t].status \in Terminal => new[t] = old[t]
       /\ old[t].flagged => new[t].flagged

-----------------------------------------------------------------------------

\* The empty database satisfies the invariant.
LEMMA TeamInitEstablishes == TeamInit => TeamInv
  <1> SUFFICES ASSUME TeamInit PROVE TeamInv
    OBVIOUS
  <1>1. 0 \in Times
    BY TeamAssumption DEF Times
  <1>2. TeamTypeOK
    BY <1>1 DEF TeamInit, TeamTypeOK, Runs, TaskRows, WorkerStates, FreshTask, NoPlan,
       Idle, Statuses
  <1>3. StartIsExclusive /\ CancellationStops
    BY DEF TeamInit, StartIsExclusive, CancellationStops, Idle
  <1> QED
    BY <1>2, <1>3 DEF TeamInv

\* A settled row is a row, with the status it was settled with.
LEMMA SettledRow ==
  ASSUME NEW r \in TaskRows, NEW s \in Statuses, NEW c \in Nat
  PROVE  /\ Settle(r, s, c) \in TaskRows
         /\ Settle(r, s, c).status = s /\ Settle(r, s, c).flagged = r.flagged
  BY DEF TaskRows, Settle

\* A reissued row is a pending row.
LEMMA ReissuedRow ==
  ASSUME NEW r \in TaskRows
  PROVE  /\ Reissue(r) \in TaskRows
         /\ Reissue(r).status = "pending" /\ Reissue(r).flagged = r.flagged
  <1>1. 0 \in Times /\ "pending" \in Statuses
    BY TeamAssumption DEF Times, Statuses
  <1> QED
    BY <1>1 DEF TaskRows, Reissue

\* A withdrawn row is a cancelled, flagged row.
LEMMA WithdrawnRow ==
  ASSUME NEW r \in TaskRows
  PROVE  Withdraw(r) \in TaskRows /\ Withdraw(r).status = "cancelled" /\ Withdraw(r).flagged
  <1>1. "cancelled" \in Statuses
    BY DEF Statuses, Terminal
  <1> QED
    BY <1>1 DEF TaskRows, Withdraw

\* Expiry moves rows forward, reissues only what was leased, and starts nothing.
LEMMA ExpireAdvances ==
  ASSUME TeamTypeOK, NEW now \in Times
  PROVE  /\ RowsAdvance(task, Expire(task, now))
         /\ \A t \in Tasks : /\ Expire(task, now)[t].status = "started" =>
                                  task[t].status = "started"
                             /\ Expire(task, now)[t].status = "pending" =>
                                  task[t].status \in Open
  <1> DEFINE new == Expire(task, now)
  <1>1. ASSUME NEW t \in Tasks
        PROVE  /\ new[t] \in TaskRows
               /\ new[t].status \in Open => task[t].status \in Open
               /\ task[t].status \in Terminal => new[t] = task[t]
               /\ task[t].flagged => new[t].flagged
               /\ new[t].status = "started" => task[t].status = "started"
    <2>1. task[t] \in TaskRows
      BY DEF TeamTypeOK
    <2>3. CASE task[t].lease > now
      BY <2>1, <2>3 DEF Expire
    <2>4. CASE ~(task[t].lease > now) /\ task[t].status = "started"
      <3>1. "ambiguous" \in Statuses /\ task[t].reserved \in Nat
        BY <2>1 DEF TaskRows, Statuses, Terminal
      <3>2. new[t] = Settle(task[t], "ambiguous", task[t].reserved)
        BY <2>4 DEF Expire
      <3> QED
        BY <2>1, <2>4, <3>1, <3>2, SettledRow DEF Terminal, Open
    <2>5. CASE ~(task[t].lease > now) /\ task[t].status = "leased"
      <3>1. new[t] = Reissue(task[t])
        BY <2>5 DEF Expire
      <3> QED
        BY <2>1, <2>5, <3>1, ReissuedRow DEF Terminal, Open
    <2>6. CASE ~(task[t].lease > now) /\ task[t].status \notin {"started", "leased"}
      BY <2>1, <2>6 DEF Expire
    <2> QED
      BY <2>3, <2>4, <2>5, <2>6
  <1>2. new = [t \in Tasks |-> new[t]]
    BY DEF Expire
  <1> QED
    BY <1>1, <1>2 DEF RowsAdvance, Open

\* A step that advances the rows, runs no operation and starts no worker keeps
\* starts exclusive.
LEMMA ExclusiveFrame ==
  ASSUME TeamInv, RowsAdvance(task, task'), effects' = effects,
         worker' \in [Workers -> WorkerStates],
         \A w \in Workers : worker'[w].pc = "started" =>
           worker[w].pc = "started" /\ worker'[w].task = worker[w].task
  PROVE  StartIsExclusive'
  <1>1. ASSUME NEW t \in Tasks
        PROVE  effects'[t] <= 1 /\ (task'[t].status \in Open => effects'[t] = 0)
    BY <1>1 DEF TeamInv, StartIsExclusive, RowsAdvance
  <1>2. ASSUME NEW w \in Workers, worker'[w].pc = "started"
        PROVE  task'[worker'[w].task].status \notin Open /\ effects'[worker'[w].task] = 0
    <2>1. worker[w].task \in Tasks
      BY <1>2 DEF TeamInv, TeamTypeOK
    <2> QED
      BY <1>2, <2>1 DEF TeamInv, StartIsExclusive, RowsAdvance
  <1>3. ASSUME NEW v \in Workers, NEW w \in Workers,
               worker'[v].pc = "started", worker'[w].pc = "started",
               worker'[v].task = worker'[w].task
        PROVE  v = w
    BY <1>3 DEF TeamInv, StartIsExclusive
  <1> QED
    BY <1>1, <1>2, <1>3 DEF StartIsExclusive

\* A step that advances the rows and starts no task keeps cancellation effective.
LEMMA CancellationFrame ==
  ASSUME TeamInv, RowsAdvance(task, task'), run'.cancel = run.cancel,
         \A t \in Tasks : task'[t].status = "started" => task[t].status = "started"
  PROVE  CancellationStops'
  <1> SUFFICES ASSUME run.cancel, NEW t \in Tasks
               PROVE  /\ task'[t].status \notin {"pending", "leased"}
                      /\ task'[t].status = "started" => task'[t].flagged
    BY DEF CancellationStops
  <1> QED
    BY DEF TeamInv, CancellationStops, RowsAdvance, Open

\* The times a worker's transaction reads and writes are times.
LEMMA TransactionTimes ==
  ASSUME TeamTypeOK, NEW w \in Workers, Transaction(w)
  PROVE  /\ sample[w] \in Times /\ clock' \in Times /\ stored' \in Times
         /\ last' \in [Coordinators -> Times]
         /\ sample' \in [Workers -> Times \cup {None}]
         /\ trouble' = trouble /\ authority' \in BOOLEAN
  BY TeamAssumption DEF TeamTypeOK, Transaction, Last, times, Callers

\* So are those of a transaction that follows its sample at once.
LEMMA SampledTimes ==
  ASSUME TeamTypeOK, NEW a \in Callers, SampledNow(a)
  PROVE  /\ clock \in Times /\ clock' \in Times /\ stored' \in Times
         /\ last' \in [Coordinators -> Times]
         /\ trouble' = trouble /\ authority' \in BOOLEAN /\ effects' = effects
  BY TeamAssumption DEF TeamTypeOK, SampledNow, times

\* And those of an operator's call.
LEMMA CallTimes ==
  ASSUME TeamTypeOK, NEW a \in Operators, Call(a)
  PROVE  /\ clock' \in Times /\ stored' \in Times
         /\ last' \in [Coordinators -> Times]
         /\ sample' \in [Workers -> Times \cup {None}]
         /\ trouble' = trouble /\ authority' \in BOOLEAN
         /\ worker' = worker /\ effects' = effects
  BY SampledTimes DEF TeamTypeOK, Call, Callers

\* The end of a lease is the least of its three bounds.
LEMMA LeaseEndIsTime ==
  ASSUME NEW t \in Tasks, NEW now \in Times
  PROVE  LeaseEnd(t, now) \in Times
  <1> DEFINE bounds == {now + LeaseTime, NotAfter[t], Deadline}
             least(e) == e <= now + LeaseTime /\ e <= NotAfter[t] /\ e <= Deadline
  <1>1. now + LeaseTime \in Nat /\ NotAfter[t] \in Nat /\ Deadline \in Nat
    BY TeamAssumption DEF Times
  <1>2. \E e \in bounds : least(e)
    BY <1>1
  <1>3. LeaseEnd(t, now) \in bounds /\ least(LeaseEnd(t, now))
    BY <1>2 DEF LeaseEnd
  <1> QED
    BY <1>1, <1>3 DEF Times

\* A leased row is a row.
LEMMA LeasedRow ==
  ASSUME NEW r \in TaskRows, NEW w \in Workers, NEW e \in Times, NEW n \in Nat
  PROVE  /\ Lease(r, w, e, n) \in TaskRows
         /\ Lease(r, w, e, n).status = "leased" /\ Lease(r, w, e, n).flagged = r.flagged
  <1>1. "leased" \in Statuses /\ r.attempt + 1 \in Nat
    BY DEF Statuses, TaskRows
  <1> QED
    BY <1>1 DEF TaskRows, Lease

\* A claim expires what has lapsed and leases one open row.
LEMMA ClaimPreserves ==
  ASSUME TeamInv, NEW w \in Workers, NEW t \in Tasks, ClaimTask(w, t)
  PROVE  TeamInv' /\ RowsAdvance(task, task')
  <1> DEFINE now == sample[w]
             rs == Expire(task, now)
             end == LeaseEnd(t, now)
             new == [pc |-> "claimed", task |-> t, used |-> 0,
                     attempt |-> rs[t].attempt + 1, lease |-> end]
  <1>1. TeamTypeOK /\ Transaction(w)
    BY DEF TeamInv, ClaimTask
  <1>2. now \in Times
    BY <1>1, TransactionTimes
  <1>3. RowsAdvance(task, rs) /\ \A u \in Tasks : rs[u].status = "started" => task[u].status = "started"
    BY <1>1, <1>2, ExpireAdvances
  <1>4. end \in Times /\ TaskTokens[t] \in Nat
    BY <1>2, LeaseEndIsTime, TeamAssumption
  <1>5. /\ run.status = "active" /\ ~run.cancel
        /\ rs[t].status = "pending"
        /\ task' = [rs EXCEPT ![t] = Lease(rs[t], w, end, TaskTokens[t])]
        /\ worker' = [worker EXCEPT ![w] = new]
        /\ UNCHANGED <<run, handoffs, consumed, effects>>
    BY DEF ClaimTask
  <1>6. new \in WorkerStates /\ new.pc = "claimed" /\ new.task = t
    <2>1. rs[t].attempt + 1 \in Nat
      BY <1>3 DEF RowsAdvance, TaskRows
    <2> QED
      BY <1>4, <2>1 DEF WorkerStates
  <1>7. /\ Lease(rs[t], w, end, TaskTokens[t]) \in TaskRows
        /\ Lease(rs[t], w, end, TaskTokens[t]).status = "leased"
        /\ Lease(rs[t], w, end, TaskTokens[t]).flagged = rs[t].flagged
    BY <1>3, <1>4, LeasedRow DEF RowsAdvance
  <1> HIDE DEF new, rs, end
  <1>8. RowsAdvance(task, task')
    BY <1>3, <1>5, <1>7 DEF RowsAdvance, Open, Terminal
  <1>9. worker' \in [Workers -> WorkerStates]
        /\ \A v \in Workers : worker'[v].pc # "idle" => worker'[v].task \in Tasks
    BY <1>1, <1>5, <1>6 DEF TeamTypeOK
  <1>10. TeamTypeOK'
    BY <1>1, <1>5, <1>8, <1>9, TransactionTimes DEF TeamTypeOK, RowsAdvance
  <1>11. StartIsExclusive'
    <2>1. \A v \in Workers : worker'[v].pc = "started" =>
            worker[v].pc = "started" /\ worker'[v].task = worker[v].task
      BY <1>1, <1>5, <1>6 DEF TeamTypeOK
    <2> QED
      BY <1>5, <1>8, <1>9, <2>1, ExclusiveFrame
  <1>12. CancellationStops'
    BY <1>5 DEF CancellationStops
  <1> QED
    BY <1>8, <1>10, <1>11, <1>12 DEF TeamInv

\* Starting takes an open row, which no worker that has started holds.
LEMMA StartPreserves ==
  ASSUME TeamInv, NEW w \in Workers, StartEffect(w)
  PROVE  TeamInv' /\ RowsAdvance(task, task')
  <1> DEFINE t == worker[w].task
             row == [task[t] EXCEPT !.status = "started"]
             new == [worker[w] EXCEPT !.pc = "started"]
  <1>1. TeamTypeOK /\ Transaction(w) /\ worker[w].pc = "authorized"
    BY DEF TeamInv, StartEffect
  <1>2. t \in Tasks /\ worker[w] \in WorkerStates /\ task[t] \in TaskRows
    BY <1>1 DEF TeamTypeOK
  <1>3. /\ task[t].status = "leased" /\ ~run.cancel
        /\ consumed' = IF run.plan.route[t] = None THEN consumed
                       ELSE consumed \cup {run.plan.route[t]}
        /\ UNCHANGED <<run, handoffs, effects>>
    BY DEF StartEffect, ClaimHolds
  <1>4. task' = [task EXCEPT ![t] = row]
    BY <1>1, <1>2 DEF StartEffect, TeamTypeOK
  <1>5. worker' = [worker EXCEPT ![w] = new]
    BY <1>1, <1>2 DEF StartEffect, TeamTypeOK
  <1>6. row \in TaskRows /\ row.status = "started" /\ row.flagged = task[t].flagged
    BY <1>2 DEF TaskRows, Statuses
  <1>7. new \in WorkerStates /\ new.pc = "started" /\ new.task = t
    BY <1>2 DEF WorkerStates
  <1>8. consumed' \subseteq Routes
    <2>1. run.plan.route[t] \in Routes \cup {None}
      BY <1>1, <1>2, TeamAssumption DEF TeamTypeOK, Runs, NoPlan
    <2> QED
      BY <1>1, <1>3, <2>1 DEF TeamTypeOK
  <1> HIDE DEF row, new
  <1>9. task' \in [Tasks -> TaskRows] /\ worker' \in [Workers -> WorkerStates]
        /\ \A v \in Workers : worker'[v].pc # "idle" => worker'[v].task \in Tasks
    BY <1>1, <1>2, <1>4, <1>5, <1>6, <1>7 DEF TeamTypeOK
  <1>10. TeamTypeOK'
    BY <1>1, <1>3, <1>8, <1>9, TransactionTimes DEF TeamTypeOK
  <1>11. \A v \in Workers : worker[v].pc = "started" => worker[v].task # t
    BY <1>3 DEF TeamInv, StartIsExclusive, Open
  <1>12. effects[t] = 0
    BY <1>2, <1>3 DEF TeamInv, StartIsExclusive, Open
  <1>13. \A u \in Tasks : task'[u] = (IF u = t THEN row ELSE task[u])
    BY <1>1, <1>4 DEF TeamTypeOK
  <1>14. \A v \in Workers : worker'[v] = (IF v = w THEN new ELSE worker[v])
    BY <1>1, <1>5 DEF TeamTypeOK
  <1>15. StartIsExclusive'
    <2>1. ASSUME NEW u \in Tasks
          PROVE  effects'[u] <= 1 /\ (task'[u].status \in Open => effects'[u] = 0)
      BY <1>3, <1>6, <1>13 DEF TeamInv, StartIsExclusive, Open
    <2>2. ASSUME NEW v \in Workers, worker'[v].pc = "started"
          PROVE  task'[worker'[v].task].status \notin Open /\ effects'[worker'[v].task] = 0
      <3>1. CASE v = w
        BY <1>2, <1>3, <1>6, <1>7, <1>12, <1>13, <1>14, <3>1 DEF Open
      <3>2. CASE v # w
        <4>1. worker[v].pc = "started" /\ worker'[v].task = worker[v].task
              /\ worker[v].task \in Tasks
          BY <1>1, <1>14, <2>2, <3>2 DEF TeamTypeOK
        <4> QED
          BY <1>3, <1>11, <1>13, <4>1 DEF TeamInv, StartIsExclusive
      <3> QED
        BY <3>1, <3>2
    <2>3. ASSUME NEW u \in Workers, NEW v \in Workers,
                 worker'[u].pc = "started", worker'[v].pc = "started",
                 worker'[u].task = worker'[v].task
          PROVE  u = v
      BY <1>7, <1>11, <1>14, <2>3 DEF TeamInv, StartIsExclusive
    <2> QED
      BY <2>1, <2>2, <2>3 DEF StartIsExclusive
  <1>16. CancellationStops'
    BY <1>3 DEF CancellationStops
  <1>17. RowsAdvance(task, task')
    BY <1>3, <1>6, <1>9, <1>13 DEF RowsAdvance, Open, Terminal
  <1> QED
    BY <1>10, <1>15, <1>16, <1>17 DEF TeamInv

\* Running the operation uses up the worker's turn to run it.
LEMMA OperationPreserves ==
  ASSUME TeamInv, NEW w \in Workers, Operation(w)
  PROVE  TeamInv' /\ task' = task
  <1> DEFINE t == worker[w].task
  <1>1. TeamTypeOK /\ worker[w].pc = "started"
    BY DEF TeamInv, Operation
  <1>2. t \in Tasks /\ worker[w] \in WorkerStates
    BY <1>1 DEF TeamTypeOK
  <1>3. effects[t] = 0 /\ task[t].status \notin Open
    BY <1>1 DEF TeamInv, StartIsExclusive
  <1>4. /\ UNCHANGED <<run, task, handoffs, consumed, clock, trouble, stored, sample,
                       authority>>
        /\ last' \in [Coordinators -> Times]
    BY <1>1, TeamAssumption DEF Operation, TeamTypeOK, rows, times, Callers
  <1>5. effects' \in {effects, [effects EXCEPT ![t] = effects[t] + 1]}
    BY <1>1, <1>2 DEF Operation, TeamTypeOK
  <1>6. PICK new \in WorkerStates :
          new.pc # "started" /\ new.task = t /\ worker' = [worker EXCEPT ![w] = new]
    <2>1. CASE worker' = [worker EXCEPT ![w].pc = "raised"]
      <3> DEFINE new == [worker[w] EXCEPT !.pc = "raised"]
      <3>1. new \in WorkerStates /\ new.pc # "started" /\ new.task = t
        BY <1>2 DEF WorkerStates
      <3>2. worker' = [worker EXCEPT ![w] = new]
        BY <1>1, <1>2, <2>1 DEF TeamTypeOK
      <3> QED
        BY <3>1, <3>2
    <2>2. ASSUME NEW s \in {"succeeded", "failed"}, NEW u \in 0..(TaskTokens[t] + 1),
                 worker' = [worker EXCEPT ![w].pc = s, ![w].used = u]
          PROVE  \E new \in WorkerStates :
                   new.pc # "started" /\ new.task = t /\ worker' = [worker EXCEPT ![w] = new]
      <3> DEFINE new == [worker[w] EXCEPT !.pc = s, !.used = u]
      <3>1. u \in Nat
        BY TeamAssumption
      <3>2. new \in WorkerStates /\ new.pc # "started" /\ new.task = t
        BY <1>2, <3>1 DEF WorkerStates
      <3>3. worker' = [worker EXCEPT ![w] = new]
        BY <1>1, <1>2, <2>2 DEF TeamTypeOK
      <3> QED
        BY <3>2, <3>3
    <2> QED
      BY <2>1, <2>2 DEF Operation
  <1>7. \A v \in Workers : worker'[v] = (IF v = w THEN new ELSE worker[v])
    BY <1>1, <1>6 DEF TeamTypeOK
  <1>8. \A u \in Tasks : effects'[u] = effects[u] \/ (u = t /\ effects'[u] = 1)
    BY <1>1, <1>2, <1>3, <1>5 DEF TeamTypeOK
  <1>9. TeamTypeOK'
    <2>1. effects' \in [Tasks -> Nat]
      BY <1>1, <1>2, <1>5 DEF TeamTypeOK
    <2>2. worker' \in [Workers -> WorkerStates]
      BY <1>1, <1>6 DEF TeamTypeOK
    <2>3. \A v \in Workers : worker'[v].pc # "idle" => worker'[v].task \in Tasks
      BY <1>1, <1>2, <1>6, <1>7 DEF TeamTypeOK
    <2> QED
      BY <1>1, <1>4, <2>1, <2>2, <2>3 DEF TeamTypeOK
  <1>10. StartIsExclusive'
    <2>1. ASSUME NEW u \in Tasks
          PROVE  effects'[u] <= 1 /\ (task'[u].status \in Open => effects'[u] = 0)
      BY <1>3, <1>4, <1>8 DEF TeamInv, StartIsExclusive
    <2>2. ASSUME NEW v \in Workers, worker'[v].pc = "started"
          PROVE  task'[worker'[v].task].status \notin Open /\ effects'[worker'[v].task] = 0
      <3>1. v # w /\ worker[v].pc = "started" /\ worker'[v].task = worker[v].task
        BY <1>6, <1>7, <2>2
      <3>2. worker[v].task # t /\ worker[v].task \in Tasks
        BY <1>1, <3>1 DEF TeamInv, StartIsExclusive, TeamTypeOK
      <3> QED
        BY <1>4, <1>8, <3>1, <3>2 DEF TeamInv, StartIsExclusive
    <2>3. ASSUME NEW u \in Workers, NEW v \in Workers,
                 worker'[u].pc = "started", worker'[v].pc = "started",
                 worker'[u].task = worker'[v].task
          PROVE  u = v
      BY <1>6, <1>7, <2>3 DEF TeamInv, StartIsExclusive
    <2> QED
      BY <2>1, <2>2, <2>3 DEF StartIsExclusive
  <1>11. CancellationStops'
    BY <1>4 DEF TeamInv, CancellationStops
  <1> QED
    BY <1>4, <1>9, <1>10, <1>11 DEF TeamInv

\* Settling a started task advances its row and frees its worker.
LEMMA SettlePreserves ==
  ASSUME TeamInv, NEW w \in Workers, NEW s \in Terminal, NEW c \in Nat,
         worker[w].pc # "idle", Transaction(w),
         task[worker[w].task].status = "started",
         Charge(worker[w].task, s, c),
         worker' = [worker EXCEPT ![w] = Idle],
         UNCHANGED <<run, handoffs, consumed, effects>>
  PROVE  TeamInv' /\ RowsAdvance(task, task')
  <1> DEFINE t == worker[w].task
  <1>1. TeamTypeOK /\ t \in Tasks /\ task[t] \in TaskRows
    BY DEF TeamInv, TeamTypeOK
  <1>2. Settle(task[t], s, c) \in TaskRows /\ Settle(task[t], s, c).status = s
        /\ Settle(task[t], s, c).flagged = task[t].flagged
    BY <1>1, SettledRow DEF Statuses
  <1>3. task' = [task EXCEPT ![t] = Settle(task[t], s, c)]
    BY DEF Charge
  <1>4. RowsAdvance(task, task') /\ \A u \in Tasks : task'[u].status = "started" => task[u].status = "started"
    BY <1>1, <1>2, <1>3 DEF TeamTypeOK, RowsAdvance, Open, Terminal
  <1>5. Idle \in WorkerStates /\ Idle.pc = "idle"
    BY TeamAssumption DEF Idle, WorkerStates, Times
  <1>6. worker' \in [Workers -> WorkerStates]
        /\ \A v \in Workers : /\ worker'[v].pc # "idle" => worker'[v] = worker[v]
    BY <1>1, <1>5 DEF TeamTypeOK
  <1>7. TeamTypeOK'
    BY <1>1, <1>4, <1>6, TransactionTimes DEF TeamTypeOK, RowsAdvance
  <1>8. StartIsExclusive'
    BY <1>4, <1>6, ExclusiveFrame
  <1>9. CancellationStops'
    BY <1>4, CancellationFrame
  <1> QED
    BY <1>4, <1>7, <1>8, <1>9 DEF TeamInv

\* Rows that stay as they are have advanced.
LEMMA SameRowsAdvance ==
  ASSUME TeamTypeOK, task' = task PROVE RowsAdvance(task, task')
  BY DEF TeamTypeOK, RowsAdvance

\* Authorizing changes nothing but the worker's progress.
LEMMA AuthorizePreserves ==
  ASSUME TeamInv, NEW w \in Workers, AuthorizeEffect(w)
  PROVE  TeamInv' /\ task' = task
  <1> DEFINE new == [worker[w] EXCEPT !.pc = "authorized"]
  <1>1. TeamTypeOK /\ Transaction(w) /\ worker[w].pc = "claimed"
    BY DEF TeamInv, AuthorizeEffect
  <1>2. UNCHANGED <<run, task, handoffs, consumed, effects>>
    BY DEF AuthorizeEffect, rows
  <1>3. worker[w] \in WorkerStates /\ worker[w].task \in Tasks
    BY <1>1 DEF TeamTypeOK
  <1>4. new \in WorkerStates /\ new.pc = "authorized" /\ new.task = worker[w].task
    BY <1>3 DEF WorkerStates
  <1>5. worker' = [worker EXCEPT ![w] = new]
    BY <1>1, <1>3 DEF AuthorizeEffect, TeamTypeOK
  <1> HIDE DEF new
  <1>6. /\ worker' \in [Workers -> WorkerStates]
        /\ \A v \in Workers : worker'[v].pc # "idle" => worker'[v].task \in Tasks
        /\ \A v \in Workers : worker'[v].pc = "started" => worker'[v] = worker[v]
    BY <1>1, <1>3, <1>4, <1>5 DEF TeamTypeOK
  <1>7. RowsAdvance(task, task')
    BY <1>1, <1>2, SameRowsAdvance
  <1>8. TeamTypeOK'
    BY <1>1, <1>2, <1>6, TransactionTimes DEF TeamTypeOK
  <1>9. StartIsExclusive' /\ CancellationStops'
    BY <1>2, <1>6, <1>7, ExclusiveFrame, CancellationFrame
  <1> QED
    BY <1>2, <1>8, <1>9 DEF TeamInv

\* A late completion only expires, and frees its worker.
LEMMA CompleteLatePreserves ==
  ASSUME TeamInv, NEW w \in Workers, CompleteLate(w)
  PROVE  TeamInv' /\ RowsAdvance(task, task')
  <1>1. TeamTypeOK /\ w \in Callers /\ SampledNow(w) /\ clock \in Times
    BY DEF TeamInv, TeamTypeOK, CompleteLate, Callers
  <1>2. /\ task' = Expire(task, clock)
        /\ worker' = [worker EXCEPT ![w] = Idle]
        /\ sample' = [sample EXCEPT ![w] = None]
        /\ UNCHANGED <<run, handoffs, consumed, effects>>
    BY DEF CompleteLate, SampledNow
  <1>3. RowsAdvance(task, task') /\ \A u \in Tasks : task'[u].status = "started" => task[u].status = "started"
    BY <1>1, <1>2, ExpireAdvances
  <1>4. Idle \in WorkerStates /\ Idle.pc = "idle"
    BY TeamAssumption DEF Idle, WorkerStates, Times
  <1>5. worker' \in [Workers -> WorkerStates]
        /\ \A v \in Workers : worker'[v].pc # "idle" => worker'[v] = worker[v]
    BY <1>1, <1>2, <1>4 DEF TeamTypeOK
  <1>6. TeamTypeOK'
    BY <1>1, <1>2, <1>3, <1>5, SampledTimes DEF TeamTypeOK, RowsAdvance
  <1>7. StartIsExclusive' /\ CancellationStops'
    BY <1>2, <1>3, <1>5, ExclusiveFrame, CancellationFrame
  <1> QED
    BY <1>3, <1>6, <1>7 DEF TeamInv

\* A worker that forgets its claim changes no row.
LEMMA ForgetPreserves ==
  ASSUME TeamInv, NEW w \in Workers, Forget(w), trouble' = trouble \/ Trouble
  PROVE  TeamInv' /\ task' = task
  <1>1. TeamTypeOK
    BY DEF TeamInv
  <1>2. /\ worker' = [worker EXCEPT ![w] = Idle]
        /\ sample' = [sample EXCEPT ![w] = None]
        /\ UNCHANGED <<run, task, handoffs, consumed, clock, stored, last, authority, effects>>
    BY DEF Forget, rows
  <1>3. Idle \in WorkerStates /\ Idle.pc = "idle"
    BY TeamAssumption DEF Idle, WorkerStates, Times
  <1>4. worker' \in [Workers -> WorkerStates]
        /\ \A v \in Workers : worker'[v].pc # "idle" => worker'[v] = worker[v]
    BY <1>1, <1>2, <1>3 DEF TeamTypeOK
  <1>5. trouble' \in Nat
    BY <1>1 DEF TeamTypeOK, Trouble
  <1>6. TeamTypeOK'
    BY <1>1, <1>2, <1>4, <1>5 DEF TeamTypeOK
  <1>7. StartIsExclusive' /\ CancellationStops'
    BY <1>1, <1>2, <1>4, SameRowsAdvance, ExclusiveFrame, CancellationFrame
  <1> QED
    BY <1>2, <1>6, <1>7 DEF TeamInv

\* Steps that touch neither rows nor workers: samples, refusals, clock, revocation.
LEMMA OtherPreserves ==
  ASSUME TeamInv,
         \/ \E w \in Workers : Sample(w) \/ Refused(w)
         \/ Tick \/ StepBack \/ Revoke
         \/ UNCHANGED vars
  PROVE  TeamInv' /\ task' = task
  <1>1. TeamTypeOK
    BY DEF TeamInv
  <1>2. UNCHANGED <<run, task, handoffs, consumed, stored, worker, effects>>
    BY DEF Sample, Refused, Tick, StepBack, Revoke, vars, rows, times
  <1>4. TeamTypeOK'
    <2>1. clock' \in Times
      BY <1>1, TeamAssumption DEF TeamTypeOK, Times, Sample, Refused, Tick, StepBack, Revoke,
         vars, rows, times
    <2>2. trouble' \in Nat
      BY <1>1 DEF TeamTypeOK, Trouble, Sample, Refused, Tick, StepBack, Revoke, vars, rows,
         times
    <2>3. /\ last' \in [Coordinators -> Times]
          /\ sample' \in [Workers -> Times \cup {None}]
      BY <1>1, TeamAssumption DEF TeamTypeOK, Callers, Sample, Refused, Tick, StepBack, Revoke,
         vars, rows, times
    <2>4. authority' \in BOOLEAN
      BY <1>1 DEF TeamTypeOK, Sample, Refused, Tick, StepBack, Revoke, vars, rows, times
    <2> QED
      BY <1>1, <1>2, <2>1, <2>2, <2>3, <2>4 DEF TeamTypeOK
  <1>5. StartIsExclusive' /\ CancellationStops'
    BY <1>2 DEF TeamInv, StartIsExclusive, CancellationStops
  <1> QED
    BY <1>2, <1>4, <1>5 DEF TeamInv

\* Cancellation closes every open row and flags every started one.
LEMMA CancelPreserves ==
  ASSUME TeamInv, NEW a \in Operators, CancelRun(a)
  PROVE  TeamInv' /\ RowsAdvance(task, task')
  <1>1. TeamTypeOK /\ Call(a)
    BY DEF TeamInv, CancelRun
  <1>2. /\ run' = [run EXCEPT !.status = "cancelling", !.cancel = TRUE]
        /\ UNCHANGED <<handoffs, consumed>>
    BY DEF CancelRun
  <1>3. ASSUME NEW t \in Tasks
        PROVE  /\ task'[t] \in TaskRows
               /\ task'[t].status \notin Open
               /\ task'[t].status = "started" => task'[t].flagged
               /\ task[t].status \in Terminal => task'[t] = task[t]
               /\ task[t].flagged => task'[t].flagged
    <2>1. task[t] \in TaskRows
      BY <1>1 DEF TeamTypeOK
    <2>2. CASE task[t].status \in {"pending", "leased"}
      <3>1. task'[t] = Withdraw(task[t])
        BY <2>2 DEF CancelRun
      <3> QED
        BY <2>1, <2>2, <3>1, WithdrawnRow DEF Open, Terminal
    <2>3. CASE task[t].status = "started"
      <3>1. task'[t] = [task[t] EXCEPT !.flagged = TRUE]
        BY <2>3 DEF CancelRun
      <3>2. task'[t] \in TaskRows /\ task'[t].status = "started" /\ task'[t].flagged
        BY <2>1, <2>3, <3>1 DEF TaskRows
      <3> QED
        BY <2>3, <3>2 DEF Open, Terminal
    <2>4. CASE task[t].status \notin {"pending", "leased", "started"}
      <3>1. task'[t] = task[t]
        BY <2>4 DEF CancelRun
      <3> QED
        BY <2>1, <2>4, <3>1 DEF Open
    <2> QED
      BY <2>2, <2>3, <2>4
  <1>4. task' \in [Tasks -> TaskRows]
    <2>1. task' = [t \in Tasks |-> task'[t]]
      BY DEF CancelRun
    <2> QED
      BY <1>3, <2>1
  <1>5. RowsAdvance(task, task')
    BY <1>3, <1>4 DEF RowsAdvance
  <1>6. run' \in Runs
    BY <1>1, <1>2 DEF TeamTypeOK, Runs
  <1>7. TeamTypeOK'
    BY <1>1, <1>2, <1>4, <1>6, CallTimes DEF TeamTypeOK
  <1>8. StartIsExclusive'
    BY <1>1, <1>5, CallTimes, ExclusiveFrame DEF TeamTypeOK
  <1>9. CancellationStops'
    BY <1>3 DEF CancellationStops, Open
  <1> QED
    BY <1>5, <1>7, <1>8, <1>9 DEF TeamInv

\* Creating, expiring and finalising a run.
LEMMA OperatorPreserves ==
  ASSUME TeamInv, NEW a \in Operators, OperatorStep(a)
  PROVE  TeamInv' /\ RowsAdvance(task, task')
  <1>1. TeamTypeOK
    BY DEF TeamInv
  <1>2. CASE CancelRun(a)
    BY <1>2, CancelPreserves
  <1>3. ASSUME Call(a), run' \in Runs, run'.cancel = run.cancel,
               RowsAdvance(task, task'),
               \A t \in Tasks : task'[t].status = "started" => task[t].status = "started",
               UNCHANGED <<handoffs, consumed>>
        PROVE  TeamInv' /\ RowsAdvance(task, task')
    <2>1. TeamTypeOK'
      BY <1>1, <1>3, CallTimes DEF TeamTypeOK, RowsAdvance
    <2>2. StartIsExclusive' /\ CancellationStops'
      BY <1>1, <1>3, CallTimes, ExclusiveFrame, CancellationFrame DEF TeamTypeOK
    <2> QED
      BY <1>3, <2>1, <2>2 DEF TeamInv
  <1>4. ASSUME NEW plan \in Plans, CreateRun(a, plan)
        PROVE  TeamInv' /\ RowsAdvance(task, task')
    <2>1. /\ Call(a) /\ run.status = "none"
          /\ run' = [run EXCEPT !.status = "active", !.plan = plan]
          /\ UNCHANGED <<task, handoffs, consumed>>
      BY <1>4 DEF CreateRun
    <2>2. run' \in Runs /\ run'.cancel = run.cancel
      BY <1>1, <2>1 DEF TeamTypeOK, Runs
    <2> QED
      BY <1>1, <1>3, <2>1, <2>2, SameRowsAdvance
  <1>5. CASE ExpireLeases(a)
    <2>1. Call(a) /\ task' = Expire(task, clock) /\ UNCHANGED <<run, handoffs, consumed>>
      BY <1>5 DEF ExpireLeases
    <2>2. clock \in Times
      BY <1>1 DEF TeamTypeOK
    <2> QED
      BY <1>1, <1>3, <2>1, <2>2, ExpireAdvances DEF TeamTypeOK
  <1>6. CASE FinalizeRun(a)
    <2> DEFINE result == Outcome({task[t].status : t \in Tasks})
    <2>1. /\ Call(a)
          /\ run' = [run EXCEPT !.status = result, !.result = result]
          /\ UNCHANGED <<task, handoffs, consumed>>
      BY <1>6 DEF FinalizeRun
    <2>2. result \in Results
      BY DEF Outcome, Results
    <2> HIDE DEF result
    <2>3. run' \in Runs /\ run'.cancel = run.cancel
      BY <1>1, <2>1, <2>2 DEF TeamTypeOK, Runs
    <2> QED
      BY <1>1, <1>3, <2>1, <2>3, SameRowsAdvance DEF TeamTypeOK
  <1> QED
    BY <1>2, <1>4, <1>5, <1>6 DEF OperatorStep

\* A handoff changes no task row.
LEMMA HandoffPreserves ==
  ASSUME TeamInv, NEW c \in Coordinators, NEW d \in Tasks, NEW t \in Tasks,
         RecordHandoff(c, d, t)
  PROVE  TeamInv' /\ task' = task
  <1>1. /\ handoffs' = handoffs \cup {<<d, t>>}
        /\ stored' = last[c]
        /\ UNCHANGED <<run, task, consumed, clock, trouble, last, sample, worker, authority,
                       effects>>
    BY DEF RecordHandoff, times
  <1>2. TeamTypeOK'
    BY <1>1 DEF TeamInv, TeamTypeOK
  <1>3. StartIsExclusive' /\ CancellationStops'
    BY <1>1 DEF TeamInv, StartIsExclusive, CancellationStops
  <1> QED
    BY <1>1, <1>2, <1>3 DEF TeamInv

\* Every step of a worker.
LEMMA WorkerPreserves ==
  ASSUME TeamInv, NEW w \in Workers, WorkerStep(w)
  PROVE  TeamInv' /\ RowsAdvance(task, task')
  <1>1. TeamTypeOK
    BY DEF TeamInv
  <1>2. ASSUME NEW t \in Tasks, ClaimTask(w, t) PROVE TeamInv' /\ RowsAdvance(task, task')
    BY <1>2, ClaimPreserves
  <1>3. CASE AuthorizeEffect(w)
    BY <1>1, <1>3, AuthorizePreserves, SameRowsAdvance
  <1>4. CASE StartEffect(w)
    BY <1>4, StartPreserves
  <1>5. CASE Operation(w)
    BY <1>1, <1>5, OperationPreserves, SameRowsAdvance
  <1>6. CASE CompleteEffect(w)
    <2>1. worker[w].pc \in Terminal /\ worker[w].used \in Nat
      BY <1>1, <1>6 DEF CompleteEffect, Terminal, TeamTypeOK, WorkerStates
    <2> QED
      BY <1>6, <2>1, SettlePreserves DEF CompleteEffect, ClaimHolds
  <1>7. CASE CompleteLate(w)
    BY <1>7, CompleteLatePreserves
  <1>8. CASE MarkAmbiguous(w) \/ AcknowledgeCancellation(w)
    <2>1. worker[w].pc # "idle" /\ worker[w].task \in Tasks
      BY <1>1, <1>8 DEF MarkAmbiguous, AcknowledgeCancellation, TeamTypeOK
    <2>2. task[worker[w].task].reserved \in Nat
      BY <1>1, <2>1 DEF TeamTypeOK, TaskRows
    <2>3. "ambiguous" \in Terminal /\ "cancelled" \in Terminal
      BY DEF Terminal
    <2>4. CASE MarkAmbiguous(w)
      BY <2>1, <2>2, <2>3, <2>4, SettlePreserves DEF MarkAmbiguous, ClaimHolds
    <2>5. CASE AcknowledgeCancellation(w)
      BY <2>1, <2>2, <2>3, <2>5, SettlePreserves DEF AcknowledgeCancellation, ClaimHolds
    <2> QED
      BY <1>8, <2>4, <2>5
  <1>9. CASE GiveUp(w) \/ Crash(w)
    BY <1>1, <1>9, ForgetPreserves, SameRowsAdvance DEF GiveUp, Crash
  <1>10. CASE Sample(w) \/ Refused(w)
    BY <1>1, <1>10, OtherPreserves, SameRowsAdvance
  <1> QED
    BY <1>2, <1>3, <1>4, <1>5, <1>6, <1>7, <1>8, <1>9, <1>10 DEF WorkerStep

\* The invariant is inductive, and every step advances the rows.
LEMMA TeamStep == TeamInv /\ [TeamNext]_vars => TeamInv' /\ RowsAdvance(task, task')
  <1> SUFFICES ASSUME TeamInv, [TeamNext]_vars PROVE TeamInv' /\ RowsAdvance(task, task')
    OBVIOUS
  <1>1. TeamTypeOK
    BY DEF TeamInv
  <1>2. ASSUME NEW w \in Workers, WorkerStep(w) PROVE TeamInv' /\ RowsAdvance(task, task')
    BY <1>2, WorkerPreserves
  <1>3. ASSUME NEW a \in Operators, OperatorStep(a) PROVE TeamInv' /\ RowsAdvance(task, task')
    BY <1>3, OperatorPreserves
  <1>4. ASSUME NEW c \in Coordinators, NEW d \in Tasks, NEW t \in Tasks, RecordHandoff(c, d, t)
        PROVE  TeamInv' /\ RowsAdvance(task, task')
    BY <1>1, <1>4, HandoffPreserves, SameRowsAdvance
  <1>5. CASE Tick \/ StepBack \/ Revoke \/ UNCHANGED vars
    BY <1>1, <1>5, OtherPreserves, SameRowsAdvance
  <1> QED
    BY <1>2, <1>3, <1>4, <1>5 DEF TeamNext

-----------------------------------------------------------------------------

\* The inductive invariant holds of every behaviour of the coordinator.
THEOREM TeamInvariant == TeamSpec => []TeamInv
  BY TeamInitEstablishes, TeamStep, PTL DEF TeamSpec

\* The rows, clocks and callers always have their shapes.
THEOREM TeamTypes == TeamSpec => []TeamTypeOK
  BY TeamInvariant, PTL DEF TeamInv

\* However many workers, coordinators, expiries, refusals and late completions there
\* are, no task's operation runs twice, and none that ran is open again.
THEOREM OperationsRunOnce == TeamSpec => []AtMostOneOperation
  <1>1. TeamInv => AtMostOneOperation
    BY DEF TeamInv, StartIsExclusive, AtMostOneOperation, Open
  <1> QED
    BY <1>1, TeamInvariant, PTL

\* Once a run is cancelled no task of it is open, and what has started is flagged.
THEOREM CancelledRunsAreClosed == TeamSpec => []CancellationStops
  BY TeamInvariant, PTL DEF TeamInv

\* A terminal task row is never written again.
THEOREM TerminalRowsAreFinal == TeamSpec => TerminalTasksAreFinal
  <1>1. TeamInv /\ [TeamNext]_vars =>
          [\A t \in Tasks : task[t].status \in Terminal => task'[t] = task[t]]_vars
    BY TeamStep DEF RowsAdvance
  <1> QED
    BY <1>1, TeamInvariant, PTL DEF TeamSpec, TerminalTasksAreFinal
=============================================================================

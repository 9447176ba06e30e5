--------------------------- MODULE MCRuntimeStore ---------------------------
(***************************************************************************)
(* A small instance of RuntimeStore.  A behaviour uses one of five sets of *)
(* records: the runs of each set are explored one after the other instead  *)
(* of all combinations of their records.                                   *)
(***************************************************************************)
EXTENDS RuntimeStore, TLC

CONSTANTS t1, t2, r1, r2, r3, m1, m2, m3, d1, d2, d3, d4, p1, p2, n1, n2

\* r3 is a second intent for r1's tool request under r2's idempotency key.
MCRequestOf == r1 :> t1 @@ r2 :> t2 @@ r3 :> t1
MCKeyOf == r1 :> "k1" @@ r2 :> "k2" @@ r3 :> "k2"
MCReadBytes == r1 :> 2 @@ r2 :> 1 @@ r3 :> 1

\* m1 and m2 fit into the output budget together, m1 and m3 do not.
MCOutputBytes == m1 :> 1 @@ m2 :> 1 @@ m3 :> 2
MCCallTokens == m1 :> 2 @@ m2 :> 1 @@ m3 :> 1

\* d3 expires while the run is live, the others are interchangeable.
MCExpiresAt == [d \in Decisions |-> IF d = d3 THEN 1 ELSE 9]
Alike == Permutations({d1, d2, d4})

Common == {p1, n1, "allow", d1, d2, d4}
Workloads ==
    { Common \cup {"deny", t1, t2, r1, r2, r3},   \* reads that collide
      Common \cup {d3, m1, m2},                   \* two calls
      Common \cup {m1, m3},                       \* calls short of budget
      Common \cup {d3, t1, r1, m1},               \* a read and a call
      Common \cup {"deny", p2, n2, t1, r1} }      \* two plans and a read

VARIABLE work   \* the records this behaviour uses

MCInit == StoreInit /\ work \in Workloads
MCNext == StoreNextOn(work) /\ UNCHANGED work
MCSpec == MCInit /\ [][MCNext]_<<storeVars, work>>
=============================================================================

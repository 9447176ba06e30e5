------------------------------ MODULE MCJournals ------------------------------
(* The two journals that decide alone what they accept, each with arbitrary   *)
(* callers: the change journal and the event chain of one run.  A behaviour   *)
(* is one of the two.                                                         *)
(*                                                                            *)
(* Two operations of one run: p1 and p2 compete for a target, p1 and p3 share *)
(* a policy decision, p2 and p3 may run side by side, and p2 leaves no room   *)
(* for a second operation.                                                    *)
EXTENDS ChangeAuthority, TLC

CONSTANTS
    o1, o2, p1, p2, p3, a1, a2, a3, t1, t2, r1, d1, d2,
    u1, u2, s1, s2, q1, q2, c1, c2,
    Tools, Slots, Requests, Contents, MaxEvents, MaxNoModelEvents, MaxTime

VARIABLES journal, events, lastTime, projection

chain == <<events, lastTime, projection>>

INSTANCE RunEventChain

MCTargetOf == p1 :> t1 @@ p2 :> t1 @@ p3 :> t2
MCDecisionOf == p1 :> d1 @@ p2 :> d2 @@ p3 :> d1
MCRunOf == [p \in Proposal |-> r1]
MCMaxOperations == p1 :> 2 @@ p2 :> 1 @@ p3 :> 2
MCApprovalFor == a1 :> p1 @@ a2 :> p2 @@ a3 :> p3
MCOpRun == [o \in Op |-> r1]

MCInit == AuthorityInit /\ ChainInit /\ journal \in {"changes", "events"}

\* Operations, tools, slots, digests and contents are interchangeable: each kind
\* is taken into use in one order.
InOrder ==
    LET subjects == {events'[i].subject : i \in DOMAIN events'}
        digests == {events'[i].digest : i \in DOMAIN events'}
    IN  /\ operations'[o2].state # "none" => operations'[o1].state # "none"
        /\ u2 \in subjects => u1 \in subjects
        /\ s2 \in subjects => s1 \in subjects
        /\ q2 \in digests => q1 \in digests
        /\ projection'.scope[s1] \in {c1, None}

MCNext ==
    /\ \/ journal = "changes" /\ AuthorityNext /\ UNCHANGED chain
       \/ journal = "events" /\ ChainNext /\ UNCHANGED authorityVars
    /\ InOrder
    /\ UNCHANGED journal

MCSpec == MCInit /\ [][MCNext]_<<journal, authorityVars, chain>>
===============================================================================

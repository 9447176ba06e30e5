---------------------------- MODULE MCLoopEngine ----------------------------
(* Two drivers of one run; the tokens of its three attempts are enough for two. *)
EXTENDS LoopEngine, TLC

CONSTANTS d1, d2, tokens

MCMaxUsage == [r \in Resources |-> 5]
MCReserve == [r \in Resources |-> 2]
=============================================================================

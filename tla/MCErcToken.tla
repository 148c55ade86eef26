---------------------------- MODULE MCErcToken ----------------------------
(* A small instance of ErcToken for TLC. *)
EXTENDS ErcToken

CONSTANTS a1, a2

MCAddress == {admin, a1, a2}
MCAmounts == {-1, 0, 1, 2}
\* To oneself, twice to the same account, and more than the supply allows.
MCDropLists == {<<a1, a2>>, <<admin, a1, a1>>}
MCPairs == {<<a1, a2>>, <<a1, a1>>}
=============================================================================

------------------------------- MODULE MCNode -------------------------------
(* A small instance of Node for TLC. *)
EXTENDS Node

\* Sessions x and y have an account each: x creates the token and then the role
\* manager, y uses the one and the other, perhaps too early.
MCaccount == [s \in Session |-> s]
MCJobs == [s \in Session |-> IF s = "x" THEN <<"create", "manager">>
                                        ELSE <<"erc", "role">>]
=============================================================================

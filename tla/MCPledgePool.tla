--------------------------- MODULE MCPledgePool ---------------------------
(* Small instances of PledgePool for TLC. *)
EXTENDS PledgePool

CONSTANTS f, u, adm, rm, pool

MCAddress == {f, u, adm, rm, pool}
MCUser    == {f, u}

\* Two pledgers and the role manager hold one main token each; pledger f also
\* holds one of the second token.  Rewards come in both tokens.  The pool's
\* address has one main token left from an earlier pool.
MCInitMoney ==
    [t \in TokenIx |-> [a \in MCAddress |->
        IF (t = 0 /\ a \in {f, u, rm, pool}) \/ (t = 1 /\ a = f)
        THEN 1 ELSE 0]]

MCAmounts == {0, 1}
=============================================================================

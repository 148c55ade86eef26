------------------------------ MODULE MCFsMgr ------------------------------
(* Small instances of FsMgr for TLC. *)
EXTENDS FsMgr, TLC

CONSTANTS u, p, q, k, h, f, rm, local, repair

MCAddress == {u, p, q, k, h, f, rm, local}

\* The user can pay for both of its orders, 155 and 105 tokens.
MCInitMoney == [a \in MCAddress |-> IF a = u THEN 260 ELSE 0]

MCRepairInitMoney == [a \in MCAddress |-> IF a = u THEN 210 ELSE 0]

Terms1 == [start |-> 0, end |-> 1, size |-> 1, sprice |-> 150]
Terms2 == [start |-> 1, end |-> 2, size |-> 2, sprice |-> 100]
Terms3 == [start |-> 0, end |-> 1, size |-> 1, sprice |-> 100]

\* Two orders at one provider, the second from the end of the first.
MCTerms == (u :> (p :> <<Terms1, Terms2>>)) @@ (repair :> (p :> <<>>))

\* One order at each of two providers, and a repair that q takes over.
MCRepairTerms == (u :> ((p :> <<Terms3>>) @@ (q :> <<Terms3>>)))
                   @@ (repair :> ((p :> <<>>) @@ (q :> <<Terms3>>)))

MCMoney  == {0, 260}
MCRepairMoney == {210}
MCClaims == {<<50, 0>>, <<300, 0>>}

\* Exactly what the first order pays.
MCFullClaims == {<<150, 0>>}

\* Nothing but their calls tells the two keepers apart.
MCSymmetry == Permutations({k, h})

\* Everything is paid and everything is lost, so that a repair can be paid.
MCRepairClaims == {<<100, 100>>}
=============================================================================

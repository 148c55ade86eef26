----------------------------- MODULE MCRoleMgr -----------------------------
(* Small instances of RoleMgr for TLC. *)
EXTENDS RoleMgr, TLC

CONSTANTS u, p, q, k, h, f, admin, local, pool

MCAddress == {admin, local, pool}

\* The role manager can issue 3 tokens, and 8 more when the admin sends them.
MCRichMoney == (admin :> 0) @@ (local :> 40) @@ (pool :> 0)
MCInitMoney == (admin :> 8) @@ (local :> 3) @@ (pool :> 0)

\* Main-token orders of one or two days, and one in another token.
Short == [start |-> 0, end |-> 2, size |-> 1, sprice |-> 1, token |-> 0]
Long  == [start |-> 1, end |-> 4, size |-> 1, sprice |-> 2, token |-> 0]
Other == [start |-> 0, end |-> 2, size |-> 4, sprice |-> 3, token |-> 1]

TermsAt(accounts, terms) ==
    [a \in accounts |-> [b \in accounts |->
        IF a = u /\ b \in DOMAIN terms THEN terms[b] ELSE <<>>]]

\* Groups: a user, a provider and two keepers, for two groups.
MCMembers == {u, p, k, h, f}

MCMemberAsks == (u :> {"user"}) @@ (p :> {"provider", "user"})
                  @@ (k :> {"keeper"}) @@ (h :> {"keeper"}) @@ (f :> {})

MCMemberTerms == TermsAt(MCMembers, p :> <<Short, Other, Short>>)

\* Nothing but their group tells the two keepers apart.
MCSymmetry == Permutations({k, h})

\* Issuing: a user with orders at two providers, in one group.
MCOwners == {u, p, q, k, f}

MCOwnerAsks == (u :> {"user"}) @@ (p :> {"provider"}) @@ (q :> {"provider"})
                 @@ (k :> {"keeper"}) @@ (f :> {})

\* A price nobody checks the sign of.
Gift == [Short EXCEPT !.sprice = -1]

MCOwnerTerms ==
    TermsAt(MCOwners, (p :> <<Long, Short>>) @@ (q :> <<Gift>>))

\* Pay: four orders at one provider, the second one expensive.
Dear == [Short EXCEPT !.sprice = 3]

MCPayers == {u, p, k, f}

MCPayAsks == (u :> {"user"}) @@ (p :> {"provider"}) @@ (k :> {"keeper"})
               @@ (f :> {})

MCPayTerms == TermsAt(MCPayers, p :> <<Short, Dear, Short, Short>>)

MCNoLosses  == [a \in MCMembers |-> {}]
MCLosses    == [a \in MCOwners |-> IF a = p THEN {1} ELSE {}]
MCPayLosses == [a \in MCPayers |-> {}]

MCNoRepairs  == [a \in MCMembers |-> <<>>]
MCRepairs    == [a \in MCOwners |-> IF a = q THEN <<1>> ELSE <<>>]
MCPayRepairs == [a \in MCPayers |-> <<>>]

MCLevels == <<[Ratio |-> 100, Size |-> 1, Duration |-> 1],
              [Ratio |-> 200, Size |-> 2, Duration |-> 3]>>
=============================================================================

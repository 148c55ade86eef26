--------------------------- MODULE RoleMgr_proofs ---------------------------
(***************************************************************************)
(* Who is where: the roles, the groups' lists and the fs managers agree    *)
(* (MembersAgree), and nobody but the foundation is served by two groups,  *)
(* except for what it left at group 0 (LeftAtGroup0Only), for any          *)
(* accounts, groups and terms.                                             *)
(*                                                                         *)
(* Both are inductive only together with what joining a group rests on: an *)
(* account without a group is known as a member of group 0 (Placed), and   *)
(* only users have orders (OrdersOfUsers), so that nobody moves to another *)
(* group once it has left something elsewhere than at group 0.  Last, an   *)
(* order that is over can be ended when its turn comes (EndedInTurn).      *)
(***************************************************************************)
EXTENDS RoleMgr, FiniteSetTheorems, TLAPS

Book == [nonce : Nat, subNonce : Nat]

MemberTypes ==
    /\ roleType \in [Account -> Role \cup {"none"}]
    /\ isActive \in [Account -> BOOLEAN]
    /\ gIndex \in [Account -> GroupIx \cup {0}]
    /\ ngroup \in 0 .. NGroup
    /\ groups \in [GroupIx -> Group]
    /\ fs \in [GroupIx -> SUBSET Account]
    /\ credit \in [GroupIx -> SUBSET Account]
    /\ book \in [Account -> [Account -> Book]]

KeepersFinite == \A g \in GroupIx : IsFiniteSet(groups[g].Keepers)

Placed ==
    \A a \in Account :
        /\ roleType[a] # "user" /\ ~isActive[a] => gIndex[a] = 0
        /\ roleType[a] \in {"none", "user"} => ~isActive[a]

OrdersOfUsers ==
    \A u, p \in Account : OpenOrders(u, p) # {} => roleType[u] = "user"

RoleInv ==
    /\ MemberTypes
    /\ KeepersFinite
    /\ Placed
    /\ MembersAgree
    /\ OrdersOfUsers
    /\ LeftAtGroup0Only

\* What the invariant reads of the groups, the members and their orders.
SameGroups ==
    /\ groups' \in [GroupIx -> Group]
    /\ \A g \in GroupIx : /\ groups'[g].Keepers = groups[g].Keepers
                          /\ groups'[g].Providers = groups[g].Providers
                          /\ groups'[g].IsActive = groups[g].IsActive

SameMembers == UNCHANGED <<member, ngroup, fs>> /\ SameGroups

\* The initial states satisfy the invariant.
LEMMA InitRole == Init => RoleInv
<1> SUFFICES ASSUME Init PROVE RoleInv
    OBVIOUS
<1> USE DEF Init
<1>1. MemberTypes
    BY RoleAssumption DEF MemberTypes, NewGroup, Group, Book, Role
<1>2. \A u, p \in Account : OpenOrders(u, p) = {}
    BY RoleAssumption DEF OpenOrders, Nonces
<1>3. KeepersFinite
    BY FS_EmptySet DEF KeepersFinite, NewGroup
<1>4. Placed /\ MembersAgree
    BY DEF Placed, MembersAgree, MembersOf, NewGroup
<1>5. LeftAtGroup0Only /\ OrdersOfUsers
    BY <1>2 DEF LeftAtGroup0Only, OrdersOfUsers
<1> QED
    BY <1>1, <1>3, <1>4, <1>5 DEF RoleInv

\* A group that exists is one of the groups.
LEMMA OpenGroup ==
    ASSUME RoleInv, NEW g, Open(g)
    PROVE  g \in GroupIx
  <1>1. g \in 0 .. ngroup - 1 /\ ngroup \in 0 .. NGroup
    BY DEF RoleInv, MemberTypes, Open, Existing
  <1> QED
    BY <1>1, RoleAssumption DEF GroupIx

\* Where members and groups stay, so does all that is said of them alone.
LEMMA MembersStay ==
    ASSUME RoleInv, SameMembers
    PROVE  KeepersFinite' /\ Placed' /\ MembersAgree'
<1> USE DEF RoleInv, SameMembers, SameGroups, member
<1>1. KeepersFinite'
    BY DEF KeepersFinite
<1>2. Placed'
    BY DEF Placed
<1>3. \A g : Open(g)' <=> Open(g)
  <2> SUFFICES ASSUME NEW g PROVE Open(g)' <=> Open(g)
      OBVIOUS
  <2>1. g \in Existing => g \in GroupIx
      BY RoleAssumption DEF Existing, MemberTypes, GroupIx
  <2> QED
      BY <2>1 DEF Open, Existing
<1>4. MembersAgree'
    BY <1>3 DEF MembersAgree, MembersOf, Existing
<1> QED
    BY <1>1, <1>2, <1>4

\* A step that moves no member keeps the invariant if members other than the
\* foundation get entries only at their own groups, and only users get orders, at
\* providers of theirs.
LEMMA StayingStep ==
    ASSUME RoleInv, SameMembers,
           credit' \in [GroupIx -> SUBSET Account],
           \A g \in GroupIx : \A a \in credit'[g] :
              a \in credit[g] \/ g = gIndex[a] \/ a = Foundation,
           book' \in [Account -> [Account -> Book]],
           \A u, p \in Account :
              OpenOrders(u, p)' # {} =>
                 \/ OpenOrders(u, p) # {}
                 \/ roleType[u] = "user" /\ gIndex[p] = gIndex[u]
    PROVE  RoleInv'
<1> USE DEF SameMembers, member
<1>1. MemberTypes'
    BY DEF RoleInv, MemberTypes, SameGroups
<1>2. KeepersFinite' /\ Placed' /\ MembersAgree'
    BY MembersStay
<1>3. OrdersOfUsers'
    BY DEF RoleInv, OrdersOfUsers
<1>4. LeftAtGroup0Only'
    BY DEF RoleInv, LeftAtGroup0Only
<1> QED
    BY <1>1, <1>2, <1>3, <1>4 DEF RoleInv

\* Steps that change nothing the invariant reads.
LEMMA QuietStep ==
    ASSUME RoleInv, UNCHANGED <<member, ngroup, groups, fs, credit, book>>
    PROVE  RoleInv'
<1>1. SameMembers
    BY DEF RoleInv, MemberTypes, SameMembers, SameGroups
<1>2. \A u, p \in Account : OpenOrders(u, p)' = OpenOrders(u, p)
    BY DEF OpenOrders
<1>3. /\ credit' = credit
      /\ credit' \in [GroupIx -> SUBSET Account]
      /\ book' \in [Account -> [Account -> Book]]
    BY DEF RoleInv, MemberTypes
<1> QED
    BY <1>1, <1>2, <1>3, StayingStep

\* SetReady changes no list of a group.
LEMMA SetReadyKeeps ==
    ASSUME RoleInv, NEW g \in GroupIx, SetReady(g)
    PROVE  RoleInv'
<1> DEFINE new == [groups[g] EXCEPT !.IsReady = TRUE]
<1> USE DEF member
<1>1. /\ UNCHANGED <<member, ngroup, fs, credit, book>>
      /\ groups' = [groups EXCEPT ![g] = new]
    BY DEF SetReady
<1>2. groups \in [GroupIx -> Group] /\ groups[g] \in Group
    BY DEF RoleInv, MemberTypes
<1>3. /\ new \in Group
      /\ new.Keepers = groups[g].Keepers
      /\ new.Providers = groups[g].Providers
      /\ new.IsActive = groups[g].IsActive
    BY <1>2 DEF Group
<1> HIDE DEF new
<1>4. SameMembers
    BY <1>1, <1>2, <1>3 DEF SameMembers, SameGroups
<1>5. \A u, p \in Account : OpenOrders(u, p)' = OpenOrders(u, p)
    BY <1>1 DEF OpenOrders
<1>6. /\ credit' = credit
      /\ credit' \in [GroupIx -> SUBSET Account]
      /\ book' \in [Account -> [Account -> Book]]
    BY <1>1 DEF RoleInv, MemberTypes
<1> QED
    BY <1>4, <1>5, <1>6, StayingStep

\* A recharge goes to the account's own group, or to group 0.
LEMMA RechargeKeeps ==
    ASSUME RoleInv, NEW a \in Account, Recharge(a)
    PROVE  RoleInv'
<1> USE DEF Recharge, member
<1>1. SameMembers
    BY DEF RoleInv, MemberTypes, SameMembers, SameGroups
<1>2. \A u, p \in Account : OpenOrders(u, p)' = OpenOrders(u, p)
    BY DEF OpenOrders
<1>3. gIndex[a] \in GroupIx
    BY RoleAssumption DEF RoleInv, MemberTypes, Open, Existing, GroupIx
<1>4. /\ credit' \in [GroupIx -> SUBSET Account]
      /\ \A g \in GroupIx : \A b \in credit'[g] :
            b \in credit[g] \/ g = gIndex[b] \/ b = Foundation
    BY <1>3 DEF RoleInv, MemberTypes
<1>5. book' \in [Account -> [Account -> Book]]
    BY DEF RoleInv, MemberTypes
<1> QED
    BY <1>1, <1>2, <1>4, <1>5, StayingStep

\* A step that only leaves entries at the group of those it is about.
LEMMA EntriesKeep ==
    ASSUME RoleInv, NEW g \in GroupIx, NEW A \in SUBSET Account,
           \A a \in A : gIndex[a] = g \/ a = Foundation,
           credit' = [credit EXCEPT ![g] = @ \cup A],
           UNCHANGED <<member, ngroup, groups, fs, book>>
    PROVE  RoleInv'
<1> USE DEF member
<1>1. SameMembers
    BY DEF RoleInv, MemberTypes, SameMembers, SameGroups
<1>2. \A u, p \in Account : OpenOrders(u, p)' = OpenOrders(u, p)
    BY DEF OpenOrders
<1>3. credit \in [GroupIx -> SUBSET Account]
    BY DEF RoleInv, MemberTypes
<1>4. /\ credit' \in [GroupIx -> SUBSET Account]
      /\ \A h \in GroupIx : \A b \in credit'[h] :
            b \in credit[h] \/ h = gIndex[b] \/ b = Foundation
    BY <1>3
<1>5. book' \in [Account -> [Account -> Book]]
    BY DEF RoleInv, MemberTypes
<1> QED
    BY <1>1, <1>2, <1>4, <1>5, StayingStep

\* A claim that is granted leaves an entry of the provider.
LEMMA ProWithdrawKeeps ==
    ASSUME RoleInv, NEW p \in Account, NEW lost, NEW outcome,
           ProWithdraw(p, lost, outcome)
    PROVE  RoleInv'
<1>1. UNCHANGED <<member, ngroup, groups, fs, book>> /\ Open(gIndex[p])
    BY DEF ProWithdraw
<1>2. gIndex[p] \in GroupIx
    BY <1>1, OpenGroup
<1>3. CASE credit' = credit
    BY <1>1, <1>3, QuietStep
<1>4. CASE credit' = [credit EXCEPT ![gIndex[p]] = @ \cup {p}]
  <2>1. {p} \in SUBSET Account /\ \A a \in {p} : gIndex[a] = gIndex[p]
      OBVIOUS
  <2> QED
      BY <1>1, <1>2, <1>4, <2>1, EntriesKeep
<1> QED
    BY <1>3, <1>4 DEF ProWithdraw

\* A withdrawal leaves entries of its account and of the keepers of its group.
LEMMA WithdrawFromFsKeeps ==
    ASSUME RoleInv, NEW a \in Account, NEW shared \in BOOLEAN,
           WithdrawFromFs(a, shared)
    PROVE  RoleInv'
<1> DEFINE g == gIndex[a]
           A == {a} \cup (IF shared THEN groups[g].Keepers ELSE {})
<1>1. UNCHANGED <<member, ngroup, groups, fs, book>> /\ Open(g)
    BY DEF WithdrawFromFs
<1>2. g \in GroupIx
    BY <1>1, OpenGroup
<1>3. groups[g].Keepers = MembersOf(g, "keeper")
    BY <1>2 DEF RoleInv, MembersAgree
<1>4. A \in SUBSET Account /\ \A b \in A : gIndex[b] = g
    BY <1>3 DEF MembersOf
<1>5. credit' = [credit EXCEPT ![g] = @ \cup A]
  <2>1. credit' = [credit EXCEPT
             ![g] = @ \cup {a}
                      \cup (IF shared THEN groups[g].Keepers ELSE {})]
      BY DEF WithdrawFromFs
  <2>2. credit \in [GroupIx -> SUBSET Account]
      BY DEF RoleInv, MemberTypes
  <2> QED
      BY <1>2, <2>1, <2>2
<1> HIDE DEF g, A
<1> QED
    BY <1>1, <1>2, <1>4, <1>5, EntriesKeep

\* New sums of a group change no list.
LEMMA NewSums ==
    ASSUME RoleInv, NEW g \in GroupIx, NEW size \in Int, NEW price \in Int,
           groups' = [groups EXCEPT ![g] =
                         [groups[g] EXCEPT !.Size = size, !.Price = price]]
    PROVE  SameGroups
<1>1. groups \in [GroupIx -> Group]
    BY DEF RoleInv, MemberTypes
<1>2. groups[g] \in Group
    BY <1>1
<1> DEFINE new == [groups[g] EXCEPT !.Size = size, !.Price = price]
<1>3. /\ new \in Group
      /\ new.Keepers = groups[g].Keepers
      /\ new.Providers = groups[g].Providers
      /\ new.IsActive = groups[g].IsActive
    BY <1>2 DEF Group
<1>4. groups' = [groups EXCEPT ![g] = new]
    OBVIOUS
<1> HIDE DEF new
<1> QED
    BY <1>1, <1>3, <1>4 DEF SameGroups

\* The terms of an order are well-typed.
LEMMA TermsTypes ==
    ASSUME NEW u \in Account, NEW p \in Account, NEW n \in Nonces(u, p)
    PROVE  n \in Nat /\ Terms[u][p][n + 1] \in Order
<1>1. Terms[u][p] \in Seq(Order)
    BY RoleAssumption
<1>2. n \in Nat /\ n + 1 \in 1 .. Len(Terms[u][p])
    BY <1>1 DEF Nonces
<1> QED
    BY <1>1, <1>2

\* AddOrder serves users at providers of their own groups, and credits the
\* foundation where they are.
LEMMA AddOrderKeeps ==
    ASSUME RoleInv,
           NEW u \in Account, NEW p \in Account, NEW n \in Nonces(u, p),
           AddOrder(u, p, n)
    PROVE  RoleInv'
<1> DEFINE o == Terms[u][p][n + 1]
           g == gIndex[u]
           size == groups[g].Size + o.size
           price == groups[g].Price + o.sprice
           new == [book[u][p] EXCEPT !.nonce = @ + 1]
<1> USE DEF member
<1>1. /\ UNCHANGED <<member, ngroup, fs>>
      /\ credit' = [credit EXCEPT ![g] = @ \cup {Foundation}]
      /\ book' = [book EXCEPT ![u][p].nonce = @ + 1]
      /\ Serves(p, g) /\ Open(g) /\ u \in fs[g]
      /\ \/ groups' = [groups EXCEPT ![g].Size = @ + o.size,
                                     ![g].Price = @ + o.sprice]
         \/ groups' = groups
    BY DEF AddOrder
<1>2. g \in GroupIx
    BY <1>1, OpenGroup
<1>3. o.size \in Int /\ o.sprice \in Int
    BY TermsTypes DEF Order
<1>4. SameGroups
  <2>1. CASE groups' = groups
      BY <2>1 DEF RoleInv, MemberTypes, SameGroups
  <2>2. CASE groups' = [groups EXCEPT ![g].Size = @ + o.size,
                                      ![g].Price = @ + o.sprice]
    <3>1. groups \in [GroupIx -> Group] /\ groups[g] \in Group
        BY <1>2 DEF RoleInv, MemberTypes
    <3>2. groups' = [groups EXCEPT ![g] =
                        [groups[g] EXCEPT !.Size = size, !.Price = price]]
        BY <2>2, <1>2, <3>1 DEF Group
    <3>3. size \in Int /\ price \in Int
        BY <3>1, <1>3 DEF Group
    <3> HIDE DEF g, size, price
    <3> QED
        BY <1>2, <3>2, <3>3, NewSums
  <2> QED
      BY <1>1, <2>1, <2>2
<1>5. book[u][p] \in Book /\ new \in Book
  <2>1. book[u][p] \in Book
      BY DEF RoleInv, MemberTypes
  <2> QED
      BY <2>1 DEF Book
<1>6. book' = [book EXCEPT ![u][p] = new]
    BY <1>1
<1>7. roleType[u] = "user" /\ gIndex[p] = gIndex[u]
    BY <1>1, <1>2 DEF RoleInv, MembersAgree, Serves
<1> HIDE DEF new
<1>8. /\ book' \in [Account -> [Account -> Book]]
      /\ book'[u][p] = new
      /\ \A v, r \in Account : ~(v = u /\ r = p) => book'[v][r] = book[v][r]
    BY <1>5, <1>6 DEF RoleInv, MemberTypes
<1>9. \A v, r \in Account : OpenOrders(v, r)' # {} =>
         \/ OpenOrders(v, r) # {}
         \/ roleType[v] = "user" /\ gIndex[r] = gIndex[v]
    BY <1>7, <1>8 DEF OpenOrders
<1>10. SameMembers
    BY <1>1, <1>4 DEF SameMembers
<1>11. /\ credit' \in [GroupIx -> SUBSET Account]
       /\ \A h \in GroupIx : \A a \in credit'[h] :
            a \in credit[h] \/ h = gIndex[a] \/ a = Foundation
  <2>1. /\ credit' = [credit EXCEPT ![g] = @ \cup {Foundation}]
        /\ credit \in [GroupIx -> SUBSET Account] /\ Foundation \in Account
    BY <1>1, RoleAssumption DEF RoleInv, MemberTypes
  <2> HIDE DEF o, g
  <2> QED
    BY ONLY <1>2, <2>1
<1> HIDE DEF o, g
<1> QED
    BY <1>8, <1>9, <1>10, <1>11, StayingStep

\* SubOrder only takes orders out.
LEMMA SubOrderKeeps ==
    ASSUME RoleInv,
           NEW u \in Account, NEW p \in Account, NEW n \in Nonces(u, p),
           SubOrder(u, p, n)
    PROVE  RoleInv'
<1> DEFINE o == Terms[u][p][n + 1]
           g == gIndex[u]
           size == groups[g].Size - o.size
           price == groups[g].Price - o.sprice
           new == [book[u][p] EXCEPT !.subNonce = @ + 1]
<1> USE DEF member
<1>1. /\ UNCHANGED <<member, ngroup, fs, credit>>
      /\ book' = [book EXCEPT ![u][p].subNonce = @ + 1]
      /\ Open(g)
      /\ groups' = [groups EXCEPT ![g] = Without(groups[g], o)]
    BY DEF SubOrder, MaySub
<1>2. g \in GroupIx
    BY <1>1, OpenGroup
<1>3. o.size \in Int /\ o.sprice \in Int
    BY TermsTypes DEF Order
<1>4. SameGroups
  <2>1. groups \in [GroupIx -> Group] /\ groups[g] \in Group
      BY <1>2 DEF RoleInv, MemberTypes
  <2>2. groups' = [groups EXCEPT ![g] =
                      [groups[g] EXCEPT !.Size = size, !.Price = price]]
      BY <1>1 DEF Without
  <2>3. size \in Int /\ price \in Int
      BY <2>1, <1>3 DEF Group
  <2> HIDE DEF g, size, price
  <2> QED
      BY <1>2, <2>2, <2>3, NewSums
<1>5. /\ book[u][p] \in Book /\ new \in Book
      /\ new.nonce = book[u][p].nonce
      /\ new.subNonce = book[u][p].subNonce + 1
  <2>1. book[u][p] \in Book
      BY DEF RoleInv, MemberTypes
  <2> QED
      BY <2>1 DEF Book
<1>6. book' = [book EXCEPT ![u][p] = new]
    BY <1>1
<1> HIDE DEF new
<1>7. /\ book' \in [Account -> [Account -> Book]]
      /\ book'[u][p] = new
      /\ \A v, r \in Account : ~(v = u /\ r = p) => book'[v][r] = book[v][r]
  <2>1. PICK w \in Book : w = new
      BY <1>5
  <2>2. book' = [book EXCEPT ![u][p] = w]
      BY <1>6, <2>1
  <2> QED
      BY <2>1, <2>2 DEF RoleInv, MemberTypes
<1>8. \A v, r \in Account : OpenOrders(v, r)' \subseteq OpenOrders(v, r)
  <2> SUFFICES ASSUME NEW v \in Account, NEW r \in Account,
                      NEW i \in Nonces(v, r),
                      book'[v][r].subNonce <= i, i < book'[v][r].nonce
               PROVE  book[v][r].subNonce <= i /\ i < book[v][r].nonce
      BY DEF OpenOrders
  <2>1. CASE v = u /\ r = p
      BY <2>1, <1>5, <1>7, TermsTypes DEF Book
  <2>2. CASE ~(v = u /\ r = p)
      BY <2>2, <1>7
  <2> QED
      BY <2>1, <2>2
<1>9. SameMembers
    BY <1>1, <1>4 DEF SameMembers
<1>10. /\ credit' \in [GroupIx -> SUBSET Account]
       /\ \A h \in GroupIx : \A a \in credit'[h] :
            a \in credit[h] \/ h = gIndex[a]
    BY <1>1 DEF RoleInv, MemberTypes
<1> HIDE DEF o, g
<1> QED
    BY <1>7, <1>8, <1>9, <1>10, StayingStep

\* An account in no group yet is in no group's lists and has no orders.
LEMMA Newcomer ==
    ASSUME RoleInv, NEW a \in Account, roleType[a] # "user", ~isActive[a]
    PROVE  /\ gIndex[a] = 0
           /\ \A g \in GroupIx : /\ a \notin groups[g].Keepers
                                 /\ a \notin groups[g].Providers
                                 /\ a \notin fs[g]
                                 /\ a \in credit[g] => g = 0 \/ a = Foundation
           /\ \A p \in Account : OpenOrders(a, p) = {}
           /\ \A u \in Account : OpenOrders(u, a) # {} => gIndex[u] = 0
<1>1. gIndex[a] = 0
    BY DEF RoleInv, Placed
<1>2. \A g \in GroupIx : /\ a \notin groups[g].Keepers
                         /\ a \notin groups[g].Providers
                         /\ a \notin fs[g]
    BY DEF RoleInv, MembersAgree, MembersOf
<1>3. \A p \in Account : OpenOrders(a, p) = {}
    BY DEF RoleInv, OrdersOfUsers
<1>4. \A u \in Account : OpenOrders(u, a) # {} => gIndex[u] = 0
    BY <1>1 DEF RoleInv, LeftAtGroup0Only
<1>5. \A g \in GroupIx : a \in credit[g] => g = 0 \/ a = Foundation
    BY <1>1 DEF RoleInv, LeftAtGroup0Only
<1> QED
    BY <1>1, <1>2, <1>3, <1>4, <1>5

\* A newcomer that is given a group leaves nothing behind elsewhere.
LEMMA MoveKeeps ==
    ASSUME RoleInv, NEW a \in Account, roleType[a] # "user", ~isActive[a],
           NEW g \in GroupIx,
           gIndex' = [gIndex EXCEPT ![a] = g],
           \A b \in Account : b # a => roleType'[b] = roleType[b],
           UNCHANGED <<credit, book>>
    PROVE  OrdersOfUsers' /\ LeftAtGroup0Only'
<1>1. \A u, p \in Account : OpenOrders(u, p)' = OpenOrders(u, p)
    BY DEF OpenOrders
<1>2. \A b \in Account : b # a => gIndex'[b] = gIndex[b]
    BY DEF RoleInv, MemberTypes
<1>3. OrdersOfUsers'
    BY <1>1, Newcomer DEF OrdersOfUsers, RoleInv
<1>4. \A h \in GroupIx : \A b \in credit'[h] :
         b # Foundation => h = gIndex'[b] \/ h = 0
  <2> SUFFICES ASSUME NEW h \in GroupIx, NEW b \in credit[h], b # Foundation
               PROVE  h = gIndex'[b] \/ h = 0
      OBVIOUS
  <2>1. b \in Account
      BY DEF RoleInv, MemberTypes
  <2> QED
      BY <1>2, <2>1, Newcomer DEF RoleInv, LeftAtGroup0Only
<1>5. ASSUME NEW u \in Account, NEW p \in Account, OpenOrders(u, p) # {}
      PROVE  gIndex'[p] = gIndex'[u] \/ gIndex'[u] = 0
  <2>1. u # a
      BY <1>5, Newcomer
  <2>2. CASE p = a
      BY <1>2, <1>5, <2>1, <2>2, Newcomer
  <2>3. CASE p # a
      BY <1>2, <1>5, <2>1, <2>3 DEF RoleInv, LeftAtGroup0Only
  <2> QED
      BY <2>2, <2>3
<1> QED
    BY <1>1, <1>3, <1>4, <1>5 DEF LeftAtGroup0Only

\* RegisterKeeper and RegisterProvider.
LEMMA RegisterRoleKeeps ==
    ASSUME RoleInv, NEW a \in Account, NEW role \in {"keeper", "provider"},
           RegisterRole(a, role)
    PROVE  RoleInv'
<1>1. /\ roleType[a] = "none" /\ ~isActive[a]
      /\ roleType' = [roleType EXCEPT ![a] = role]
      /\ UNCHANGED <<isActive, gIndex, ngroup, groups, fs, credit, book>>
    BY DEF RegisterRole, RoleInv, Placed
<1>2. \A b \in Account : roleType'[b] = IF b = a THEN role ELSE roleType[b]
    BY <1>1 DEF RoleInv, MemberTypes
<1>3. MemberTypes'
    BY <1>1 DEF RoleInv, MemberTypes, Role
<1>4. KeepersFinite'
    BY <1>1 DEF RoleInv, KeepersFinite
<1>5. Placed'
    BY <1>1, <1>2 DEF RoleInv, Placed
<1>6. MembersAgree'
  <2>1. \A g \in GroupIx, r \in Role : MembersOf(g, r)' = MembersOf(g, r)
      BY <1>1, <1>2 DEF MembersOf
  <2>2. \A g \in GroupIx :
           {b \in Account : roleType'[b] = "user" /\ gIndex'[b] = g}
             = {b \in Account : roleType[b] = "user" /\ gIndex[b] = g}
      BY <1>1, <1>2
  <2>3. \A g \in GroupIx : Open(g)' <=> Open(g)
      BY <1>1 DEF Open, Existing
  <2> QED
      BY <1>1, <2>1, <2>2, <2>3 DEF RoleInv, MembersAgree, Existing, Role
<1>7. \A u, p \in Account : OpenOrders(u, p)' = OpenOrders(u, p)
    BY <1>1 DEF OpenOrders
<1>8. OrdersOfUsers'
    BY <1>1, <1>2, <1>7, Newcomer DEF RoleInv, OrdersOfUsers
<1>9. LeftAtGroup0Only'
    BY <1>1, <1>7 DEF RoleInv, LeftAtGroup0Only
<1> QED
    BY <1>3, <1>4, <1>5, <1>6, <1>8, <1>9 DEF RoleInv

\* RegisterUser: the fs is at the user's own, open group.
LEMMA RegisterUserKeeps ==
    ASSUME RoleInv, NEW a \in Account, NEW g \in GroupIx, RegisterUser(a, g)
    PROVE  RoleInv'
<1>1. /\ roleType[a] = "none" /\ ~isActive[a] /\ Open(g)
      /\ roleType' = [roleType EXCEPT ![a] = "user"]
      /\ gIndex' = [gIndex EXCEPT ![a] = g]
      /\ fs' = [fs EXCEPT ![g] = @ \cup {a}]
      /\ UNCHANGED <<isActive, ngroup, groups, credit, book>>
    BY DEF RegisterUser, RoleInv, Placed
<1>2. \A b \in Account :
         /\ roleType'[b] = IF b = a THEN "user" ELSE roleType[b]
         /\ gIndex'[b] = IF b = a THEN g ELSE gIndex[b]
    BY <1>1 DEF RoleInv, MemberTypes
<1>3. MemberTypes'
    BY <1>1 DEF RoleInv, MemberTypes, Role
<1>4. KeepersFinite'
    BY <1>1 DEF RoleInv, KeepersFinite
<1>5. Placed'
    BY <1>1, <1>2 DEF RoleInv, Placed
<1>6. MembersAgree'
  <2>1. \A h \in GroupIx, r \in {"keeper", "provider"} :
           MembersOf(h, r)' = MembersOf(h, r)
      BY <1>1, <1>2 DEF MembersOf
  <2>2. \A h \in GroupIx : fs'[h] =
           {b \in Account : roleType'[b] = "user" /\ gIndex'[b] = h}
    <3> SUFFICES ASSUME NEW h \in GroupIx
                 PROVE  fs'[h] = {b \in Account : /\ roleType'[b] = "user"
                                                  /\ gIndex'[b] = h}
        OBVIOUS
    <3>1. fs[h] = {b \in Account : roleType[b] = "user" /\ gIndex[b] = h}
        BY DEF RoleInv, MembersAgree
    <3>2. fs'[h] = IF h = g THEN fs[h] \cup {a} ELSE fs[h]
        BY <1>1 DEF RoleInv, MemberTypes
    <3> QED
        BY <1>1, <1>2, <3>1, <3>2
  <2>3. \A h \in GroupIx : Open(h)' <=> Open(h)
      BY <1>1 DEF Open, Existing
  <2>4. \A h \in GroupIx : fs'[h] # {} => Open(h)'
      BY <1>1, <2>3 DEF RoleInv, MembersAgree, MemberTypes
  <2>5. \A b \in Account : gIndex'[b] # 0 => gIndex'[b] \in Existing'
      BY <1>1, <1>2 DEF RoleInv, MembersAgree, Open, Existing
  <2> QED
      BY <1>1, <2>1, <2>2, <2>4, <2>5 DEF RoleInv, MembersAgree
<1>7. OrdersOfUsers' /\ LeftAtGroup0Only'
    BY ZenonT(30), <1>1, <1>2, MoveKeeps
<1> QED
    BY <1>3, <1>4, <1>5, <1>6, <1>7 DEF RoleInv

\* CreateGroup adds an empty group.
LEMMA CreateGroupKeeps == ASSUME RoleInv, CreateGroup PROVE RoleInv'
<1> USE DEF member
<1>1. /\ ngroup < NGroup /\ ngroup' = ngroup + 1
      /\ UNCHANGED <<roleType, isActive, gIndex, groups, fs, credit, book>>
    BY DEF CreateGroup
<1>2. MemberTypes'
    BY <1>1, RoleAssumption DEF RoleInv, MemberTypes
<1>3. KeepersFinite' /\ Placed'
    BY <1>1 DEF RoleInv, KeepersFinite, Placed
<1>4. Existing \subseteq Existing'
    BY <1>1, RoleAssumption DEF RoleInv, MemberTypes, Existing
<1>5. MembersAgree'
    BY <1>1, <1>4 DEF RoleInv, MembersAgree, MembersOf, Open
<1>6. \A u, p \in Account : OpenOrders(u, p)' = OpenOrders(u, p)
    BY <1>1 DEF OpenOrders
<1>7. OrdersOfUsers' /\ LeftAtGroup0Only'
    BY <1>1, <1>6 DEF RoleInv, OrdersOfUsers, LeftAtGroup0Only
<1> QED
    BY <1>2, <1>3, <1>5, <1>7 DEF RoleInv

\* Cardinalities only grow as a keeper is added.
LEMMA KeeperAdded ==
    ASSUME RoleInv, NEW g \in GroupIx, NEW k \in Account
    PROVE  LET keepers == groups[g].Keepers \cup {k} IN
           /\ IsFiniteSet(keepers)
           /\ Cardinality(keepers) \in Nat
           /\ groups[g].IsActive => Cardinality(keepers) >= GroupLevel
<1> DEFINE keepers == groups[g].Keepers \cup {k}
<1>1. IsFiniteSet(groups[g].Keepers)
    BY DEF RoleInv, KeepersFinite
<1>2. /\ IsFiniteSet(keepers)
      /\ Cardinality(keepers) \in {Cardinality(groups[g].Keepers),
                                   Cardinality(groups[g].Keepers) + 1}
    BY <1>1, FS_AddElement
<1>3. Cardinality(groups[g].Keepers) \in Nat
    BY <1>1, FS_CardinalityType
<1>4. groups[g].IsActive => Cardinality(groups[g].Keepers) >= GroupLevel
    BY DEF RoleInv, MembersAgree
<1> QED
    BY <1>2, <1>3, <1>4, RoleAssumption

\* A keeper or provider that joins is added to its group's list alone.
LEMMA JoinKeeps ==
    ASSUME RoleInv, NEW a \in Account, NEW g \in GroupIx,
           NEW role \in {"keeper", "provider"},
           MayJoin(a, role), g \in Existing, Joins(a, g),
           NEW new \in Group, groups' = [groups EXCEPT ![g] = new],
           new.Keepers = IF role = "keeper" THEN groups[g].Keepers \cup {a}
                         ELSE groups[g].Keepers,
           new.Providers = IF role = "provider"
                           THEN groups[g].Providers \cup {a}
                           ELSE groups[g].Providers,
           groups[g].IsActive => new.IsActive,
           new.IsActive => Cardinality(new.Keepers) >= GroupLevel,
           UNCHANGED <<roleType, ngroup, fs, credit, book>>
    PROVE  RoleInv'
<1>1. /\ roleType[a] = role /\ ~isActive[a]
      /\ gIndex' = [gIndex EXCEPT ![a] = g]
      /\ isActive' = [isActive EXCEPT ![a] = TRUE]
    BY DEF MayJoin, Joins
<1>2. \A b \in Account : /\ gIndex'[b] = IF b = a THEN g ELSE gIndex[b]
                         /\ isActive'[b] = IF b = a THEN TRUE ELSE isActive[b]
    BY <1>1 DEF RoleInv, MemberTypes
<1>3. \A h \in GroupIx : groups'[h] = IF h = g THEN new ELSE groups[h]
    BY DEF RoleInv, MemberTypes
<1>4. MemberTypes'
    BY <1>1 DEF RoleInv, MemberTypes
<1>5. KeepersFinite'
    BY <1>3, KeeperAdded DEF RoleInv, KeepersFinite
<1>6. Placed'
    BY <1>1, <1>2 DEF RoleInv, Placed
<1>7. MembersAgree'
  <2>1. ASSUME NEW h \in GroupIx, NEW r \in {"keeper", "provider"}
        PROVE  MembersOf(h, r)' =
                 IF h = g /\ r = role THEN MembersOf(h, r) \cup {a}
                 ELSE MembersOf(h, r)
    <3>1. \A b \in Account :
             roleType'[b] = r /\ isActive'[b] /\ gIndex'[b] = h
             <=> \/ roleType[b] = r /\ isActive[b] /\ gIndex[b] = h
                 \/ b = a /\ h = g /\ r = role
      BY <1>1, <1>2
    <3> QED
      BY <3>1 DEF MembersOf
  <2>2. \A h \in GroupIx : /\ groups'[h].Keepers = MembersOf(h, "keeper")'
                           /\ groups'[h].Providers = MembersOf(h, "provider")'
    <3>1. \A h \in GroupIx : /\ groups[h].Keepers = MembersOf(h, "keeper")
                             /\ groups[h].Providers = MembersOf(h, "provider")
        BY DEF RoleInv, MembersAgree
    <3>2. CASE role = "keeper"
        BY <1>3, <2>1, <3>1, <3>2
    <3>3. CASE role = "provider"
        BY <1>3, <2>1, <3>1, <3>3
    <3> QED
        BY <3>2, <3>3
  <2>3. \A h \in GroupIx : fs'[h] =
           {b \in Account : roleType'[b] = "user" /\ gIndex'[b] = h}
      BY <1>1, <1>2 DEF RoleInv, MembersAgree
  <2>4. \A h \in GroupIx : Open(h) => Open(h)'
      BY <1>3 DEF Open, Existing
  <2>5. \A h \in GroupIx : groups'[h].IsActive =>
           Cardinality(groups'[h].Keepers) >= GroupLevel
      BY <1>3 DEF RoleInv, MembersAgree
  <2>6. \A b \in Account : gIndex'[b] # 0 => gIndex'[b] \in Existing'
      BY <1>2 DEF RoleInv, MembersAgree, Existing
  <2> QED
      BY <2>2, <2>3, <2>4, <2>5, <2>6 DEF RoleInv, MembersAgree
<1>8. OrdersOfUsers' /\ LeftAtGroup0Only'
    BY <1>1, MoveKeeps
<1> QED
    BY <1>4, <1>5, <1>6, <1>7, <1>8 DEF RoleInv

\* AddKeeperToGroup opens the group once there are enough.
LEMMA AddKeeperKeeps ==
    ASSUME RoleInv, NEW a \in Account, NEW g \in GroupIx,
           AddKeeperToGroup(a, g)
    PROVE  RoleInv'
<1> DEFINE keepers == groups[g].Keepers \cup {a}
           active  == groups[g].IsActive \/ Cardinality(keepers) >= GroupLevel
           new     == [groups[g] EXCEPT !.Keepers = keepers,
                                        !.IsActive = active]
<1>1. groups[g] \in Group
    BY DEF RoleInv, MemberTypes
<1>2. keepers \subseteq Account /\ active \in BOOLEAN
    BY <1>1 DEF Group
<1>3. active => Cardinality(keepers) >= GroupLevel
    BY KeeperAdded
<1>4. groups' = [groups EXCEPT ![g] = new]
  <2>1. groups' = [groups EXCEPT
                      ![g].Keepers = keepers,
                      ![g].IsActive = @ \/ Cardinality(keepers) >= GroupLevel]
      BY DEF AddKeeperToGroup
  <2> HIDE DEF keepers
  <2> QED
      BY <2>1, <1>1 DEF Group, RoleInv, MemberTypes
<1>5. groups[g].IsActive => active
    OBVIOUS
<1>6. /\ new \in Group
      /\ new.Keepers = keepers
      /\ new.Providers = groups[g].Providers
      /\ new.IsActive = active
  <2> HIDE DEF keepers, active
  <2> QED
      BY <1>1, <1>2 DEF Group
<1>7. /\ MayJoin(a, "keeper") /\ g \in Existing /\ Joins(a, g)
      /\ UNCHANGED <<roleType, ngroup, fs, credit, book>>
    BY DEF AddKeeperToGroup
<1> HIDE DEF new, active
<1> QED
    BY <1>3, <1>4, <1>5, <1>6, <1>7, JoinKeeps

\* AddProviderToGroup.
LEMMA AddProviderKeeps ==
    ASSUME RoleInv, NEW a \in Account, NEW g \in GroupIx,
           AddProviderToGroup(a, g)
    PROVE  RoleInv'
<1> DEFINE providers == groups[g].Providers \cup {a}
           new       == [groups[g] EXCEPT !.Providers = providers]
<1>1. groups[g] \in Group
    BY DEF RoleInv, MemberTypes
<1>2. providers \subseteq Account
    BY <1>1 DEF Group
<1>3. groups' = [groups EXCEPT ![g] = new]
    BY DEF AddProviderToGroup
<1>4. /\ new \in Group
      /\ new.Keepers = groups[g].Keepers
      /\ new.Providers = providers
      /\ new.IsActive = groups[g].IsActive
  <2> HIDE DEF providers
  <2> QED
      BY <1>1, <1>2 DEF Group
<1>5. groups[g].IsActive => Cardinality(groups[g].Keepers) >= GroupLevel
    BY DEF RoleInv, MembersAgree
<1>6. /\ MayJoin(a, "provider") /\ g \in Existing /\ Joins(a, g)
      /\ UNCHANGED <<roleType, ngroup, fs, credit, book>>
    BY DEF AddProviderToGroup
<1> HIDE DEF new
<1> QED
    BY <1>3, <1>4, <1>5, <1>6, JoinKeeps

\* The invariant is inductive.
LEMMA NextKeeps == RoleInv /\ [Next]_vars => RoleInv'
<1> SUFFICES ASSUME RoleInv, [Next]_vars PROVE RoleInv'
    OBVIOUS
<1>1. CASE Tick
    BY <1>1, QuietStep DEF Tick
<1>2. CASE CreateGroup
    BY <1>2, CreateGroupKeeps
<1>3. CASE \E g \in GroupIx : SetReady(g)
    BY <1>3, SetReadyKeeps
<1>4. CASE \E a \in Account, role \in {"keeper", "provider"} :
              role \in Asks[a] /\ RegisterRole(a, role)
    BY <1>4, RegisterRoleKeeps
<1>5. CASE \E a \in Account, g \in GroupIx :
              \/ "user" \in Asks[a] /\ RegisterUser(a, g)
              \/ AddKeeperToGroup(a, g)
              \/ AddProviderToGroup(a, g)
    BY <1>5, RegisterUserKeeps, AddKeeperKeeps, AddProviderKeeps
<1>6. CASE \E a \in Payers : \/ Recharge(a)
                            \/ \E shared \in BOOLEAN : WithdrawFromFs(a, shared)
    BY <1>6, RechargeKeeps, WithdrawFromFsKeeps, RoleAssumption
<1>7. CASE \E v \in Gifts : Fund(v)
    BY <1>7, QuietStep DEF Fund
<1>8. CASE \E u, p \in Account : \E n \in Nonces(u, p) :
              AddOrder(u, p, n) \/ SubOrder(u, p, n)
    BY <1>8, AddOrderKeeps, SubOrderKeeps
<1>9. CASE \E p \in Account, outcome \in Outcomes : \E lost \in Losses[p] :
              ProWithdraw(p, lost, outcome)
    BY <1>9, ProWithdrawKeeps
<1>10. CASE \E p, q \in Account : \E n \in 0 .. Len(RepairPays[q]) - 1 :
               AddRepair(p, q, n)
    BY <1>10, QuietStep DEF AddRepair
<1>11. CASE UNCHANGED vars
    BY <1>11, QuietStep DEF vars, member
<1> QED
    BY <1>1, <1>2, <1>3, <1>4, <1>5, <1>6, <1>7, <1>8, <1>9, <1>10, <1>11
    DEF Next

\* The invariant holds throughout.
LEMMA RoleInvariant == Spec => []RoleInv
<1>1. Init => RoleInv
    BY InitRole
<1>2. RoleInv /\ [Next]_vars => RoleInv'
    BY NextKeeps
<1> QED
    BY <1>1, <1>2, PTL DEF Spec

\* In every instance, roles, the groups' lists and the fs managers agree, and a
\* group that is open has its keepers, whoever registers and joins when.
THEOREM RoleMembersAgree == Spec => []MembersAgree
<1>1. RoleInv => MembersAgree
    BY DEF RoleInv
<1> QED
    BY <1>1, RoleInvariant, PTL

\* In every instance, the money of everyone but the foundation and all open
\* orders are reached through the own group, except for what newcomers have left
\* at group 0.
THEOREM RoleLeftAtGroup0Only == Spec => []LeftAtGroup0Only
<1>1. RoleInv => LeftAtGroup0Only
    BY DEF RoleInv
<1> QED
    BY <1>1, RoleInvariant, PTL

-----------------------------------------------------------------------------
(***************************************************************************)
(* Orders that were taken                                                  *)
(***************************************************************************)
\* Orders are ended after they were added, and only users of groups have any,
\* at providers.
OrdersTaken ==
    \A u, p \in Account :
        /\ book[u][p].subNonce <= book[u][p].nonce
        /\ book[u][p].nonce > 0 =>
              /\ roleType[u] = "user" /\ roleType[p] = "provider"
              /\ gIndex[u] \in GroupIx

\* Roles, once taken, stay.
RolesStay == \A a \in Account : roleType[a] # "none" => roleType'[a] = roleType[a]

\* Steps that only give roles to those without one keep it.
LEMMA TakenStays ==
    ASSUME RoleInv, OrdersTaken, book' = book, RolesStay,
           \A a \in Account : gIndex'[a] = gIndex[a] \/ roleType[a] # "user"
    PROVE  OrdersTaken'
<1> SUFFICES ASSUME NEW u \in Account, NEW p \in Account
             PROVE  /\ book'[u][p].subNonce <= book'[u][p].nonce
                    /\ book'[u][p].nonce > 0 =>
                          /\ roleType'[u] = "user" /\ roleType'[p] = "provider"
                          /\ gIndex'[u] \in GroupIx
    BY DEF OrdersTaken
<1> QED
    BY DEF OrdersTaken, RolesStay

\* An order that was added has the next nonce, and its user and provider their
\* roles.
LEMMA AddOrderBook ==
    ASSUME RoleInv, NEW u \in Account, NEW p \in Account, NEW n \in Nonces(u, p),
           AddOrder(u, p, n)
    PROVE  /\ roleType' = roleType /\ gIndex' = gIndex
           /\ roleType[u] = "user" /\ roleType[p] = "provider"
           /\ gIndex[u] \in GroupIx
           /\ n \in Nat /\ book[u][p].nonce = n
           /\ book'[u][p].nonce = n + 1
           /\ book'[u][p].subNonce = book[u][p].subNonce
           /\ \A v, r \in Account : ~(v = u /\ r = p) => book'[v][r] = book[v][r]
<1> DEFINE new == [book[u][p] EXCEPT !.nonce = @ + 1]
<1>1. /\ UNCHANGED member
      /\ book' = [book EXCEPT ![u][p].nonce = @ + 1]
      /\ book[u][p].nonce = n
      /\ Serves(p, gIndex[u]) /\ Open(gIndex[u]) /\ u \in fs[gIndex[u]]
    BY DEF AddOrder
<1>2. gIndex[u] \in GroupIx
    BY <1>1, OpenGroup
<1>3. roleType[u] = "user" /\ roleType[p] = "provider"
    BY <1>1, <1>2 DEF RoleInv, MembersAgree, Serves
<1>4. book[u][p] \in Book
    BY DEF RoleInv, MemberTypes
<1>5. /\ new \in Book /\ new.nonce = n + 1 /\ new.subNonce = book[u][p].subNonce
    BY <1>1, <1>4 DEF Book
<1>6. book' = [book EXCEPT ![u][p] = new]
    BY <1>1
<1> HIDE DEF new
<1>7. /\ book'[u][p] = new
      /\ \A v, r \in Account : ~(v = u /\ r = p) => book'[v][r] = book[v][r]
  <2>1. PICK w \in Book : w = new
      BY <1>5
  <2>2. book' = [book EXCEPT ![u][p] = w]
      BY <1>6, <2>1
  <2> QED
      BY <2>1, <2>2 DEF RoleInv, MemberTypes
<1> QED
    BY <1>1, <1>2, <1>3, <1>5, <1>7, TermsTypes DEF member

\* An order that ended.
LEMMA SubOrderBook ==
    ASSUME RoleInv, NEW u \in Account, NEW p \in Account, NEW n \in Nonces(u, p),
           SubOrder(u, p, n)
    PROVE  /\ roleType' = roleType /\ gIndex' = gIndex
           /\ gIndex[u] \in GroupIx
           /\ n \in Nat /\ book[u][p].subNonce = n /\ n < book[u][p].nonce
           /\ book'[u][p].nonce = book[u][p].nonce
           /\ book'[u][p].subNonce = n + 1
           /\ \A v, r \in Account : ~(v = u /\ r = p) => book'[v][r] = book[v][r]
<1> DEFINE new == [book[u][p] EXCEPT !.subNonce = @ + 1]
<1>1. /\ UNCHANGED member
      /\ book' = [book EXCEPT ![u][p].subNonce = @ + 1]
      /\ book[u][p].subNonce = n /\ n < book[u][p].nonce
      /\ Open(gIndex[u])
    BY DEF SubOrder, MaySub
<1>2. gIndex[u] \in GroupIx
    BY <1>1, OpenGroup
<1>4. book[u][p] \in Book
    BY DEF RoleInv, MemberTypes
<1>5. /\ new \in Book /\ new.subNonce = n + 1 /\ new.nonce = book[u][p].nonce
    BY <1>1, <1>4 DEF Book
<1>6. book' = [book EXCEPT ![u][p] = new]
    BY <1>1
<1> HIDE DEF new
<1>7. /\ book'[u][p] = new
      /\ \A v, r \in Account : ~(v = u /\ r = p) => book'[v][r] = book[v][r]
  <2>1. PICK w \in Book : w = new
      BY <1>5
  <2>2. book' = [book EXCEPT ![u][p] = w]
      BY <1>6, <2>1
  <2> QED
      BY <2>1, <2>2 DEF RoleInv, MemberTypes
<1> QED
    BY <1>1, <1>2, <1>5, <1>7, TermsTypes DEF member

\* Every step but these two leaves the nonces, and no step takes a role away.
LEMMA OtherSteps ==
    ASSUME RoleInv, [Next]_vars
    PROVE  \/ \E u, p \in Account : \E n \in Nonces(u, p) :
                 AddOrder(u, p, n) \/ SubOrder(u, p, n)
           \/ /\ book' = book /\ RolesStay
              /\ \A a \in Account : gIndex'[a] = gIndex[a] \/ roleType[a] # "user"
              /\ groups' \in [GroupIx -> Group]
              /\ \A g \in GroupIx : /\ groups'[g].Price = groups[g].Price
                                    /\ groups'[g].Size = groups[g].Size
<1> USE DEF RolesStay
<1>1. /\ roleType \in [Account -> Role \cup {"none"}]
      /\ gIndex \in [Account -> GroupIx \cup {0}]
      /\ groups \in [GroupIx -> Group]
      /\ groups' \in [GroupIx -> Group]
    BY NextKeeps DEF RoleInv, MemberTypes
<1> DEFINE Rest == /\ book' = book /\ RolesStay
                   /\ \A a \in Account : gIndex'[a] = gIndex[a] \/ roleType[a] # "user"
                   /\ groups' \in [GroupIx -> Group]
                   /\ \A g \in GroupIx : /\ groups'[g].Price = groups[g].Price
                                         /\ groups'[g].Size = groups[g].Size
<1>2. UNCHANGED <<roleType, gIndex, groups, book>> => Rest
    BY <1>1
<1>3. CASE Tick
    BY <1>2, <1>3 DEF Tick, member
<1>4. CASE CreateGroup
    BY <1>2, <1>4 DEF CreateGroup, member
<1>5. CASE \E g \in GroupIx : SetReady(g)
  <2>1. PICK k \in GroupIx : SetReady(k)
      BY <1>5
  <2> DEFINE new == [groups[k] EXCEPT !.IsReady = TRUE]
  <2>2. groups' = [groups EXCEPT ![k] = new] /\ UNCHANGED <<book, member>>
      BY <2>1 DEF SetReady
  <2>3. groups[k] \in Group
      BY <1>1
  <2>4. new.Price = groups[k].Price /\ new.Size = groups[k].Size
      BY <2>3 DEF Group
  <2> HIDE DEF new
  <2> QED
      BY <1>1, <2>2, <2>4 DEF member
<1>6. CASE \E a \in Account, role \in {"keeper", "provider"} :
              role \in Asks[a] /\ RegisterRole(a, role)
    BY <1>1, <1>6 DEF RegisterRole
<1>7. CASE \E a \in Account, g \in GroupIx : RegisterUser(a, g)
    BY <1>1, <1>7 DEF RegisterUser
<1>8. CASE \E a \in Account, g \in GroupIx : AddKeeperToGroup(a, g)
  <2>1. PICK a \in Account, k \in GroupIx : AddKeeperToGroup(a, k)
      BY <1>8
  <2>2. PICK ks : ks = groups[k].Keepers \cup {a}
      OBVIOUS
  <2>3. PICK act : act = (groups[k].IsActive \/ Cardinality(ks) >= GroupLevel)
      OBVIOUS
  <2> DEFINE new == [groups[k] EXCEPT !.Keepers = ks, !.IsActive = act]
  <2>4. groups[k] \in Group
      BY <1>1
  <2>5. /\ groups' = [groups EXCEPT ![k] = new] /\ UNCHANGED <<book, roleType>>
        /\ gIndex' = [gIndex EXCEPT ![a] = k] /\ roleType[a] = "keeper"
      BY <2>1, <2>2, <2>3, <2>4 DEF AddKeeperToGroup, MayJoin, Joins, Group
  <2>6. new.Price = groups[k].Price /\ new.Size = groups[k].Size
      BY <2>4 DEF Group
  <2> HIDE DEF new
  <2> QED
      BY <1>1, <2>5, <2>6
<1>9. CASE \E a \in Account, g \in GroupIx : AddProviderToGroup(a, g)
  <2>1. PICK a \in Account, k \in GroupIx : AddProviderToGroup(a, k)
      BY <1>9
  <2> DEFINE new == [groups[k] EXCEPT !.Providers = @ \cup {a}]
  <2>2. /\ groups' = [groups EXCEPT ![k] = new] /\ UNCHANGED <<book, roleType>>
        /\ gIndex' = [gIndex EXCEPT ![a] = k] /\ roleType[a] = "provider"
      BY <2>1 DEF AddProviderToGroup, MayJoin, Joins
  <2>3. groups[k] \in Group
      BY <1>1
  <2>4. new.Price = groups[k].Price /\ new.Size = groups[k].Size
      BY <2>3 DEF Group
  <2> HIDE DEF new
  <2> QED
      BY <1>1, <2>2, <2>4
<1>10. CASE \E a \in Payers : \/ Recharge(a)
                             \/ \E shared \in BOOLEAN : WithdrawFromFs(a, shared)
    BY <1>2, <1>10 DEF Recharge, WithdrawFromFs, member
<1>11. CASE \E v \in Gifts : Fund(v)
    BY <1>2, <1>11 DEF Fund, member
<1>12. CASE \E p \in Account, outcome \in Outcomes : \E lost \in Losses[p] :
              ProWithdraw(p, lost, outcome)
    BY <1>2, <1>12 DEF ProWithdraw, member
<1>13. CASE \E p, q \in Account : \E n \in 0 .. Len(RepairPays[q]) - 1 :
               AddRepair(p, q, n)
    BY <1>2, <1>13 DEF AddRepair, member
<1>14. CASE UNCHANGED vars
    BY <1>2, <1>14 DEF vars
<1> QED
    BY <1>3, <1>4, <1>5, <1>6, <1>7, <1>8, <1>9, <1>10, <1>11, <1>12, <1>13,
       <1>14 DEF Next

\* It is kept.
LEMMA TakenKeeps == RoleInv /\ OrdersTaken /\ [Next]_vars => OrdersTaken'
<1> SUFFICES ASSUME RoleInv, OrdersTaken, [Next]_vars PROVE OrdersTaken'
    OBVIOUS
<1>1. CASE /\ book' = book /\ RolesStay
           /\ \A a \in Account : gIndex'[a] = gIndex[a] \/ roleType[a] # "user"
    BY <1>1, TakenStays
<1>2. CASE \E u, p \in Account : \E n \in Nonces(u, p) :
              AddOrder(u, p, n) \/ SubOrder(u, p, n)
  <2>1. PICK u \in Account, p \in Account : \E n \in Nonces(u, p) :
              AddOrder(u, p, n) \/ SubOrder(u, p, n)
      BY <1>2
  <2>2. PICK n \in Nonces(u, p) : AddOrder(u, p, n) \/ SubOrder(u, p, n)
      BY <2>1
  <2>3. CASE AddOrder(u, p, n)
    <3>1. /\ roleType' = roleType /\ gIndex' = gIndex /\ gIndex[u] \in GroupIx
          /\ roleType[u] = "user" /\ roleType[p] = "provider"
          /\ n \in Nat /\ book[u][p].nonce = n
          /\ book'[u][p].nonce = n + 1
          /\ book'[u][p].subNonce = book[u][p].subNonce
          /\ \A v, r \in Account : ~(v = u /\ r = p) => book'[v][r] = book[v][r]
        BY <2>3, AddOrderBook
    <3>2. book[u][p] \in Book
        BY DEF RoleInv, MemberTypes
    <3> QED
        BY <3>1, <3>2 DEF OrdersTaken, Book
  <2>4. CASE SubOrder(u, p, n)
    <3>1. /\ roleType' = roleType /\ gIndex' = gIndex /\ gIndex[u] \in GroupIx
          /\ n \in Nat /\ book[u][p].subNonce = n /\ n < book[u][p].nonce
          /\ book'[u][p].nonce = book[u][p].nonce
          /\ book'[u][p].subNonce = n + 1
          /\ \A v, r \in Account : ~(v = u /\ r = p) => book'[v][r] = book[v][r]
        BY <2>4, SubOrderBook
    <3>2. book[u][p] \in Book
        BY DEF RoleInv, MemberTypes
    <3> QED
        BY <3>1, <3>2 DEF OrdersTaken, Book
  <2> QED
      BY <2>2, <2>3, <2>4
<1> QED
    BY <1>1, <1>2, OtherSteps

\* It holds throughout.
LEMMA TakenInvariant == Spec => [](RoleInv /\ OrdersTaken)
<1>1. Init => OrdersTaken
    BY DEF Init, OrdersTaken
<1>2. RoleInv /\ OrdersTaken /\ [Next]_vars => OrdersTaken'
    BY TakenKeeps
<1> QED
    BY <1>1, <1>2, RoleInvariant, PTL DEF Spec

\* In every instance, an order that is over and whose turn it is meets every
\* condition of SubOrder, whatever has happened to groups and orders since, as
\* long as its provider serves the user's group.
THEOREM RoleEndedInTurn == Spec => []EndedInTurn
<1>1. RoleInv /\ OrdersTaken => EndedInTurn
  <2> SUFFICES ASSUME RoleInv, OrdersTaken,
                      NEW u \in Account, NEW p \in Account,
                      NEW n, n = book[u][p].subNonce, n \in OpenOrders(u, p),
                      Terms[u][p][n + 1].end <= now, gIndex[p] = gIndex[u]
               PROVE  MaySub(u, p, n)
      BY DEF EndedInTurn
  <2>1. /\ n \in Nonces(u, p) /\ n < book[u][p].nonce
        /\ book[u][p] \in Book
      BY DEF OpenOrders, RoleInv, MemberTypes
  <2>2. book[u][p].nonce > 0
      BY <2>1 DEF Book
  <2>3. /\ roleType[u] = "user" /\ roleType[p] = "provider"
        /\ gIndex[u] \in GroupIx
      BY <2>2 DEF OrdersTaken
  <2>4. u \in fs[gIndex[u]] /\ Open(gIndex[u])
      BY <2>3 DEF RoleInv, MembersAgree
  <2> QED
      BY <2>1, <2>3, <2>4 DEF MaySub
<1> QED
    BY <1>1, TakenInvariant, PTL
=============================================================================

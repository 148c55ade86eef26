------------------------------ MODULE RoleMgr ------------------------------
(***************************************************************************)
(* The role manager of server/contract/role.go: roles, groups, the routing *)
(* of orders to the fs manager of a group, the sums of a group, and the    *)
(* issuing of the main token that every main-token order brings about.     *)
(*                                                                         *)
(* One action is one call, with every change a failing call has already    *)
(* made; calls that fail before they change anything are stuttering steps. *)
(* That includes RegisterUser for the group after the last one, which the  *)
(* code lets pass its bounds check and which then panics.                  *)
(*                                                                         *)
(* Two neighbours are abstracted to what the role manager sees of them.    *)
(* Deposits are the matter of PledgePool: a registration here has its      *)
(* deposit.  Payments are the matter of FsMgr: of a group's fs manager     *)
(* there are the users' fs, who has an entry for money in it (in any       *)
(* token), the nonces of the orders (as OrderBook, which FsMgr implements) *)
(* and, in the main token, the settlements with their losses; whether      *)
(* money is enough is open, and a refused order changes nothing the role   *)
(* manager reads.  A claim in another token leaves what a withdrawal       *)
(* leaves; SubRepair changes only what is abstracted.  Accounts are        *)
(* registered and tokens known, as PledgePool models, and a role index is  *)
(* identified with its address.                                            *)
(***************************************************************************)
EXTENDS ErcOps, Issuance, FiniteSetsExt, Functions

CONSTANTS
    Account,       \* registered accounts
    Foundation,    \* index 0, which every group's fs manager credits taxes to
    Admin,         \* creator of the role manager, holder of the main token
    RoleAddr,      \* address of the role manager
    Pool,          \* address of the pledge pool
    Asks,          \* bound: Asks[a], the roles account a applies for
    Payers,        \* bound: accounts that recharge and withdraw
    NGroup,        \* bound: groups
    GroupLevel,    \* keepers a group needs
    InitMoney,     \* main token at the start
    Gifts,         \* amounts the admin sends to the role manager
    Terms,         \* Terms[u][p][n + 1]: signed terms of order n of u at p
    Losses,        \* Losses[p]: losses provider p claims in all
    RepairPays,    \* RepairPays[q][n + 1]: what repair n by q pays
    MaxTime        \* bound: clock

Role    == {"user", "provider", "keeper"}
GroupIx == 0 .. NGroup - 1
Order   == [start : Nat, end : Boundaries, size : Nat \ {0},
            sprice : Int, token : Nat]

\* The terms are those AddOrder does not turn down for their form; of the
\* price, a big.Int, it does not look at the sign.
ASSUME RoleAssumption ==
    /\ Foundation \in Account
    /\ {Admin, RoleAddr, Pool} \subseteq Address
    /\ RoleAddr # Pool
    /\ IsFiniteSet(Account)
    /\ Asks \in [Account -> SUBSET Role]
    /\ Payers \subseteq Account
    /\ NGroup \in Nat /\ GroupLevel \in Nat
    /\ MaxTime \in 0 .. (Days + 1) * Day - 1
    /\ InitMoney \in [Address -> Nat]
    /\ InitMoney[Pool] = 0
    /\ Gifts \subseteq Nat
    /\ Losses \in [Account -> SUBSET Nat]
    /\ RepairPays \in [Account -> Seq(Int)]
    /\ Terms \in [Account -> [Account -> Seq(Order)]]
    /\ \A u, p \in Account : \A n \in DOMAIN Terms[u][p] :
          Terms[u][p][n].start < Terms[u][p][n].end

VARIABLES
    now,        \* GetTime, counted from the day the role manager is created
    roleType,   \* BaseInfo.RoleType
    isActive,   \* BaseInfo.IsActive: has been added to a group
    gIndex,     \* BaseInfo.GIndex, 0 until the account is in a group
    ngroup,     \* number of groups
    groups,     \* groups[g]
    fs,         \* fs[g]: users with an fs at the fs manager of g
    credit,     \* credit[g]: accounts with an entry at the fs manager of g
    book,       \* book[u][p]: nonces of the orders of u at p
    se,         \* se[g][p]: settlement of p in the main token
    repairs,    \* repairs[g][q]: nonce of the repairs by q
    mint,       \* the sums for issuing
    erc,        \* ledger of the main token
    added,      \* history: the main-token orders that were added
    unsent,     \* history: issuing has failed at its transfer
    drift       \* history: what half-failed calls counted too much, or left out

vars == <<now, roleType, isActive, gIndex, ngroup, groups, fs, credit, book,
          se, repairs, mint, erc, added, unsent, drift>>
member == <<roleType, isActive, gIndex>>

NewGroup     == [IsActive |-> FALSE, IsReady |-> FALSE, Keepers |-> {},
                 Providers |-> {}, Size |-> 0, Price |-> 0]
NoSettlement == [known |-> FALSE, Lost |-> 0, LostPaid |-> 0]
Settled0     == [known |-> TRUE, Lost |-> 0, LostPaid |-> 0]

Init ==
    /\ now = 0
    /\ roleType = [a \in Account |-> "none"]
    /\ isActive = [a \in Account |-> FALSE]
    /\ gIndex = [a \in Account |-> 0]
    /\ ngroup = 0
    /\ groups = [g \in GroupIx |-> NewGroup]
    /\ fs = [g \in GroupIx |-> {}]
    /\ credit = [g \in GroupIx |-> {}]
    /\ book = [u \in Account |->
                [p \in Account |-> [nonce |-> 0, subNonce |-> 0]]]
    /\ se = [g \in GroupIx |-> [p \in Account |-> NoSettlement]]
    /\ repairs = [g \in GroupIx |-> [q \in Account |-> 0]]
    /\ mint = NewMint
    /\ erc = LedgerOf(InitMoney)
    /\ added = {}
    /\ unsent = FALSE
    /\ drift = 0

(***************************************************************************)
(* Roles and groups                                                        *)
(***************************************************************************)
Existing == 0 .. ngroup - 1

\* getGroupInfo
Open(g) == g \in Existing /\ groups[g].IsActive

Tick ==
    /\ now < MaxTime
    /\ now' = now + 1
    /\ UNCHANGED <<member, ngroup, groups, fs, credit, book, se, repairs, mint,
                   erc, added, unsent, drift>>

\* RegisterKeeper and RegisterProvider.
RegisterRole(a, role) ==
    /\ roleType[a] = "none"
    /\ roleType' = [roleType EXCEPT ![a] = role]
    /\ UNCHANGED <<now, isActive, gIndex, ngroup, groups, fs, credit, book, se,
                   repairs, mint, erc, added, unsent, drift>>

\* The bounds check lets ngroup pass, and the call then panics.
RegisterUser(a, g) ==
    /\ roleType[a] = "none"
    /\ Open(g)
    /\ roleType' = [roleType EXCEPT ![a] = "user"]
    /\ gIndex' = [gIndex EXCEPT ![a] = g]
    /\ fs' = [fs EXCEPT ![g] = @ \cup {a}]
    /\ UNCHANGED <<now, isActive, ngroup, groups, credit, book, se, repairs,
                   mint, erc, added, unsent, drift>>

CreateGroup ==
    /\ ngroup < NGroup
    /\ ngroup' = ngroup + 1
    /\ UNCHANGED <<now, member, groups, fs, credit, book, se, repairs, mint,
                   erc, added, unsent, drift>>

\* Enough signatures are taken as given.
SetReady(g) ==
    /\ g \in Existing
    /\ ~groups[g].IsActive
    /\ groups' = [groups EXCEPT ![g].IsReady = TRUE]
    /\ UNCHANGED <<now, member, ngroup, fs, credit, book, se, repairs, mint,
                   erc, added, unsent, drift>>

\* Faulty variant: an account may join one group after the other.
MayJoinAgain(a, role) == roleType[a] = role

MayJoin(a, role) == roleType[a] = role /\ ~isActive[a]

Joins(a, g) == /\ gIndex' = [gIndex EXCEPT ![a] = g]
               /\ isActive' = [isActive EXCEPT ![a] = TRUE]

AddKeeperToGroup(k, g) ==
    LET keepers == groups[g].Keepers \cup {k} IN
    /\ g \in Existing
    /\ MayJoin(k, "keeper")
    /\ groups' = [groups EXCEPT
                     ![g].Keepers = keepers,
                     ![g].IsActive = @ \/ Cardinality(keepers) >= GroupLevel]
    /\ Joins(k, g)
    /\ UNCHANGED <<now, roleType, ngroup, fs, credit, book, se, repairs, mint,
                   erc, added, unsent, drift>>

AddProviderToGroup(p, g) ==
    /\ g \in Existing
    /\ MayJoin(p, "provider")
    /\ groups' = [groups EXCEPT ![g].Providers = @ \cup {p}]
    /\ Joins(p, g)
    /\ UNCHANGED <<now, roleType, ngroup, fs, credit, book, se, repairs, mint,
                   erc, added, unsent, drift>>

(***************************************************************************)
(* Orders                                                                  *)
(***************************************************************************)
\* The account's own recharge; an admin's air drop fails (see FsMgr).
Recharge(a) ==
    /\ Open(gIndex[a])
    /\ credit' = [credit EXCEPT ![gIndex[a]] = @ \cup {a}]
    /\ UNCHANGED <<now, member, ngroup, groups, fs, book, se, repairs, mint,
                   erc, added, unsent, drift>>

\* The admin sends main tokens to the role manager, which issues them.
Fund(v) ==
    /\ ErcCanTransfer(erc, Admin, v)
    /\ erc' = ErcTransfer(erc, Admin, RoleAddr, v)
    /\ UNCHANGED <<now, member, ngroup, groups, fs, credit, book, se, repairs,
                   mint, added, unsent, drift>>

\* Issuing for main-token order o.  When the role manager has run out, the
\* call fails with the order and the sums in place and lastMint as it was.
IssueFor(u, p, n, o) ==
    LET t    == CatchUp(mint, now)
        paid == Accrued(Scheduled(mint, o), t)
        due  == paid > 0
        r    == Reward(mint, o, t)
        sent == due => ErcCanTransfer(erc, RoleAddr, r)
        last == IF sent THEN t ELSE mint.lastMint
    IN  /\ mint' = [Issued(mint, o, t) EXCEPT !.lastMint = last]
        /\ erc' = IF due THEN ErcTransfer(erc, RoleAddr, Pool, r) ELSE erc
        /\ added' = added \cup {[user |-> u, pro |-> p, nonce |-> n,
                                 since |-> last,
                                 late |-> o.end <= mint.lastMint]}
        /\ unsent' = (unsent \/ ~sent)
        /\ drift' = IF sent THEN drift ELSE drift + paid

\* Faulty variant: whoever is in the group, or in none, may get orders.
ServesAny(p, g) == gIndex[p] = g

Serves(p, g) == roleType[p] = "provider" /\ gIndex[p] = g

AddOrder(u, p, n) ==
    LET o == Terms[u][p][n + 1]
        g == gIndex[u]
    IN  /\ Serves(p, g)
        /\ Open(g)
        /\ u \in fs[g]
        /\ u \in credit[g]
        /\ book[u][p].nonce = n
        /\ book' = [book EXCEPT ![u][p].nonce = @ + 1]
        /\ IF o.token = 0
           THEN /\ IssueFor(u, p, n, o)
                /\ se' = [se EXCEPT ![g][p].known = TRUE]
                /\ groups' = [groups EXCEPT ![g].Size = @ + o.size,
                                            ![g].Price = @ + o.sprice]
           ELSE UNCHANGED <<mint, erc, added, unsent, drift, se, groups>>
        /\ credit' = [credit EXCEPT ![g] = @ \cup {Foundation}]
        /\ UNCHANGED <<now, member, ngroup, fs, repairs>>

\* Faulty variant: the size stays.
WithoutPrice(group, o) == [group EXCEPT !.Price = @ - o.sprice]

\* The group's sums are lowered for an order in any token.
Without(group, o) == [group EXCEPT !.Size = @ - o.size, !.Price = @ - o.sprice]

\* What SubOrder asks for: it is the turn of an order that is over.
MaySub(u, p, n) ==
    LET g == gIndex[u] IN
    /\ roleType[u] = "user"
    /\ roleType[p] = "provider"
    /\ gIndex[p] = g
    /\ Open(g)
    /\ u \in fs[g]
    /\ Terms[u][p][n + 1].end <= now
    /\ book[u][p].subNonce = n
    /\ n < book[u][p].nonce

SubOrder(u, p, n) ==
    /\ MaySub(u, p, n)
    /\ book' = [book EXCEPT ![u][p].subNonce = @ + 1]
    /\ groups' = [groups EXCEPT ![gIndex[u]] = Without(@, Terms[u][p][n + 1])]
    /\ UNCHANGED <<now, member, ngroup, fs, credit, se, repairs, mint, erc,
                   added, unsent, drift>>

\* Faulty variant: a loss claimed before is counted again.
LossCountedAgain(s, lost) == lost

LossCounted(s, lost) == lost - s.Lost

\* A provider claims to have lost lost in all; if the claim is turned down for
\* its pay, or its transfer fails, the loss has been recorded all the same.
ProWithdraw(p, lost, outcome) ==
    LET g    == gIndex[p]
        s    == se[g][p]
        paid == outcome = "paid"
    IN  /\ Open(g)
        /\ s.known
        /\ lost >= s.Lost
        /\ se' = [se EXCEPT ![g][p].Lost = lost]
        /\ credit' = IF outcome = "refused" THEN credit
                     ELSE [credit EXCEPT ![g] = @ \cup {p}]
        /\ mint' = IF paid
                   THEN [mint EXCEPT !.totalPaid = @ + LossCounted(s, lost)]
                   ELSE mint
        /\ drift' = IF paid THEN drift ELSE drift - (lost - s.Lost)
        /\ UNCHANGED <<now, member, ngroup, groups, fs, book, repairs, erc,
                       added, unsent>>

\* A withdrawal leaves an entry, if only of zero; that of a keeper may share out
\* the pot among the keepers of its group first.
WithdrawFromFs(a, shared) ==
    LET g == gIndex[a] IN
    /\ Open(g)
    /\ shared => roleType[a] = "keeper"
    /\ credit' = [credit EXCEPT
                     ![g] = @ \cup {a}
                              \cup (IF shared THEN groups[g].Keepers ELSE {})]
    /\ UNCHANGED <<now, member, ngroup, groups, fs, book, se, repairs, mint,
                   erc, added, unsent, drift>>

\* Provider q repairs what p has lost.  For a q without a settlement the fs
\* manager stores the new one in place of p's (see FsMgr).
AddRepair(p, q, n) ==
    LET g   == gIndex[q]
        s   == se[g][p]
        pay == RepairPays[q][n + 1]
    IN  /\ repairs[g][q] = n
        /\ repairs' = [repairs EXCEPT ![g][q] = @ + 1]
        /\ roleType[p] = "provider" /\ roleType[q] = "provider"
        /\ gIndex[p] = g
        /\ Open(g)
        /\ s.known
        /\ s.Lost - s.LostPaid >= pay
        /\ se' = IF se[g][q].known THEN [se EXCEPT ![g][p].LostPaid = @ + pay]
                 ELSE [se EXCEPT ![g][p] = Settled0]
        /\ mint' = [mint EXCEPT !.totalPaid = @ - pay]
        /\ drift' = IF se[g][q].known THEN drift
                    ELSE drift + (s.Lost - s.LostPaid - pay)
        /\ UNCHANGED <<now, member, ngroup, groups, fs, credit, book, erc,
                       added, unsent>>

Nonces(u, p) == 0 .. Len(Terms[u][p]) - 1
Outcomes     == {"refused", "unsent", "paid"}

Next ==
    \/ Tick
    \/ CreateGroup
    \/ \E g \in GroupIx : SetReady(g)
    \/ \E a \in Account, role \in {"keeper", "provider"} :
          role \in Asks[a] /\ RegisterRole(a, role)
    \/ \E a \in Account, g \in GroupIx :
          \/ "user" \in Asks[a] /\ RegisterUser(a, g)
          \/ AddKeeperToGroup(a, g)
          \/ AddProviderToGroup(a, g)
    \/ \E a \in Payers : \/ Recharge(a)
                         \/ \E shared \in BOOLEAN : WithdrawFromFs(a, shared)
    \/ \E v \in Gifts : Fund(v)
    \/ \E u, p \in Account : \E n \in Nonces(u, p) :
          AddOrder(u, p, n) \/ SubOrder(u, p, n)
    \/ \E p \in Account, outcome \in Outcomes : \E lost \in Losses[p] :
          ProWithdraw(p, lost, outcome)
    \/ \E p, q \in Account : \E n \in 0 .. Len(RepairPays[q]) - 1 :
          AddRepair(p, q, n)

Spec == Init /\ [][Next]_vars
(***************************************************************************)
(* Properties                                                              *)
(***************************************************************************)
Group == [IsActive : BOOLEAN, IsReady : BOOLEAN, Keepers : SUBSET Account,
          Providers : SUBSET Account, Size : Int, Price : Int]
Added == [user : Account, pro : Account, nonce : Nat, since : Nat,
          late : BOOLEAN]

\* Types; the time issued up to is not ahead of the clock, although each order
\* moves it on by a capped step.
TypeOK ==
    /\ now \in 0 .. MaxTime
    /\ roleType \in [Account -> Role \cup {"none"}]
    /\ isActive \in [Account -> BOOLEAN]
    /\ gIndex \in [Account -> GroupIx \cup {0}]
    /\ ngroup \in 0 .. NGroup
    /\ groups \in [GroupIx -> Group]
    /\ fs \in [GroupIx -> SUBSET Account]
    /\ credit \in [GroupIx -> SUBSET Account]
    /\ book \in [Account -> [Account -> [nonce : Nat, subNonce : Nat]]]
    /\ se \in [GroupIx -> [Account ->
                 [known : BOOLEAN, Lost : Nat, LostPaid : Int]]]
    /\ repairs \in [GroupIx -> [Account -> Nat]]
    /\ mint \in Mint
    /\ mint.lastMint <= now
    /\ erc \in Ledger
    /\ added \subseteq Added
    /\ unsent \in BOOLEAN
    /\ drift \in Int

MembersOf(g, role) ==
    {a \in Account : roleType[a] = role /\ isActive[a] /\ gIndex[a] = g}

\* The roles, the lists of the groups and the fs managers agree: whoever has
\* been added is in the list of its own group and no other, a group is open
\* exactly with its keepers, and a user has its fs in its own, open group.
MembersAgree ==
    /\ \A g \in GroupIx :
          /\ groups[g].Keepers = MembersOf(g, "keeper")
          /\ groups[g].Providers = MembersOf(g, "provider")
          /\ fs[g] = {a \in Account : roleType[a] = "user" /\ gIndex[a] = g}
          /\ fs[g] # {} => Open(g)
          /\ groups[g].IsActive => Cardinality(groups[g].Keepers) >= GroupLevel
    /\ \A a \in Account : gIndex[a] # 0 => gIndex[a] \in Existing

OpenOrders(u, p)  == {n \in Nonces(u, p) : /\ book[u][p].subNonce <= n
                                           /\ n < book[u][p].nonce}
EndedOrders(u, p) == {n \in Nonces(u, p) : n < book[u][p].subNonce}

\* Everyone but the foundation reaches its money and its orders through its own
\* group, except what it left at group 0 before it joined another: an account in
\* no group yet is served as a member of group 0.  The foundation does not: it
\* is credited the tax of each order in the order's group (fs.go:429), and its
\* withdrawals go to group 0 (role.go:718).
LeftAtGroup0Only ==
    /\ \A g \in GroupIx : \A a \in credit[g] :
          a # Foundation => g = gIndex[a] \/ g = 0
    /\ \A u, p \in Account :
          OpenOrders(u, p) # {} => gIndex[p] = gIndex[u] \/ gIndex[u] = 0

\* An order that is over and whose turn it is can be ended, whatever happened
\* to groups and orders since, unless its provider has left group 0.  (SubOrder
\* may be called exactly when MaySub holds.)
EndedInTurn ==
    \A u, p \in Account :
        LET n == book[u][p].subNonce IN
        (/\ n \in OpenOrders(u, p)
         /\ Terms[u][p][n + 1].end <= now
         /\ gIndex[p] = gIndex[u]) => MaySub(u, p, n)

Signed == UNION {{[user |-> x[1], pro |-> x[2], nonce |-> n] :
                      n \in Nonces(x[1], x[2])} : x \in Account \X Account}

TermsOf(x) == Terms[x.user][x.pro][x.nonce + 1]

\* A group's sums are those of its open main-token orders, less the orders in
\* other tokens that have ended: SubOrder takes those off although AddOrder has
\* not added them.  That drift is the code's; nothing else makes the sums wrong.
OpenMain(g) ==
    {x \in Signed : /\ gIndex[x.user] = g
                    /\ TermsOf(x).token = 0
                    /\ x.nonce \in OpenOrders(x.user, x.pro)}

EndedOther(g) ==
    {x \in Signed : /\ gIndex[x.user] = g
                    /\ TermsOf(x).token # 0
                    /\ x.nonce \in EndedOrders(x.user, x.pro)}

GroupSums ==
    \A g \in GroupIx :
        LET price == [x \in Signed |-> TermsOf(x).sprice]
            size  == [x \in Signed |-> TermsOf(x).size]
        IN  /\ groups[g].Price = SumFunctionOnSet(price, OpenMain(g))
                                   - SumFunctionOnSet(price, EndedOther(g))
            /\ groups[g].Size  = SumFunctionOnSet(size, OpenMain(g))
                                   - SumFunctionOnSet(size, EndedOther(g))

\* An order that was over when it was added is never taken off again.
Runs(x) == x.late \/ mint.lastMint < TermsOf(x).end

\* No order has a negative price.
NoNegativePrice == \A x \in added : TermsOf(x).sprice >= 0

\* What is issued per unit of time is the price of the orders that were added
\* and not yet taken off at their end, begun or not, and the stored size is
\* theirs, however orders and day boundaries interleave.  A failed send can only
\* make the size less, and the price unless there are orders of negative price.
PriceOfRunning ==
    LET running == {x \in added : Runs(x)}
        price   == SumFunction([x \in running |-> TermsOf(x).sprice])
        size    == SumFunction([x \in running |-> TermsOf(x).size])
    IN  /\ mint.size <= size
        /\ NoNegativePrice => mint.price <= price
        /\ ~unsent => mint.price = price /\ mint.size = size

\* The cost of order x over the time issued since it was added.  It has the
\* wrong sign when the order's end is caught up with by the call that adds it.
Cost(x) ==
    TermsOf(x).sprice
      * ((IF Runs(x) THEN mint.lastMint ELSE TermsOf(x).end) - x.since)

\* What counts as paid is what each order has cost up to its end or the time
\* issued, and each loss once, less what the repair of losses has paid, but for
\* what half-failed calls make of it, each by its own amount and no more: a
\* failed send counts its span now and again later, a failed claim leaves its
\* new loss out, a repair over another settlement forgets the loss left there.
\* After a failed send it may also be less, when a boundary is crossed again.
PaidAccounted ==
    LET cost == SumFunction([x \in added |-> Cost(x)])
        open == SumFunction([x \in GroupIx \X Account |->
                                se[x[1]][x[2]].Lost - se[x[1]][x[2]].LostPaid])
    IN  /\ NoNegativePrice => mint.totalPaid <= cost + open + drift
        /\ ~unsent => mint.totalPaid = cost + open + drift

\* The pool never gets more than the highest ratio allows for what the orders
\* have cost, so at that ratio no span is paid out twice, also when sends fail
\* and calls are made again.  (An order of negative price whose end is crossed
\* again after a failed send raises the price issued each time.)
NoSpanPaidTwice ==
    LET ratio == Max({Levels[i].Ratio : i \in DOMAIN Levels})
        cost  == [x \in added |-> IF Cost(x) > 0 THEN Cost(x) ELSE 0]
    IN  NoNegativePrice \/ ~unsent
           => 100 * erc.money[Pool] <= ratio * SumFunction(cost)

\* A ratio is never granted too early: the orders so far add up to the time and
\* space its level asks for.
LevelEarned ==
    LET level == Levels[mint.mintLevel + 1]
    IN  mint.mintLevel > 0 =>
            SumFunction([x \in added |-> SpaceTime(TermsOf(x))])
                >= level.Size * level.Duration

\* README.md:98: as much is issued as the market needs to pay, so what counts as
\* paid never passes what all orders together pay.
PaidWithinPay == mint.totalPaid <= mint.totalPay
=============================================================================

------------------------------- MODULE FsMgr -------------------------------
(***************************************************************************)
(* The storage payments of one group: server/contract/fs.go together with  *)
(* the calls of the role manager (role.go) that reach it.                  *)
(*                                                                         *)
(* A user recharges, an order moves its price from the user's balance into *)
(* the settlement of the provider, the provider claims what has accrued,   *)
(* and the group's keepers share a pot that fills as orders end and        *)
(* providers are paid.  Repairs are orders of a pseudo-user, paid from     *)
(* what another provider has lost.                                         *)
(*                                                                         *)
(* The node runs one call at a time: one action is one call, with every    *)
(* change a failing call has already made; calls that fail before they     *)
(* change anything are stuttering steps.  One ERC20 token is modelled (the *)
(* books of the tokens are disjoint) and a role index is identified with   *)
(* its address.  The price of an order is a big.Int whose sign the code    *)
(* does not check.  The code does not compare an ending order with the one *)
(* added under its nonce, nor check signatures: the terms of order n are   *)
(* taken as signed once, the claims of the providers are arbitrary.        *)
(* Nobody sends tokens to this contract but through Recharge.              *)
(***************************************************************************)
EXTENDS ErcOps, FiniteSets, Functions, Sequences

CONSTANTS
    User, Provider, Keeper,  \* registered indices by role
    Foundation,              \* index 0, which the tax goes to
    RoleMgr,                 \* address of the role manager, owner of fsMgr
    FsAddr,                  \* address of this contract
    Repair,                  \* stands for repairFs among the users' fs
    Level,                   \* keepers the group needs to be active
    Period,                  \* time between distributions (1 in the code)
    Word,                    \* modulus of uint64 (2^64 in the code)
    InitMoney,               \* ERC20 balances at the start
    Terms,                   \* Terms[f][p][n + 1]: signed terms of order n
    Money,                   \* amounts of approvals, recharges, withdrawals
    Claims,                  \* total pay and total lost a provider claims
    Payers,                  \* bound: indices that recharge
    MaxTime,                 \* bound: clock
    MaxAllowance             \* bound: allowance of one owner

Index == User \cup Provider \cup Keeper \cup {Foundation}
Fs    == User \cup {Repair}
Order == [start : Nat, end : Nat, size : Nat \ {0}, sprice : Int]

ASSUME FsAssumption ==
    /\ Index \cup {RoleMgr, FsAddr} \subseteq Address
    /\ IsFiniteSet(Index)
    /\ User \cap Provider = {}
    /\ User \cap Keeper = {}
    /\ Provider \cap Keeper = {}
    /\ {RoleMgr, FsAddr} \cap Index = {}
    /\ RoleMgr # FsAddr
    /\ Repair \notin User
    /\ Level \in Nat /\ Period \in Nat /\ Word \in Nat \ {0}
    /\ InitMoney \in [Address -> Nat]
    /\ InitMoney[FsAddr] = 0
    /\ Terms \in [Fs -> [Provider -> Seq(Order)]]
    /\ \A f \in Fs, p \in Provider : \A n \in DOMAIN Terms[f][p] :
          /\ Terms[f][p][n].start < Terms[f][p][n].end
          /\ Terms[f][p][n].end < Word
    /\ Money \subseteq Nat /\ Claims \subseteq Nat \X Nat
    /\ Payers \subseteq Index
    /\ MaxTime \in 0 .. Word - 1 /\ MaxAllowance \in Nat

VARIABLES
    now,         \* GetTime
    erc,         \* ledger of the token
    fs,          \* users with an fs
    ao,          \* ao[f][p]: aggregated orders of f at provider p
    se,          \* se[p]: settlement of provider p
    proInfo,     \* providers with a settlement
    balance,     \* balance[i]: available money of index i
    entries,     \* keys of balance; a missing entry reads as zero
    keepers,     \* keepers of the group
    count,       \* count[k]: calls keeper k has triggered, for its share
    totalCount,
    tAcc,        \* the keepers' pot
    lastTime,    \* last distribution of the pot
    unbacked,    \* history: promises repairs made without anyone's money
    clobbered,   \* history: a repair has overwritten another settlement
    given        \* history: given[i], what the admin recharged for index i

vars == <<now, erc, fs, ao, se, proInfo, balance, entries, keepers, count,
          totalCount, tAcc, lastTime, unbacked, clobbered, given>>

NoOrders == [nonce |-> 0, subNonce |-> 0, size |-> 0, price |-> 0]

newSettlement ==
    [Time |-> 0, Size |-> 0, Price |-> 0, MaxPay |-> 0, HasPaid |-> 0,
     CanPay |-> 0, Lost |-> 0, LostPaid |-> 0, ManagePay |-> 0,
     EndPaid |-> 0, LinearPaid |-> 0]

Init ==
    /\ now = 0
    /\ erc = LedgerOf(InitMoney)
    /\ fs = {}
    /\ ao = [f \in Fs |-> [p \in Provider |-> NoOrders]]
    /\ se = [p \in Provider |-> newSettlement]
    /\ proInfo = {}
    /\ balance = [i \in Index |-> 0]
    /\ entries = {}
    /\ keepers = {}
    /\ count = [k \in Keeper |-> 0]
    /\ totalCount = 0
    /\ tAcc = 0
    /\ lastTime = 0
    /\ unbacked = 0
    /\ clobbered = FALSE
    /\ given = [i \in Index |-> 0]

(***************************************************************************)
(* Settlement                                                              *)
(***************************************************************************)
\* Faulty variant: signed integers instead of uint64.
SpanSigned(from, to) == to - from

\* The difference of two uint64.
Span(from, to) == (to - from) % Word

Later(t, s)    == IF t < s THEN s ELSE t

Pay(o)    == o.sprice * (o.end - o.start)
Manage(o) == 4 * (Pay(o) \div 100)
Tax(o)    == Pay(o) \div 100

\* Faulty variant: the tax is credited to the foundation, not debited.
CostUntaxed(o) == Pay(o) + Manage(o)

\* What the user pays for an order.
Cost(o) == Pay(o) + Manage(o) + Tax(o)

\* Accrue up to the start of the new order; an order that starts before the
\* settlement's time accrues that span once more, at the price of the others.
Add(s, o) ==
    LET span == IF s.Time < o.start THEN o.start - s.Time ELSE s.Time - o.start
    IN  [s EXCEPT !.Time = Later(@, o.start),
                  !.CanPay = @ + span * s.Price,
                  !.Price = @ + o.sprice,
                  !.Size = (@ + @) % Word,
                  !.MaxPay = @ + Pay(o),
                  !.ManagePay = @ + Manage(o)]

\* Faulty variant: the ended order goes on accruing.
SubKeepsPrice(s, o) ==
    [s EXCEPT !.Time = Later(@, o.end),
              !.CanPay = @ + Span(s.Time, o.end) * s.Price,
              !.Size = Span(o.size, @)]

Sub(s, o) ==
    [s EXCEPT !.Time = Later(@, o.end),
              !.CanPay = @ + Span(s.Time, o.end) * s.Price,
              !.Price = @ - o.sprice,
              !.Size = Span(o.size, @)]

\* SubOrder and SubRepair: the order ends and 1% of it goes to the pot.
EndPay(o)  == Pay(o) \div 100
End(s, o)  == [Sub(s, o) EXCEPT !.EndPaid = @ + EndPay(o)]

CanCalc(s, pay, lost) == s.HasPaid <= pay /\ s.Lost <= lost

\* What calc has changed when it compares CanPay with the claim.
Accrued(s, lost) ==
    [s EXCEPT !.Lost = lost,
              !.CanPay = @ + (IF s.Time < now THEN now - s.Time ELSE 0) * s.Price,
              !.Time = Later(@, now)]

\* Faulty variant: 4% of what is paid now, rounded each time.
LinearOfClaim(s, pay) == 4 * ((pay - s.HasPaid) \div 100)

\* 4% of all that was paid goes to the pot, less what already went there.
Linear(s, pay) == LET due == 4 * (pay \div 100)
                  IN  IF due > s.LinearPaid THEN due - s.LinearPaid ELSE 0

Paid(s, pay) == [s EXCEPT !.HasPaid = pay,
                          !.LinearPaid = @ + Linear(s, pay)]

(***************************************************************************)
(* Calls                                                                   *)
(***************************************************************************)
\* getGroupInfo: every call on the group's fs needs an active group, which it
\* becomes when AddKeeperToGroup has added enough keepers.
Active == keepers # {} /\ Cardinality(keepers) >= Level

\* Faulty variant: totalCount also counts calls of others than keepers.
CountedAll(k) ==
    /\ count' = IF k \in keepers THEN [count EXCEPT ![k] = @ + 1] ELSE count
    /\ totalCount' = totalCount + 1

\* A keeper's call raises its share of the pot.
Counted(k) ==
    /\ count' = IF k \in keepers THEN [count EXCEPT ![k] = @ + 1] ELSE count
    /\ totalCount' = IF k \in keepers THEN totalCount + 1 ELSE totalCount

Tick ==
    /\ now < MaxTime
    /\ now' = now + 1
    /\ UNCHANGED <<erc, fs, ao, se, proInfo, balance, entries, keepers, count,
                   totalCount, tAcc, lastTime, unbacked, clobbered, given>>

\* A holder approves this contract at the ERC20 token, to recharge later.
ApproveFs(a, v) ==
    /\ v > 0
    /\ erc.allowed[<<a, FsAddr>>] + v <= MaxAllowance
    /\ erc' = ErcApprove(erc, a, FsAddr, v)
    /\ UNCHANGED <<now, fs, ao, se, proInfo, balance, entries, keepers, count,
                   totalCount, tAcc, lastTime, unbacked, clobbered, given>>

\* AddKeeperToGroup takes a registered keeper that is in no group yet.
AddKeeper(k) ==
    /\ k \notin keepers
    /\ keepers' = keepers \cup {k}
    /\ count' = [count EXCEPT ![k] = 1]
    /\ totalCount' = totalCount + 1
    /\ UNCHANGED <<now, erc, fs, ao, se, proInfo, balance, entries, tAcc,
                   lastTime, unbacked, clobbered, given>>

\* RegisterUser.
CreateFs(u) ==
    /\ Active
    /\ u \notin fs
    /\ fs' = fs \cup {u}
    /\ UNCHANGED <<now, erc, ao, se, proInfo, balance, entries, keepers,
                   count, totalCount, tAcc, lastTime, unbacked, clobbered,
                   given>>

Recharge(i, v) ==
    /\ Active
    /\ ErcCanTransferFrom(erc, FsAddr, i, v)
    /\ erc' = ErcTransferFrom(erc, FsAddr, i, FsAddr, v)
    /\ balance' = [balance EXCEPT ![i] = @ + v]
    /\ entries' = entries \cup {i}
    /\ UNCHANGED <<now, fs, ao, se, proInfo, keepers, count, totalCount, tAcc,
                   lastTime, unbacked, clobbered, given>>

\* The admin's air drop: the role manager pays, after approving
\* fm.GetOwnerAddress(), which is the role manager itself.
RechargeByAdmin(i, v) ==
    LET led == ErcApprove(erc, RoleMgr, RoleMgr, v) IN
    /\ Active
    /\ erc.allowed[<<RoleMgr, RoleMgr>>] + v <= MaxAllowance
    /\ erc' = ErcTransferFrom(led, FsAddr, RoleMgr, FsAddr, v)
    /\ IF ErcCanTransferFrom(led, FsAddr, RoleMgr, v)
       THEN /\ balance' = [balance EXCEPT ![i] = @ + v]
            /\ entries' = entries \cup {i}
            /\ given' = [given EXCEPT ![i] = @ + v]
       ELSE UNCHANGED <<balance, entries, given>>
    /\ UNCHANGED <<now, fs, ao, se, proInfo, keepers, count, totalCount, tAcc,
                   lastTime, unbacked, clobbered>>

\* storeInfo of the aggregated orders, with the next nonce.
Opened(b, o) == [b EXCEPT !.nonce = @ + 1, !.size = @ + o.size,
                          !.price = @ + o.sprice]
Closed(b, o) == [b EXCEPT !.size = @ - o.size, !.price = @ - o.sprice]
Ended(b, o)  == [Closed(b, o) EXCEPT !.subNonce = @ + 1]

\* Faulty variant: the nonce is not checked.
CanAddAny(f, p, n) == n + 1 \in DOMAIN Terms[f][p]

\* The next order of f at p that a call may add or end.
CanAdd(f, p, n) == /\ n + 1 \in DOMAIN Terms[f][p]
                   /\ ao[f][p].nonce = n

\* Faulty variant: whether the order has been added is not looked at.
CanSubUnopened(f, p, n) ==
    /\ n + 1 \in DOMAIN Terms[f][p]
    /\ Terms[f][p][n + 1].end <= now
    /\ ao[f][p].subNonce = n

CanSub(f, p, n) ==
    /\ n + 1 \in DOMAIN Terms[f][p]
    /\ Terms[f][p][n + 1].end <= now
    /\ ao[f][p].subNonce = n
    /\ ao[f][p].size >= Terms[f][p][n + 1].size

AddOrder(k, u, p, n) ==
    LET o == Terms[u][p][n + 1] IN
    /\ Active
    /\ u \in fs
    /\ CanAdd(u, p, n)
    /\ u \in entries
    /\ balance[u] >= Cost(o)
    /\ ao' = [ao EXCEPT ![u][p] = Opened(@, o)]
    /\ se' = [se EXCEPT ![p] = Add(@, o)]
    /\ proInfo' = proInfo \cup {p}
    /\ balance' = [[balance EXCEPT ![Foundation] = @ + Tax(o)]
                       EXCEPT ![u] = @ - Cost(o)]
    /\ entries' = entries \cup {Foundation}
    /\ Counted(k)
    /\ UNCHANGED <<now, erc, fs, keepers, tAcc, lastTime, unbacked, clobbered,
                   given>>

SubOrder(k, u, p, n) ==
    LET o == Terms[u][p][n + 1] IN
    /\ Active
    /\ u \in fs
    /\ CanSub(u, p, n)
    /\ ao' = [ao EXCEPT ![u][p] = Ended(@, o)]
    /\ se' = [se EXCEPT ![p] = End(@, o)]
    /\ tAcc' = tAcc + EndPay(o)
    /\ Counted(k)
    /\ UNCHANGED <<now, erc, fs, proInfo, balance, entries, keepers, lastTime,
                   unbacked, clobbered, given>>

\* Faulty variant: what a loss has paid for is not remembered.
RepairFree(s, o) == s

\* The loss of a provider pays for a repair.
RepairPaid(s, o) == [s EXCEPT !.LostPaid = @ + Pay(o)]

\* The new provider q takes over data that p lost.  Without a settlement of
\* its own, q's new settlement is stored under p's key.
AddRepair(k, p, q, n) ==
    LET o     == Terms[Repair][q][n + 1]
        known == q \in proInfo
        owed  == LET s == se[p] IN s.MaxPay - s.LostPaid + s.ManagePay
                            - s.HasPaid - s.LinearPaid - s.EndPaid
    IN  /\ Active
        /\ p \in proInfo
        /\ se[p].Lost - se[p].LostPaid >= Pay(o)
        /\ CanAdd(Repair, q, n)
        /\ ao' = [ao EXCEPT ![Repair][q] = Opened(@, o)]
        /\ se' = IF known
                 THEN [[se EXCEPT ![q] = Add(@, o)]
                          EXCEPT ![p] = RepairPaid(@, o)]
                 ELSE [se EXCEPT ![p] = Add(newSettlement, o)]
        /\ Counted(k)
        /\ unbacked' = unbacked + Manage(o)
                         + (IF known THEN 0 ELSE Pay(o) - owed)
        /\ clobbered' = (clobbered \/ ~known)
        /\ UNCHANGED <<now, erc, fs, proInfo, balance, entries, keepers, tAcc,
                       lastTime, given>>

\* Without a settlement of the new provider the call fails after it has taken
\* the order out of the books.
SubRepair(k, q, n) ==
    LET o == Terms[Repair][q][n + 1] IN
    /\ Active
    /\ CanSub(Repair, q, n)
    /\ IF q \in proInfo
       THEN /\ ao' = [ao EXCEPT ![Repair][q] = Ended(@, o)]
            /\ se' = [se EXCEPT ![q] = End(@, o)]
            /\ tAcc' = tAcc + EndPay(o)
            /\ Counted(k)
       ELSE /\ ao' = [ao EXCEPT ![Repair][q] = Closed(@, o)]
            /\ UNCHANGED <<se, tAcc, count, totalCount>>
    /\ UNCHANGED <<now, erc, fs, proInfo, balance, entries, keepers, lastTime,
                   unbacked, clobbered, given>>

\* Faulty variant: the balance is cleared although the transfer failed.
UndeliveredDropped(money, sent) == 0

\* What the transfer could not deliver stays in the provider's balance.
Undelivered(money, sent) == IF sent THEN 0 ELSE money

\* A provider claims pay in all, having lost lost in all.  A claim beyond what
\* has accrued fails after the loss and the accrual have been recorded.
ProWithdraw(p, pay, lost) ==
    LET s     == Accrued(se[p], lost)
        money == balance[p] + pay - s.HasPaid
        sent  == ErcCanTransfer(erc, FsAddr, money)
    IN  /\ Active
        /\ p \in proInfo
        /\ CanCalc(se[p], pay, lost)
        /\ IF s.CanPay < pay
           THEN /\ se' = [se EXCEPT ![p] = s]
                /\ UNCHANGED <<erc, balance, entries, tAcc>>
           ELSE /\ se' = [se EXCEPT ![p] = Paid(s, pay)]
                /\ tAcc' = tAcc + Linear(s, pay)
                /\ balance' = [balance EXCEPT ![p] = Undelivered(money, sent)]
                /\ entries' = entries \cup {p}
                /\ erc' = ErcTransfer(erc, FsAddr, p, money)
        /\ UNCHANGED <<now, fs, ao, proInfo, keepers, count, totalCount,
                       lastTime, unbacked, clobbered, given>>

Share(k) == (tAcc \div totalCount) * count[k]

Shares   == SumFunction([k \in keepers |-> Share(k)])

\* Faulty variant: the pot is shared out a period late.
DueLate(i) == i \in Keeper /\ now - lastTime > 2 * Period

\* A keeper's withdrawal first shares out the pot, if that is due.
Due(i) == i \in Keeper /\ now - lastTime > Period

\* The balances that a withdrawal by i pays from.
Shared(i) == [j \in Index |-> IF Due(i) /\ j \in keepers
                              THEN balance[j] + Share(j) ELSE balance[j]]

Withdraw(i, amount) ==
    LET due   == Due(i)
        bal   == Shared(i)
        money == IF amount = 0 \/ amount > bal[i] THEN bal[i] ELSE amount
        sent  == ErcCanTransfer(erc, FsAddr, money)
    IN  /\ Active
        /\ due => totalCount > 0
        /\ tAcc' = IF due THEN tAcc - Shares ELSE tAcc
        /\ lastTime' = IF due THEN now ELSE lastTime
        /\ erc' = ErcTransfer(erc, FsAddr, i, money)
        /\ balance' = IF sent THEN [bal EXCEPT ![i] = @ - money] ELSE bal
        /\ entries' = entries \cup {i} \cup (IF due THEN keepers ELSE {})
        /\ UNCHANGED <<now, fs, ao, se, proInfo, keepers, count, totalCount,
                       unbacked, clobbered, given>>

\* GetBalance: what i may withdraw, and what is locked for it.
Pending(i) == IF i \in keepers /\ totalCount > 0 THEN Share(i) ELSE 0

Available(i) == balance[i] + (IF now - lastTime >= Period THEN Pending(i) ELSE 0)

\* The accrual up to now, as a difference of uint64, within the quota.
LockedPay(p) ==
    LET s      == se[p]
        canPay == s.CanPay + Span(s.Time, now) * s.Price
        limit  == s.MaxPay - s.Lost
    IN  (IF canPay > limit THEN limit ELSE canPay) - s.HasPaid

Locked(i) == (IF i \in proInfo THEN LockedPay(i) ELSE 0)
               + (IF now - lastTime < Period THEN Pending(i) ELSE 0)

Callers  == Keeper \cup {Foundation}   \* unregistered callers count as index 0
Nonces(f, p) == 0 .. Len(Terms[f][p]) - 1

Next ==
    \/ Tick
    \/ \E a \in Payers, v \in Money :
          ApproveFs(a, v) \/ Recharge(a, v) \/ RechargeByAdmin(a, v)
    \/ \E k \in Keeper : AddKeeper(k)
    \/ \E u \in User : CreateFs(u)
    \/ \E k \in Callers, u \in User, p \in Provider : \E n \in Nonces(u, p) :
          AddOrder(k, u, p, n) \/ SubOrder(k, u, p, n)
    \/ \E k \in Callers, q \in Provider : \E n \in Nonces(Repair, q) :
          \/ SubRepair(k, q, n)
          \/ \E p \in Provider : AddRepair(k, p, q, n)
    \/ \E p \in Provider, c \in Claims : ProWithdraw(p, c[1], c[2])
    \/ \E i \in Index, v \in Money : Withdraw(i, v)

Spec == Init /\ [][Next]_vars
(***************************************************************************)
(* Properties                                                              *)
(***************************************************************************)
Settlement ==
    [Time : Nat, Size : 0 .. Word - 1, Price : Int, MaxPay : Int,
     HasPaid : Nat, CanPay : Int, Lost : Nat, LostPaid : Int,
     ManagePay : Int, EndPaid : Int, LinearPaid : Nat]

TypeOK ==
    /\ now \in 0 .. MaxTime
    /\ erc \in Ledger
    /\ fs \subseteq User
    /\ ao \in [Fs -> [Provider ->
                [nonce : Nat, subNonce : Nat, size : Int, price : Int]]]
    /\ se \in [Provider -> Settlement]
    /\ proInfo \subseteq Provider
    /\ balance \in [Index -> Int]
    /\ entries \subseteq Index
    /\ keepers \subseteq Keeper
    /\ count \in [Keeper -> Nat]
    /\ totalCount \in Nat
    /\ tAcc \in Int
    /\ lastTime \in 0 .. now
    /\ unbacked \in Int
    /\ clobbered \in BOOLEAN
    /\ given \in [Index -> Nat]

\* What the contract still owes out of a settlement.
Escrow(p) == LET s == se[p] IN s.MaxPay - s.LostPaid + s.ManagePay
                                 - s.HasPaid - s.LinearPaid - s.EndPaid

\* The contract's tokens are exactly the available balances, the keepers' pot
\* and what is still owed out of the settlements, less what repairs promised
\* without money: no order, claim, sharing or failed transfer loses a token or
\* counts one twice, whatever the sign of a price.
BooksBalance ==
    erc.money[FsAddr] = SumFunction(balance) + tAcc
                          + SumFunction([p \in Provider |-> Escrow(p)])
                          - unbacked

\* No order or repair that was added has a negative price.  The code does not
\* see to that (role.go:736, fs.go:346): such a price is a gift to the user, and
\* the foundation and the keepers pay for it.
NoNegativePrice ==
    \A f \in Fs, p \in Provider : \A n \in Nonces(f, p) :
        n < ao[f][p].nonce => Terms[f][p][n + 1].sprice >= 0

\* The shares of the keepers never exceed the pot: the counts add up to
\* totalCount whoever calls.  Users and providers never owe; nor does anyone
\* else, and the pot is not negative, until an order of negative price comes.
SharesWithinPot ==
    /\ totalCount = SumFunctionOnSet(count, keepers)
    /\ \A i \in (User \cup Provider) \ {Foundation} : balance[i] >= 0
    /\ NoNegativePrice => /\ tAcc >= 0
                          /\ \A i \in Index : balance[i] >= 0

\* A provider gets each claimed amount once, either as tokens or as balance,
\* also when the transfer of an earlier claim failed, and nothing besides but
\* what the admin recharges for it.
PaidOnce ==
    \A p \in Provider \ {Foundation} :
        ~clobbered => erc.money[p] + balance[p]
                        = InitMoney[p] + given[p] + se[p].HasPaid

\* The keepers' linear share is 4% of what was paid in all, however it was split
\* into claims; and no provider is paid beyond what has accrued, until a repair
\* overwrites a settlement (clobbered) or an order of negative price is added,
\* which lets an accrual shrink.
PaidAsAccrued ==
    \A p \in Provider :
        /\ se[p].LinearPaid = 4 * (se[p].HasPaid \div 100)
        /\ ~clobbered /\ NoNegativePrice => se[p].HasPaid <= se[p].CanPay

OpenOrders(f, p) == {n \in Nonces(f, p) : /\ ao[f][p].subNonce <= n
                                           /\ n < ao[f][p].nonce}

OpenPrice(f, p) ==
    SumFunctionOnSet([n \in Nonces(f, p) |-> Terms[f][p][n + 1].sprice],
                     OpenOrders(f, p))

\* The price a settlement accrues at is that of its open orders: none is added
\* or ended twice or out of order.
PriceOfOpenOrders ==
    ~clobbered => \A p \in Provider :
        se[p].Price = SumFunction([f \in Fs |-> OpenPrice(f, p)])

\* Each order of a payer at a provider is added once and ended once, in turn,
\* not before its end nor before it was added, by whichever keeper calls, also
\* when an ending fails half-way: the size of the open orders stands in for the
\* count of added orders, which SubOrder does not look at.
Book == INSTANCE OrderBook
          WITH Payer <- Fs,
               added <- [f \in Fs |-> [p \in Provider |-> ao[f][p].nonce]],
               ended <- [f \in Fs |-> [p \in Provider |-> ao[f][p].subNonce]]
OrdersInTurn == Book!Spec

\* What a withdrawal of everything pays to i.
Payable(i) ==
    LET money == Shared(i)[i]
    IN  IF (Due(i) => totalCount > 0) /\ ErcCanTransfer(erc, FsAddr, money)
        THEN money ELSE 0

\* A claim of pay by p, with no new loss, is granted and reaches it.
IsGranted(p, pay) ==
    /\ CanCalc(se[p], pay, se[p].Lost)
    /\ pay <= Accrued(se[p], se[p].Lost).CanPay
    /\ ErcCanTransfer(erc, FsAddr, balance[p] + pay - se[p].HasPaid)

\* A settlement has paid no more than its quota, and no more to the keepers than
\* its fee; ManageCovers and WithinQuota are about settlements that have.
WithinMeans(s) == /\ s.HasPaid + s.LostPaid <= s.MaxPay
                  /\ s.EndPaid + s.LinearPaid <= s.ManagePay

\* What GetBalance shows to all together, available and locked, is there in
\* tokens, also where the accrual shown wraps around before the start of an
\* order.  So what is available is paid to whoever withdraws everything, except
\* at exactly a period after the last sharing: GetBalance counts the share then
\* (fs.go:587), Withdraw does not share yet (fs.go:658) and pays the balance
\* alone.  And a claim for what is locked is granted, except before the start of
\* an order.  This holds as long as every settlement has stayed within its means,
\* repairs have promised no more than was there, and no order has a negative
\* price.
ShownIsPaid ==
    (/\ \A p \in Provider : WithinMeans(se[p])
     /\ unbacked <= 0
     /\ NoNegativePrice) =>
        /\ SumFunction([i \in Index |->
               Available(i) + (IF Locked(i) > 0 THEN Locked(i) ELSE 0)])
             <= erc.money[FsAddr]
        /\ \A i \in Index :
              Payable(i) = IF now - lastTime = Period THEN balance[i]
                           ELSE Available(i)
        /\ \A p \in proInfo :
              se[p].Time <= now /\ LockedPay(p) > 0
                  => IsGranted(p, se[p].HasPaid + LockedPay(p))

\* fs.go:53: "pay for group keepers >= endPaid+linearPaid".
ManageCovers ==
    \A p \in Provider : se[p].ManagePay >= se[p].EndPaid + se[p].LinearPaid

\* fs.go:47: MaxPay is the total quota of the provider, so it is not paid more.
WithinQuota == \A p \in Provider : se[p].HasPaid <= se[p].MaxPay
=============================================================================

---------------------------- MODULE PledgePool ----------------------------
(***************************************************************************)
(* The pledge pool of server/contract/pledge.go together with the calls of *)
(* the role manager (server/contract/role.go) that reach it: registration, *)
(* the deposit check of keepers and providers, pledging and withdrawing.   *)
(*                                                                         *)
(* A pledger's stake is its entry for token 0, which also collects token-0 *)
(* rewards, so rewards compound.  Anything that arrives at the pool's      *)
(* address without a pledge is a reward, shared by the accumulator         *)
(* tInfo[t].rewardAccum at the next settlement of token t.                 *)
(*                                                                         *)
(* The node runs one call at a time, so one action is one call, failing    *)
(* calls that have already changed state included.  Calls that fail before *)
(* they change anything are stuttering steps.                              *)
(*                                                                         *)
(* A role index is identified with the address registered under it, and a  *)
(* token index with the ERC20 contract registered under it: RegisterToken  *)
(* refuses an address twice, and so does Register.                         *)
(***************************************************************************)
EXTENDS ErcOps, FiniteSets, Functions

CONSTANTS
    User,            \* external accounts: they sign calls and may register
    Admin,           \* creator of the role manager
    Foundation,      \* registered at index 0 when the manager is created
    RoleMgr,         \* address of the role manager, owner of the pool
    Pool,            \* address of the pledge pool
    NToken,          \* ERC20 contracts that can be registered
    PledgeKeeper,    \* deposit a keeper must keep
    PledgePro,       \* deposit a provider must keep
    InitMoney,       \* InitMoney[t][a]: balances when the manager is created
    Amounts,         \* amounts the calls are made with
    Recipients,      \* where plain transfers of the ERC20 tokens go
    MaxReward,       \* bound: transfers into the pool
    MaxAllowance     \* bound: allowance of one owner to one spender

TokenIx == 0 .. NToken - 1

ASSUME AddressAssumption ==
    /\ User \subseteq Address
    /\ IsFiniteSet(User)
    /\ Foundation \in User
    /\ {Admin, RoleMgr, Pool} \subseteq Address
    /\ RoleMgr # Pool
    /\ Admin \notin {RoleMgr, Pool}
    /\ User \cap {RoleMgr, Pool} = {}

ASSUME AmountAssumption ==
    /\ NToken \in Nat \ {0}
    /\ PledgeKeeper \in Nat
    /\ PledgePro \in Nat
    /\ Amounts \subseteq Nat
    /\ Recipients \subseteq Address
    /\ InitMoney \in [TokenIx -> [Address -> Nat]]
    /\ MaxReward \in Nat
    /\ MaxAllowance \in Nat

VARIABLES
    erc,          \* erc[t]: the ledger of token t
    roleType,     \* roleType[a]: "unregistered", "none", "keeper", "provider"
    token,        \* number of registered tokens; index 0 is the main one
    totalPledge,  \* what the pool believes the stakes add up to
    tInfo,        \* tInfo[t]: accumulator and last seen balance of token t
    amount,       \* amount[i][t]: accumulator at and reward of last settlement
    entries,      \* keys of the amount map
    rewards,      \* number of transfers into the pool so far
    torn          \* history: some call failed after it had changed a stake

vars == <<erc, roleType, token, totalPledge, tInfo, amount, entries,
          rewards, torn>>

RewardInfo == [rewardAccum : Int, lastReward : Int]
NoReward   == [rewardAccum |-> 0, lastReward |-> 0]

\* Faulty variant: what is paid out is not subtracted.
AddRewardOnly(info, v) == [rewardAccum |-> info.rewardAccum,
                           lastReward  |-> info.lastReward
                                             + (IF v > 0 THEN v ELSE 0)]

\* big.Int.Add on the lastReward of an entry.
AddReward(info, v) == [rewardAccum |-> info.rewardAccum,
                       lastReward  |-> info.lastReward + v]

\* The pool starts counting from whatever it already holds of a token.
Started(t) == [rewardAccum |-> 0, lastReward |-> BalanceOf(erc[t], Pool)]

Registered == {a \in User : roleType[a] # "unregistered"}
Tokens     == 0 .. token - 1

Init ==
    /\ erc = [t \in TokenIx |-> LedgerOf(InitMoney[t])]
    /\ roleType = [a \in User |->
                     IF a = Foundation THEN "none" ELSE "unregistered"]
    /\ token = 1
    /\ totalPledge = 0
    /\ tInfo = [t \in TokenIx |->
                  IF t = 0 THEN Started(0) ELSE NoReward]
    /\ amount = [i \in User |-> [t \in TokenIx |-> NoReward]]
    /\ entries = {}
    /\ rewards = 0
    /\ torn = FALSE

(***************************************************************************)
(* Settlement.  What has arrived since the last settlement is divided by   *)
(* the stakes the pool knows of; the remainder of the division is not      *)
(* handed out later, because the last seen balance moves past it.          *)
(***************************************************************************)
PoolBalance(t) == BalanceOf(erc[t], Pool)
Arrived(t)     == PoolBalance(t) - tInfo[t].lastReward
Stake(i)       == amount[i][0].lastReward

SettledAccum(t) ==
    tInfo[t].rewardAccum +
        (IF Arrived(t) > 0 /\ totalPledge > 0
         THEN Arrived(t) \div totalPledge ELSE 0)

\* Faulty variant: the balance is taken as seen, its share is not recorded.
SettledTokenSeenOnly(t) == [rewardAccum |-> tInfo[t].rewardAccum,
                            lastReward  |-> PoolBalance(t)]

SettledToken(t) == [rewardAccum |-> SettledAccum(t),
                    lastReward  |-> PoolBalance(t)]

\* Faulty variant: the entry stays at its old accumulator.
SettledRewardAgain(rew, i, t) ==
    [rewardAccum |-> rew.rewardAccum,
     lastReward  |-> rew.lastReward
                       + (SettledAccum(t) - rew.rewardAccum) * Stake(i)]

\* Entry rew of pledger i for token t after settlement.
SettledReward(rew, i, t) ==
    [rewardAccum |-> SettledAccum(t),
     lastReward  |-> rew.lastReward
                       + (SettledAccum(t) - rew.rewardAccum) * Stake(i)]

\* GetBalance: what pledger i would have of token t if it were settled now.
\* A missing entry is stored as NoReward, which is how GetBalance reads it.
Balance(i, t) == SettledReward(amount[i][t], i, t).lastReward

(***************************************************************************)
(* Registration                                                            *)
(***************************************************************************)
Register(a) ==
    /\ roleType[a] = "unregistered"
    /\ roleType' = [roleType EXCEPT ![a] = "none"]
    /\ UNCHANGED <<erc, token, totalPledge, tInfo, amount, entries, rewards,
                   torn>>

\* AddToken of the pool is part of it.
RegisterToken ==
    /\ token < NToken
    /\ token' = token + 1
    /\ tInfo' = [tInfo EXCEPT ![token] = Started(token)]
    /\ UNCHANGED <<erc, roleType, totalPledge, amount, entries, rewards, torn>>

\* RegisterKeeper and RegisterProvider differ in the role and the deposit.
RegisterRole(i, role, deposit) ==
    /\ roleType[i] = "none"
    /\ <<i, 0>> \in entries
    /\ Balance(i, 0) >= deposit
    /\ roleType' = [roleType EXCEPT ![i] = role]
    /\ UNCHANGED <<erc, token, totalPledge, tInfo, amount, entries, rewards,
                   torn>>

RegisterKeeper(i)   == RegisterRole(i, "keeper", PledgeKeeper)
RegisterProvider(i) == RegisterRole(i, "provider", PledgePro)

(***************************************************************************)
(* Pledge.  Every token is settled for the pledger first; the transfer     *)
(* comes after that, and if it fails the settlement stays, while           *)
(* totalPledge is left as it was.                                          *)
(***************************************************************************)
\* A new entry starts at the accumulator from before the settlement.
PledgeEntry(i, t) ==
    IF <<i, t>> \in entries THEN amount[i][t]
    ELSE [rewardAccum |-> tInfo[t].rewardAccum, lastReward |-> 0]

\* Pledge of the pool for index i, paid by from; led is token 0's ledger.
PoolPledge(i, from, v, led) ==
    LET paid  == ErcCanTransferFrom(led, Pool, from, v)
        added == IF paid THEN v ELSE 0
        stake == SettledReward(PledgeEntry(i, 0), i, 0).lastReward
    IN  /\ erc' = [erc EXCEPT ![0] =
                      ErcTransferFrom(led, Pool, from, Pool, v)]
        /\ tInfo' = [t \in TokenIx |->
              IF t \notin Tokens THEN tInfo[t]
              ELSE AddReward(SettledToken(t), IF t = 0 THEN added ELSE 0)]
        /\ amount' = [amount EXCEPT ![i] = [t \in TokenIx |->
              IF t \notin Tokens THEN amount[i][t]
              ELSE AddReward(SettledReward(PledgeEntry(i, t), i, t),
                             IF t = 0 THEN added ELSE 0)]]
        /\ entries' = entries \cup ({i} \X Tokens)
        /\ totalPledge' = IF paid THEN totalPledge - Stake(i) + stake + v
                          ELSE totalPledge
        /\ torn' = (torn \/ (~paid /\ stake # Stake(i)))
        /\ UNCHANGED <<roleType, token, rewards>>

\* The account of index i pledges its own money.
Pledge(i, v) ==
    /\ i \in Registered
    /\ i # Admin
    /\ PoolPledge(i, i, v, erc[0])

\* The admin pledges for index i ("air drop"): the role manager pays, after
\* approving pp.GetOwnerAddress(), which is the role manager itself.
AirDropPledge(i, v) ==
    /\ i \in Registered
    /\ erc[0].allowed[<<RoleMgr, RoleMgr>>] + v <= MaxAllowance
    /\ PoolPledge(i, RoleMgr, v, ErcApprove(erc[0], RoleMgr, RoleMgr, v))

(***************************************************************************)
(* Withdraw.  Token 0 settles every token, another token only itself, and  *)
(* nothing is settled while the pool believes there are no stakes.  Anyone *)
(* may call it: the money goes to the address of the index.                *)
(***************************************************************************)
Lock(i) == CASE roleType[i] = "keeper"   -> PledgeKeeper
             [] roleType[i] = "provider" -> PledgePro
             [] OTHER                    -> 0

\* Faulty variant: the loop over the tokens runs one too far.
WithdrawSettlesOneMore(t) ==
    IF totalPledge <= 0 THEN {} ELSE IF t = 0 THEN 0 .. token ELSE {t}

WithdrawSettles(t) ==
    IF totalPledge <= 0 THEN {} ELSE IF t = 0 THEN Tokens ELSE {t}

\* A new entry starts at accumulator 0 here, as NoReward does.
WithdrawToken(t, s) == IF s \in WithdrawSettles(t) THEN SettledToken(s)
                       ELSE tInfo[s]

WithdrawEntry(i, t, s) == IF s \in WithdrawSettles(t)
                          THEN SettledReward(amount[i][s], i, s)
                          ELSE amount[i][s]

\* Faulty variant: withdrawing everything (amount 0) ignores the lock.
PayoutUnlocked(i, t, money) ==
    LET free == WithdrawEntry(i, t, t).lastReward
                    - (IF t = 0 /\ money > 0 THEN Lock(i) ELSE 0)
    IN  IF money > 0 /\ money < free THEN money ELSE free

\* The amount sent: all that is free, or the amount asked for if that is less.
Payout(i, t, money) ==
    LET free == WithdrawEntry(i, t, t).lastReward
                    - (IF t = 0 THEN Lock(i) ELSE 0)
    IN  IF money > 0 /\ money < free THEN money ELSE free

Withdraw(i, t, money) ==
    LET rw   == Payout(i, t, money)
        sent == rw > 0 /\ ErcCanTransfer(erc[t], Pool, rw)
        out  == IF sent THEN rw ELSE 0
        fail == rw > 0 /\ ~sent
        keys == {i} \X WithdrawSettles(t)
    IN  /\ i \in Registered
        /\ t \in Tokens
        /\ <<i, 0>> \in entries
        /\ <<i, t>> \in entries \cup keys
        /\ entries' = entries \cup keys
        /\ erc' = [erc EXCEPT ![t] = IF sent THEN ErcTransfer(@, Pool, i, rw)
                                     ELSE @]
        /\ tInfo' = [s \in TokenIx |->
              AddReward(WithdrawToken(t, s), IF s = t THEN -out ELSE 0)]
        /\ amount' = [amount EXCEPT ![i] = [s \in TokenIx |->
              AddReward(WithdrawEntry(i, t, s), IF s = t THEN -out ELSE 0)]]
        /\ totalPledge' = IF t # 0 \/ fail THEN totalPledge
                          ELSE totalPledge - Stake(i)
                                 + WithdrawEntry(i, 0, 0).lastReward - out
        /\ torn' = (torn \/ (/\ t = 0 /\ fail
                            /\ WithdrawEntry(i, 0, 0).lastReward # Stake(i)))
        /\ UNCHANGED <<roleType, token, rewards>>

(***************************************************************************)
(* The ERC20 calls that reach the pool: a holder approves it, or sends     *)
(* tokens to it or to the role manager, and the role manager sends it      *)
(* minted rewards (AddOrder of role.go ends in such a sendBalance).        *)
(***************************************************************************)
ApprovePool(a, v) ==
    /\ v > 0
    /\ erc[0].allowed[<<a, Pool>>] + v <= MaxAllowance
    /\ erc' = [erc EXCEPT ![0] = ErcApprove(@, a, Pool, v)]
    /\ UNCHANGED <<roleType, token, totalPledge, tInfo, amount, entries,
                   rewards, torn>>

Transfer(t, from, to, v) ==
    /\ v > 0
    /\ ErcCanTransfer(erc[t], from, v)
    /\ to = Pool => rewards < MaxReward
    /\ erc' = [erc EXCEPT ![t] = ErcTransfer(@, from, to, v)]
    /\ rewards' = IF to = Pool THEN rewards + 1 ELSE rewards
    /\ UNCHANGED <<roleType, token, totalPledge, tInfo, amount, entries, torn>>

SendReward(v) == Transfer(0, RoleMgr, Pool, v)

Next ==
    \/ \E a \in User : Register(a) \/ RegisterKeeper(a) \/ RegisterProvider(a)
    \/ RegisterToken
    \/ \E i \in User, v \in Amounts : Pledge(i, v) \/ AirDropPledge(i, v)
    \/ \E i \in User, t \in TokenIx, v \in Amounts : Withdraw(i, t, v)
    \/ \E a \in User, v \in Amounts : ApprovePool(a, v)
    \/ \E t \in TokenIx, a \in User, b \in Recipients, v \in Amounts :
          Transfer(t, a, b, v)
    \/ \E v \in Amounts : SendReward(v)

Spec == Init /\ [][Next]_vars

(***************************************************************************)
(* Properties                                                              *)
(***************************************************************************)
\* Types of the state of the pool; totalPledge may become negative.
TypeOK ==
    /\ erc \in [TokenIx -> Ledger]
    /\ roleType \in [User -> {"unregistered", "none", "keeper", "provider"}]
    /\ token \in 1 .. NToken
    /\ totalPledge \in Int
    /\ tInfo \in [TokenIx -> RewardInfo]
    /\ amount \in [User -> [TokenIx -> RewardInfo]]
    /\ entries \subseteq User \X TokenIx
    /\ rewards \in Nat
    /\ torn \in BOOLEAN

\* A keeper or provider always has its deposit in the pool: the deposit is
\* checked once, by RegisterKeeper and RegisterProvider (role.go), and every
\* later call, a failed one too, must leave at least the lock of Withdraw.
DepositLocked == \A i \in User : Balance(i, 0) >= Lock(i)

\* The pool never counts money it has not got: the last seen balance of a
\* token is at most the real one, no pledger is ahead of the accumulator, and
\* no entry is negative.  This is what keeps Arrived and every share from
\* going negative, also after settlements that a failed call left behind.
Backed ==
    /\ \A t \in Tokens : tInfo[t].lastReward <= PoolBalance(t)
    /\ \A i \in User, t \in TokenIx :
          /\ 0 <= amount[i][t].rewardAccum
          /\ amount[i][t].rewardAccum <= tInfo[t].rewardAccum
          /\ 0 <= amount[i][t].lastReward
    /\ \A i \in User, t \in TokenIx :
          <<i, t>> \notin entries => amount[i][t] = NoReward
    /\ \A t \in TokenIx \ Tokens : tInfo[t].rewardAccum = 0

TotalStake == SumFunction([i \in User |-> Stake(i)])
Owed(t)    == SumFunction([i \in User |-> Balance(i, t)])

\* Main tokens that were at the pool's address before it was created.
Earlier(t) == IF t = 0 THEN InitMoney[0][Pool] ELSE 0

\* As long as no call failed half-way, totalPledge is the sum of the stakes,
\* and the pool can pay everything GetBalance promises, in every token, without
\* the main tokens it held when it was created: when the same admin creates the
\* role manager anew (node.go:77), the deposits of the old one are not shared
\* out as rewards of the new one.
SolventUnlessTorn ==
    ~torn => /\ totalPledge = TotalStake
             /\ \A t \in Tokens : Owed(t) + Earlier(t) <= PoolBalance(t)

\* Nobody's call but a pledger's own withdrawal lowers what GetBalance shows
\* for the main token: not another's pledge or withdrawal, nor a failed call.
OnlyOwnWithdrawLowers ==
    [][\A i \in User : Balance(i, 0)' < Balance(i, 0) =>
          \E v \in Amounts : Withdraw(i, 0, v)]_vars

\* The "totalPledge" of pledge.go:21, the issued total of the stakes, whatever
\* calls were made before.
TotalPledgeIsSum == totalPledge = TotalStake

\* pledge.go:165 and 195: Pledge settles the rewards of every token and adds
\* them to the pledger's entry, so it does not lower what GetBalance shows.
PledgeKeepsRewards ==
    [][\A i \in User, v \in Amounts, t \in Tokens :
         Pledge(i, v) => Balance(i, t)' >= Balance(i, t)]_vars
=============================================================================

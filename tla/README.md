# go-settlement in TLA+

TLA+ models, TLC runs and TLAPS proofs for the settlement server of this
repository: a Go program that imitates a set of smart contracts (an ERC20
token, a pledge pool, a role manager, a storage-payment manager per group)
behind one JSON-RPC node. All paths below are relative to the repository.

## 1. Inventory

| Component | Source | State | Operations | Correct when |
|---|---|---|---|---|
| ERC20 token | `server/contract/erc20.go` | `money`, `allowed`, `totalSupply` | Transfer, Approve, TransferFrom, MintToken, Burn, AirDrop | supply is conserved, allowances are accounted, balances drop by consent |
| Pledge pool | `server/contract/pledge.go` | `totalPledge`, per token an accumulator and the last seen balance, per pledger and token an entry | AddToken, Pledge, Withdraw, GetBalance | deposits stay locked; the pool can pay what it shows; nobody else's call lowers a balance |
| Role manager | `server/contract/role.go` | addresses and roles, tokens, groups, sums for minting | Register*, CreateGroup, SetReady, Add*ToGroup, Pledge, Withdraw, Recharge, WithdrawFromFs, ProWithdraw, AddOrder, SubOrder, AddRepair, SubRepair | a role has its deposit; roles, lists and fs managers agree; the sums match the orders; issuing pays each span once and stays within what is paid |
| Fs manager | `server/contract/fs.go` | per user and provider aggregated orders, per provider a settlement, balances, the keepers' pot and counts | AddKeeper, CreateFs, Recharge, AddOrder, SubOrder, AddRepair, SubRepair, ProWithdraw, Withdraw, GetBalance | the tokens of the contract are what its books say it owes; each claim is paid once |
| Node | `server/impl/node` | one lock, a nonce per account, known tokens, all contracts | one handler per call | a signed call takes effect at most once; a caller that goes on gets through |
| Registry, clock | `server/contract/common.go` | `globalMap`, `gtime` | lookups, GetTime | time does not go back |
| API, daemon, CLI | `server/api`, `server/cmd`, `server/impl` | none of their own | forwarding, start-up | - |
| Client sample | `client/main.go` | its key and nonce | GetNonce, sign, call | - |
| Keys, log, messages, stubs | `utils`, `server/message`, `contract/txfee.go`, `contract/test.go` | none | - | - |

Interaction. A client reads its nonce, signs it and calls the node; the node
takes its lock, counts the nonce, and runs one contract call to its end. A call
enters at the role manager (or at a token), which checks roles and calls the
pool or the group's fs manager, and these call the token through `sendBalance`,
`sendBalanceFrom` and `getBalance`. Contracts find each other in `globalMap`.
So contracts are *not* concurrent with each other: what is hard is (a) a call
that fails after it has changed something, since nothing rolls back; (b) long
sequences of legal calls by many actors on shared sums; (c) integer division,
`uint64` differences and entries that are missing rather than zero. The node is
concurrent: nonces are read outside the lock, requests and answers get lost, are
resent or overtaken, and nothing survives a crash. `PROJECT.json` lists each
hazard at its line.

## 2. Modules

| Module | Models | Kind |
|---|---|---|
| `ErcOps` | the ledger of a token and its methods as pure operators | operators |
| `ErcOps_proofs` | lemmas: the operators keep a ledger a ledger | proofs |
| `Sums_proofs` | lemmas: sums over finite sets, and folds of lists, by induction | proofs |
| `ErcToken`, `MCErcToken` | one token contract, every method, signed amounts | state machine |
| `ErcToken_proofs` | the token's invariants and action properties for all instances | proofs |
| `PledgePool`, `MCPledgePool` | the pool and the role manager's calls that reach it | state machine |
| `PledgePool_proofs` | the pool's invariants for all instances | proofs |
| `FsMgr`, `MCFsMgr` | storage payments of one group, with the role manager's checks; implements `OrderBook` | state machine |
| `FsMgr_proofs` | the fs manager's invariants and its refinement of `OrderBook` for all instances | proofs |
| `OrderBook` | what storage payments promise about the orders of a payer at a provider | abstract specification |
| `Issuance` | the sums by which the role manager issues the main token | operators |
| `RoleMgr`, `MCRoleMgr` | roles, groups, routing of orders to groups, sums and issuing | state machine |
| `RoleMgr_proofs` | roles, lists and fs managers agree, what is left at group 0, and that orders can end, for all instances | proofs |
| `Issuing_proofs` | types, the groups' sums and the issuing for all instances | proofs |
| `NonceOrder` | what the node promises for the calls of an account | abstract specification |
| `Node`, `MCNode` | the node with its clients and network; implements `NonceOrder` | state machine |
| `Node_proofs` | types of the node, that it implements `NonceOrder`, that a lone session is not turned down, and that what a client is told is true, for all instances | proofs |

`PledgePool`, `FsMgr`, `RoleMgr` and `ErcToken` compose with the token by
extending `ErcOps`: their `erc` (or `led`) is a ledger record and a contract call
is one action that includes the ledger operation it ends in. The role manager is
split along what its calls touch: with the pool in `PledgePool`, with the money of
a group in `FsMgr`, with the groups and the issuing in `RoleMgr`. `RoleMgr` sees
orders in the form of `OrderBook`, which `FsMgr` implements.

### ErcOps, ErcToken
A Go map of balances is a total function together with the set of its keys,
because a missing key behaves differently from a stored zero (`ErrEmpty`,
`ErrRes`). `Move` subtracts before it adds, as `Transfer` does on the shared
entry. `ErcToken` has one action per method; `NewErcToken` is an action too,
since an account that creates its token again replaces the contract. `granted`
and `spent` are history variables. MintToken, Burn and AirDrop are the admin's
calls; the permission test of others is a stuttering step.

### PledgePool
`tInfo`, `amount`, `totalPledge` and `token` are the fields of `pledgeMgr`;
`entries` is the key set of `amount`; `roleType` is `BaseInfo.RoleType`. One
action per call: `Register`, `RegisterToken` (with the pool's `AddToken`),
`RegisterKeeper`, `RegisterProvider`, `Pledge` (own money), `AirDropPledge` (the
admin's), `Withdraw`, and the token calls that matter to the pool (`ApprovePool`,
`Transfer`, `SendReward`). `PoolPledge` and `Withdraw` include the settlement
loop over the tokens, the transfer, its failure, and what stays changed after
the failure. `torn` remembers that a failed call has changed a stake without
`totalPledge`. `Balance` is `GetBalance`. An admin that is also
registered pledges through `AirDropPledge`, for itself too. The pool starts
counting from what its address already holds (`Started`): in the small instance
that is one main token, as after a second CreateRoleMgr of the same admin, which
puts a new pool at the old address (`node.go:77`). `SolventUnlessTorn` keeps those
tokens (`Earlier`) apart from what is owed.

### FsMgr
`se[p]` is the `Settlement` of provider `p`, `ao[f][p]` the `aggOrder` of user
`f` (or of the pseudo-user `Repair`) with its nonces, `balance`, `count`,
`totalCount`, `tAcc`, `lastTime` are the fields of `fsMgr`. Orders come from a
table of signed terms, claims of providers from a small set. `uint64`
differences wrap modulo `Word`. A refused claim keeps the accrual it has made;
a failed transfer keeps the balance it has credited; `SubRepair` without a
settlement keeps the order it has taken out. `clobbered`, `unbacked` and `given`
(what the admin has recharged for an index) are history variables: `AddRepair` for a provider without a settlement overwrites
another one (`fs.go:863`), and repairs promise a manage fee nobody pays.
`Available` and `Locked` are the two numbers `GetBalance` shows, with their wrap of
`uint64`; `Payable` is what a withdrawal of everything transfers, and `IsGranted` what
a claim must meet to be paid. `entries` are the keys of `balance`. The price of an order
is an integer: `sprice` is a `*big.Int`, and neither role.go:736-748 nor fs.go:346-358
looks at its sign. The clock stays below `Word` (`MaxTime`), as Unix seconds stay below
2^64.

What a negative price does is stated, not assumed away: it pays the user out of the
foundation's balance and the pot, so the properties that need prices without a sign
say so (`NoNegativePrice`, over the orders that were *added*), in the conjuncts that
need it only. The fs runs have positive prices; that the properties hold with negative
ones is proved, for every integer price. `BooksBalance`, `PaidOnce`, `PriceOfOpenOrders`, `OrdersInTurn` and the
keepers' 4% hold for all signs.

`ShownIsPaid` is about tokens: everything GetBalance shows to all indices together,
available and locked, is at the contract's address; a withdrawal transfers what is
available and a claim for what is locked is granted. It holds while the known faults
have not struck: every settlement `WithinMeans` (neither `WithinQuota` nor
`ManageCovers` has failed, nor is the quota spent on repairs), repairs have promised
nothing that is not there (`unbacked`), no negative price. Two cases stand out: at
exactly a period after a sharing GetBalance counts a share that a withdrawal does not
pay yet, and the property says what it does pay, the balance without the share; and
before the start of an order the accrual shown has wrapped around and a claim for it
is not promised. The sum of what is shown is covered in both.

`OrdersInTurn` is the refinement: mapped to the two nonces of each `aggOrder`,
every step of the fs manager is one of `OrderBook` or a stutter. The code compares
an ended order's nonce with the ended ones only; that it was added before rests on
the sizes in the aggregate, so the refinement is not a matter of one guard.

### RoleMgr, Issuance
`roleType`, `isActive` and `gIndex` are the fields of `BaseInfo` (0 is also the
`GIndex` of an account in no group, as in the code), `groups[g]` is the
`GroupInfo`. Of a group's fs manager there remain `fs[g]` (who has an fs), `credit`
(who has an entry for money there), `book` (the nonces of `OrderBook`) and the settlements `se`
with their losses; whether money suffices is left open. `mint` holds the sums of
`roleMgr` from `mint` to `subSMap` as one record, and `Issuance` has the pure
operators on it, in the order of the statements of AddOrder: `Scheduled`,
`CatchUp`, `Accrued`, `Expired`, `Joined`, `Climbed`. `IssueFor` applies them, sends
the reward to the pool, and moves `lastMint` only if the send has not failed.
Orders come from a table of signed terms whose ends are day boundaries, the only
ones the code accepts, and their prices may be negative. History variables: `added`,
the records of main-token orders; `unsent`, whether the transfer of a reward has ever
failed; and `drift`, the ledger of what half-failed calls made of `totalPaid`: the span of a
failed send, which is counted again, the loss of a failed claim, which is never
counted, and the loss a repair forgets by overwriting a settlement, each by its
own amount. `ProWithdraw` has three outcomes: turned down for its pay, transfer failed,
paid. `MaySub` is what
SubOrder asks for, in the role manager and in the fs manager together;
`EndedInTurn` says that it holds for the first open order once that is over.

### Node, NonceOrder
`Enter` is a handler from `Lock` to the comparison of nonces, `Finish` the
contract call and the deferred `Unlock`. `GetNonce` reads between the two, as
the code does without the lock. A call of the role manager that enters before
CreateRoleMgr has run panics after its nonce was counted (`Panic`); the deferred
`Unlock` frees the lock and the RPC server answers with an error. Sessions, losses,
timeouts and retries are the environment. `ran` records the contract calls in order; the refinement mapping
takes the last nonce and the number of runs per account from it. The signatures
cover the nonce only; they are taken as valid.

## 3. Runs

All runs use 2 workers and end within a few minutes.

| Run | Bounds | Shows |
|---|---|---|
| `pledge_pool` | 2 pledgers (one of them the foundation), 2 tokens, amounts 0 and 1, keeper deposit 2, provider deposit 1, one main token at the pool's address before it, at most 2 transfers into the pool | deposits, backing, solvency and who may lower a balance |
| `pledge_sum`, `pledge_late_token` | as above | two disagreements with comments, below |
| `erc_token` | 3 addresses, amounts -1..2, supply at most 3 | conservation, allowances, consent, no overdraft |
| `fs_orders` | 1 user, 1 provider, an order of price 150 and one of 100 that starts when the first ends, 2 keepers, 3 instants, claims 50 and 300, keepers symmetric | the books balance, each claim is paid once, shares fit the pot, what GetBalance shows is there and is paid |
| `fs_repair` | 2 providers with an order of price 100 each, 1 repair, 2 instants, a claim that pays and loses all | the books with repairs, including the overwritten settlement, and the refinement of `OrderBook` |
| `fs_manage`, `fs_quota` | as `fs_orders` with one keeper; in `fs_manage` the only claim is exactly the pay of the first order, 150 | two more disagreements |
| `role_groups` | 2 groups, a user, an account that becomes user or provider, 2 symmetric keepers, 3 orders of which one in another token, 6 instants of half a day | membership, what is left at group 0, every order can be ended, the groups' sums |
| `role_issue` | 1 group, a user with 2 orders at one provider and 1 of negative price at another, one loss, one repair, 8 instants of half a day, 3 tokens to issue and 8 more on request | issuing follows the orders, what counts as paid is their costs and losses and exactly the drift of half-failed calls, levels are earned |
| `role_pay` | 4 orders at one provider, 9 instants | a disagreement |
| `node` | 2 sessions of one account each, 2 calls each, 1 loss, 1 early timeout, 1 call before its role manager, 1 crash | once per nonce, truthful answers, a lone session's nonce fits, progress |

Why the bounds are enough. In the pool two pledgers are needed to share a
reward unevenly (stakes 1 and 2 arise by compounding and pledging), one unit not
to divide evenly, a second token to be registered late, and an allowance of 1 to
make pledges fail. In the fs manager prices of 100 and more are the smallest for
which the 4% and 1% are not zero and differ between orders, and a claim of 50 the
smallest that rounds them; the user's 260 tokens pay for both orders and nothing
else; the second order starts at the end of the first, so it can be added early or
late and both can end out of their time order; `Word = 8` lets a difference wrap.
In the role manager two groups are the least between which an account can move,
and three orders at one provider the least with an ended, an open and a next one;
an instant is half a day, so that orders start and calls come within a day; the
three tokens run out after the first rewards, so that sends fail and are made up
for. The clock starts at the creation of the role manager, which is taken to be
on a day boundary. The node needs one loss, one early timeout and one crash to
leave behind a call that uses up a nonce, to resend it, and to meet an empty node.

`CHECK_DEADLOCK FALSE` is set where bounded terms, clocks or sessions end: in the
fs and role runs, once the orders are over and the clock is at its bound, and in
`node`, once all sessions have finished.

Each passing property has a mutant in `PROJECT.json`: the *Faulty variant*
operators in the modules are plausible slips in the mapped code, and the
property fails under each.

### Disagreements found

* `TotalPledgeIsSum` (`pledge.go:199`): a failed Pledge keeps the settlement but
  not its effect on `totalPledge`.
* `PledgeKeepsRewards` (`pledge.go:177`): pledging again loses the rewards of a
  token registered after the first pledge, which Withdraw would have paid. Only
  registered tokens count, as in GetBalance.
* `ManageCovers` (`fs.go:743`): keepers are paid 5% out of a fee of 4%, also when the
  provider claims no more than the order pays.
* `WithinQuota` (`fs.go:136`): claims are not compared with `MaxPay`.
* `PaidWithinPay` (`role.go:824`): an order that is over by the time issued when it
  is added is never taken off the price, and everything issued later includes it.

Seen while modelling, without a run of their own:

* At exactly a period after the last sharing GetBalance shows a keeper its share
  (`fs.go:587`, `>=`) and a withdrawal pays none of it (`fs.go:658`, `>`), although
  `role_test.go:685-690` expects the one to be the other; `ShownIsPaid` says what is
  paid then.
* The foundation is credited its 1% at the fs manager of the order's group
  (`fs.go:429`) and served at group 0 only (`role.go:718`), so the tax of all other
  groups stays where it is; `LeftAtGroup0Only` leaves the foundation out for that.
* The air drops of Pledge and Recharge approve the role manager, which owns the
  contracts, instead of the contract that moves the money (`role.go:595`,
  `role.go:660`), and so fail.
* `s.Size += s.Size` in `fs.go:90`: the size of a settlement is read by nothing but
  GetSettleInfo.
* `SetTime` overwrites the time it is given with the present (`common.go:101`).
* A keeper's `GetBalance` before the first order of a group in a token dereferences a
  missing pot (`fs.go:584`), under the read lock that is freed again.

## 4. Fairness

Only `Node` has liveness. Clients are assumed to go on (weak fairness of
GetNonce, Send, Receive and Timeout of each session) and a contract call to end
(weak fairness of Finish and Panic; the handlers contain no waiting). Entering is strongly
fair per session, because `sync.RWMutex` hands the lock to a writer that has
waited, while the lock is taken and freed infinitely often by others. Loss, early
timeouts and crashes have no fairness and are bounded, and so are calls of a role
manager that is not there yet (`MaxSoon`): without a bound a client could go on
panicking for ever, which is fair, but no step of the code helps it. The other modules are
about safety: the code schedules nothing on its own, so no call need ever come.

## 5. Proofs

Every property of a passing run is proved for all values of the constants, but for
`AllDone`: each row is `Spec => []P`, or `Spec => P` for action properties and
refinements.

| Module | Theorem | Property |
|---|---|---|
| `ErcToken_proofs` | `ErcTypes`, `ErcConserved`, `ErcAllowances`, `ErcDropsByConsent`, `ErcNoOverdraft` | `TypeOK`, `Conserved`, `AllowanceAccounted`, `DropsByConsent`, `NoOverdraft` |
| `PledgePool_proofs` | `PledgeTypes`, `PledgeBacked`, `PledgeDepositLocked`, `PledgeOnlyOwnWithdrawLowers`, `PledgeSolvent` | `TypeOK`, `Backed`, `DepositLocked`, `OnlyOwnWithdrawLowers`, `SolventUnlessTorn` |
| `FsMgr_proofs` | `FsTypes`, `FsSharesWithinPot`, `FsPaidOnce`, `FsOrdersInTurn`, `FsPriceOfOpenOrders`, `FsPaidAsAccrued`, `FsBooksBalance`, `FsShownIsPaid` | `TypeOK`, `SharesWithinPot`, `PaidOnce`, `OrdersInTurn`, `PriceOfOpenOrders`, `PaidAsAccrued`, `BooksBalance`, `ShownIsPaid` |
| `RoleMgr_proofs` | `RoleMembersAgree`, `RoleLeftAtGroup0Only`, `RoleEndedInTurn` | `MembersAgree`, `LeftAtGroup0Only`, `EndedInTurn` |
| `Issuing_proofs` | `RoleTypeOK`, `RoleGroupSums`, `RolePriceOfRunning`, `RoleLevelEarned`, `RolePaidAccounted`, `RoleNoSpanPaidTwice` | `TypeOK`, `GroupSums`, `PriceOfRunning`, `LevelEarned`, `PaidAccounted`, `NoSpanPaidTwice` |
| `Node_proofs` | `NodeTypes`, `NodeImplementsOrder`, `NodeAloneFits`, `NodeDoneMeansRan` | `TypeOK`, `OncePerNonce`, `AloneFits`, `DoneMeansRan` |

Assumptions. The constants have their types; the sets that are summed over (users,
providers, keepers, accounts, addresses) are finite; contract addresses, which are
hashes nobody signs for, differ from each other and from the users' (`AddressAssumption`,
`FsAssumption`, `RoleAssumption`); deposits are not negative, nor are the amounts of
recharges, withdrawals and claims, which are inputs of the models chosen so; times and
sizes of orders are `uint64`, and an order has a size and ends after it starts, and at
a day boundary in `RoleMgr`, as AddOrder demands; prices have any sign. Repairs are
taken to end after they start, too, which AddRepair does not check;
and the clock stays within the days the instance has boundaries for and, in `FsMgr`,
below `Word`. No assumption bounds the number of users, orders, tokens, calls or
failures.

### Sums
Most properties say that entries of a map add up. `SumFunctionOnSet` is a recursive
function on subsets which takes elements in the order of a CHOOSE, and the library's
induction theorems take an operator as parameter, which the provers cannot instantiate.
`Sums_proofs` does the induction by hand, as a minimal counterexample: inclusion is
well-founded on the subsets of a finite set, so the *set* of subsets for which a claim
fails, if it is not empty, has a minimal element, and taking the chosen element out of
that one gives a contradiction. That yields the few facts everything else uses: a
sum splits at an element, changes with one entry by as much, adds up and scales with
its entries, is monotone in them, can be restricted to where they are not zero, and is
integer or natural with them. A fold over a list is a recursion on
the subsets of its domain, and `FoldExists` treats it the same way.

### Token
The types, `Conserved` and `AllowanceAccounted` are inductive one after the other, since
every method subtracts and adds the same amount at two places (or the same one). The
exception is AirDrop, a fold of transfers that may each fail: it stays within every
set of ledgers that the admin's transfers do not leave (`AirDropWithin`), so one
transfer decides.

### Pool
Division is monotone only on non-negative numbers, so everything hinges on
`Arrived(t)` never being negative; that is `Backed`, which is inductive together with
`TypeOK` although `totalPledge` may be too low after a torn call, or even not positive.
From `Backed` follows that a settlement only raises accumulators, so `Balance` of every
pledger is monotone except under its own withdrawal, which is `OnlyOwnWithdrawLowers`;
and that withdrawal leaves the lock, because `Payout` subtracts it. `DepositLocked`
needs all three. Of the token the pool needs only that its operators keep ledgers
(`ErcOps_proofs`) and that nobody but the pool moves the pool's money.

`SolventUnlessTorn` is proved through the books of every pledger, entry and accrual
together (`BookOwed`): a settlement raises the accumulator by some `d` with
`d * totalPledge` at most what has arrived, and raises each book by at most `d` times
the stake, so the debt grows by no more than what arrived *because* `totalPledge` is
the sum of the stakes. Its two halves therefore need each other (`SolventInv`).

### Fs manager
The invariants build on each other.
* `OrderInv`: the size in an aggregate is at most that of the orders added and not
  ended. SubOrder compares with that size and with the ended nonce only; as every
  order has a size, an order that passes was added (`EndedWasOpen`). It is "at most"
  because a SubRepair that fails half-way takes the size out and leaves the order
  open. This makes each step one of `OrderBook` or a stutter (`FsOrdersInTurn`).
* `PriceInv`: until a repair overwrites a settlement, its price is the sum over the
  open orders, hence without negative prices not negative, hence what can be paid
  never shrinks; with that, a claim once granted stays covered. That the keepers' part
  is 4% of the sum of claims does not depend on it (`PaidAsAccrued`).
* `SharesWithinPot` is inductive with the types: the counts of all keepers add up to
  `totalCount`, so the shares, each `(tAcc \div totalCount)` times a count, add up to
  the pot at most. `NoNegativePrice` is about the orders added, so it held before
  whenever it holds now, and balances and pot were not negative then.
* `ShownIsPaid` puts the others together. `BooksBalance` says what the tokens are for;
  what is shown as locked to a provider is at most what its settlement still owes
  while that is within its means (quota less losses, and losses pay at least the
  repairs: `LostInv`), the shares shown fit the pot (`KeepersCount`: each keeper counts
  at least once, so that there is a total to divide by), and whoever holds
  tokens has an entry at the token (`MoneyInv`), so that the transfer does not fail.
* `BooksBalance` in the form `Books`, with the sums of balances (`Deposits`) and of
  what settlements still owe (`Held`) as operators on maps: each action moves a
  stated amount between the tokens, one balance, the pot and one settlement.
* `PaidOnce` is inductive with the types: a claim whose transfer fails is in the
  balance instead, and leaves it by the provider's own withdrawal or with its next
  claim. What the admin recharges for a provider is set apart (`given`); that such a
  recharge fails today (section 3) is not what the property rests on.

### Role manager
`RoleInv` adds to `MembersAgree` and `LeftAtGroup0Only` that keepers' lists are finite
(a group opens by their number), that an account that is neither a user nor in a list
has `GIndex` 0 (`Placed`), and that only users have open orders (`OrdersOfUsers`).
Without `Placed` joining a group could move an account away from another group than 0,
and without `OrdersOfUsers` registering as a user in a group could leave orders behind
at another one. Recharge and AddOrder serve an account at its `GIndex`, which is why
group 0 remains the exception in `LeftAtGroup0Only`. The foundation, whose taxes are
credited in every group and served at group 0, is the other one. `EndedInTurn` needs that whoever
has orders is a user and whoever serves them a provider, for good (`OrdersTaken`,
`RolesStay`).

### Issuing
All calls are abstracted to `SumsStep` first: a step issues for one new record
(`Issuing`), counts one loss or repair (`Claiming`), or leaves the sums alone; the proofs
about sums then have three cases instead of one per action. The key fact is about
days: a call moves the time issued up to by a day at most, so it crosses at most one
boundary, and exactly the orders that end there stop running. On it rest
* `AddedInv`: a record is added once, at a time issued, and is `late` only if its
  end was issued before;
* `EndingInv`: the maps `subPMap` and `subSMap` hold what ends at each boundary;
* `PriceInv`: the price in force is that of the running records. After a send that
  failed (`unsent`) the same boundary is crossed again and its orders are taken off
  twice, so it is only an upper bound then, and with negative prices no bound;
* `EarnedInv`: `spaceTime`, which each level check divides, is at most the time and
  space of all records, so a level that was reached was earned;
* `PaidInv`: what counts as paid is the costs of the records, the open losses and
  `drift`. Issuing adds what the costs grow by (`CostsStep`, `PaidAtMost`); a failed send adds
  it although the costs stay where they are, and `drift` takes it. Until a send fails
  this is an equation, after that a bound, since the price is one;
* `PoolInv`: of that growth, floored and times the ratio in force, the pool gets its
  part only when `lastMint` moves with it. It bounds by positive costs only, so it holds
  for any sign of prices until a send fails.
What `Climbed` returns is a recursive function along the table of levels; it stays
within the table by induction on the entries left, again by a least counterexample.
`GroupSums` is proved as `NetInv`, one sum over all signed orders with a sign each: 1
while open in the main token, -1 once ended in another, 0 otherwise; a step changes
the sign of one order.

### Node
`TypeOK` alone does not imply that a step of the node is a step of `NonceOrder`:
that needs `NonceAhead`, which says that the call holding the lock has the nonce
counted last, and that every call that ran has a smaller one. It is inductive
because the nonce is counted in the same critical section as it is compared, also
for a call that is turned down. `Finish` is then `Run` of the account whose call
holds the lock, `Crash` is `Restart`, and every other step a stutter.

`AloneFits` is strengthened to `AloneInv`: until a crash, everything a lone session
that never timed out has under way is its current call, at most once and in one
place (`Fresh`), and the nonce it has read is the one counted. Each answer ends the
call, so the next nonce is read when nothing of the session is under way; this is
where it matters that a call whose token is unknown leaves the nonce alone while a
panic has counted it: both are answered before the nonce is read again.

`DoneMeansRan` is strengthened to `ToldInv`, for sessions that share accounts and time
out as often as they like: no request of a session is ahead of it (`Behind`), the
requests on their way, holding the lock and run are pairwise for different calls or
different tries (`Apart`), nothing current is under way before it is sent or after it
is answered, nor has run unless the answer is or was "done" (`NotYet`), and what was
reported has run (`Real`). A call runs at most once per try, which is an injection
of its runs into the session's tries.

### What is only model-checked
`AllDone`, which is liveness under fairness, and the five disagreements, which are
false. The properties are proved of the models: what ties these to the code are the
translation in `map` and the mutants.

## 6. Not modelled

Signatures and permissions of the admin (taken as valid); `IsBanned`, which no
call sets; `SetPledgeMoney` (not reachable from the node); several tokens in one
`FsMgr` (the loop of Withdraw treats each token alone); fs managers created anew
over the money of old ones, and a role manager of another admin, which has other
addresses and shares no state; reads except GetNonce and the two GetBalance. Reads
change nothing, and the code promises nothing of an answer that is encoded after
its lock is released (`node.go:485`). The data races of reads without the lock have
the end of the process as their worst outcome, which is `Crash`. API forwarding,
daemon, command line, keys, logging and message encoders have no state of their own.

Some calls that a component could meet are left out of its `Next`:
* in `FsMgr`, transfers and mints of tokens straight to the contract's address:
  the equation of `BooksBalance` rests on that, since such tokens belong to nobody;
* in `PledgePool`, MintToken and TransferFrom to the pool's address, and a second
  NewErcToken, which would empty it (`erc20.go:40`): transfers (`SendReward`, `Transfer`)
  stand for every way in which rewards arrive, and no property covers a token that is
  replaced under the pool;
* in `ErcToken`, a mint that would make the supply negative: `MintToken` of the code
  has no such check, and the bound keeps the instance small;
* the panic of RegisterUser for the group after the last (`role.go:376`) changes
  nothing and is a stuttering step; that the node survives panics is `Node`'s matter.

## 7. Plan

Done, in this order: `ErcOps`, `PledgePool` with proofs, `ErcToken`, `FsMgr`,
`NonceOrder` and `Node` with proofs, `Issuance` and `RoleMgr` with proofs,
`OrderBook` and its refinement by `FsMgr`, `GetBalance` of `FsMgr`; then the proofs of
`ErcToken`, of the pool's solvency, of `FsMgr`, of the issuing and of `DoneMeansRan`.
Left, in the order of what they would say:

1. An abstract specification of a pool that shares rewards exactly (as fractions), and
   a bound for what the rounding of `PledgePool` keeps back.
2. How far the price in force can fall behind the orders after sends that failed:
   `PaidAccounted` accounts for each failed send itself in `drift`, but of the orders that
   are then taken off twice it and `PriceOfRunning` say only that less is issued.
3. The `uint64` wrap of `GetBalance` and of ended orders as bounds on how far
   `WithinQuota` can be missed.

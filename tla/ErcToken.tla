----------------------------- MODULE ErcToken -----------------------------
(***************************************************************************)
(* One ERC20 token contract (server/contract/erc20.go): every method that  *)
(* changes it, called by any account with any amount, negative ones too,   *)
(* since amounts are signed big.Ints and MintToken and Burn do not check   *)
(* the sign.  A call that returns an error changes nothing, except AirDrop, *)
(* which ignores the errors of its transfers.                              *)
(***************************************************************************)
EXTENDS ErcOps, FiniteSetsExt, SequencesExt

CONSTANTS
    admin,        \* the creator, whom the whole supply goes to
    Supply,       \* initial total supply (10^28 in the code)
    Amounts,      \* amounts of the calls
    DropLists,    \* argument lists of AirDrop
    Pairs,        \* bound: <<owner, spender>> pairs that use allowances
    MaxSupply,    \* bound: total supply
    MaxDebt,      \* bound: how far negative mints take an account below zero
    MaxGranted    \* bound: what one owner approves for one spender in all

ASSUME ErcAssumption ==
    /\ IsFiniteSet(Address)
    /\ admin \in Address
    /\ Supply \in Nat
    /\ Amounts \subseteq Int
    /\ DropLists \subseteq Seq(Address)
    /\ Pairs \subseteq Address \X Address
    /\ MaxSupply \in Nat /\ MaxDebt \in Nat /\ MaxGranted \in Nat

VARIABLES
    led,          \* money and allowed, with their keys
    totalSupply,
    granted,      \* history: granted[p], everything approved for pair p
    spent         \* history: spent[p], everything moved by TransferFrom

vars == <<led, totalSupply, granted, spent>>

NoPairs == [p \in Address \X Address |-> 0]

\* NewErcToken: the creator holds the supply.
Init ==
    /\ led = LedgerOf([a \in Address |-> IF a = admin THEN Supply ELSE 0])
    /\ totalSupply = Supply
    /\ granted = NoPairs
    /\ spent = NoPairs

\* The same account creates its token again: the address is derived from the
\* creator, so the new contract takes the place of the old one in globalMap.
NewErcToken ==
    /\ led' = LedgerOf([a \in Address |-> IF a = admin THEN Supply ELSE 0])
    /\ totalSupply' = Supply
    /\ granted' = NoPairs
    /\ spent' = NoPairs

Transfer(caller, to, v) ==
    /\ ErcCanTransfer(led, caller, v)
    /\ led' = ErcTransfer(led, caller, to, v)
    /\ UNCHANGED <<totalSupply, granted, spent>>

Approve(caller, spender, v) ==
    LET p == <<caller, spender>> IN
    /\ v > 0
    /\ granted[p] + v <= MaxGranted
    /\ led' = ErcApprove(led, caller, spender, v)
    /\ granted' = [granted EXCEPT ![p] = @ + v]
    /\ UNCHANGED <<totalSupply, spent>>

TransferFrom(caller, from, to, v) ==
    /\ ErcCanTransferFrom(led, caller, from, v)
    /\ led' = ErcTransferFrom(led, caller, from, to, v)
    /\ spent' = [spent EXCEPT ![<<from, caller>>] = @ + v]
    /\ UNCHANGED <<totalSupply, granted>>

\* Minting by the admin; the amount may be negative.
MintToken(target, v) ==
    /\ led.money[target] + v >= -MaxDebt
    /\ totalSupply + v \in 0 .. MaxSupply
    /\ led' = Credit(led, target, v)
    /\ totalSupply' = totalSupply + v
    /\ UNCHANGED <<granted, spent>>

\* Burning by the admin of its own tokens; the amount may be negative.
Burn(v) ==
    /\ admin \in led.holders
    /\ led.money[admin] >= v
    /\ totalSupply - v \in 0 .. MaxSupply
    /\ led' = Credit(led, admin, -v)
    /\ totalSupply' = totalSupply - v
    /\ UNCHANGED <<granted, spent>>

\* One transfer from the admin per address, in order; those that fail (and
\* all do once the admin has run out) are skipped without an error.
Dropped(l0, addrs, v) ==
    FoldLeft(LAMBDA l, a : ErcTransfer(l, admin, a, v), l0, addrs)

AirDrop(addrs, v) ==
    /\ led' = Dropped(led, addrs, v)
    /\ UNCHANGED <<totalSupply, granted, spent>>

Next ==
    \/ \E a, b \in Address, v \in Amounts : Transfer(a, b, v)
    \/ \E p \in Pairs, v \in Amounts : Approve(p[1], p[2], v)
    \/ \E p \in Pairs, b \in Address, v \in Amounts :
          TransferFrom(p[2], p[1], b, v)
    \/ \E a \in Address, v \in Amounts : MintToken(a, v)
    \/ \E v \in Amounts : Burn(v)
    \/ \E l \in DropLists, v \in Amounts : AirDrop(l, v)
    \/ NewErcToken

Spec == Init /\ [][Next]_vars

-----------------------------------------------------------------------------
\* Types; an account without an entry holds nothing.
TypeOK ==
    /\ led \in Ledger
    /\ totalSupply \in Int
    /\ granted \in [Address \X Address -> Nat]
    /\ spent \in [Address \X Address -> Nat]
    /\ \A a \in Address \ led.holders : led.money[a] = 0

\* The balances always add up to totalSupply: transfers, also to oneself and
\* also those of an air drop that stops half-way, neither make nor lose tokens.
Conserved == SumFunction(led.money) = totalSupply

\* What a spender has moved and what it may still move is what it was given.
AllowanceAccounted ==
    \A p \in Pairs : /\ led.allowed[p] >= 0
                     /\ led.allowed[p] + spent[p] = granted[p]

\* Nobody's balance drops without consent: by the holder's own call, by using
\* up the same amount of an allowance, or by the admin's mint, or its burn or
\* air drop of its own tokens.
DropsByConsent ==
    [][\A a \in Address : led'.money[a] < led.money[a] =>
          \/ \E b \in Address, v \in Amounts : Transfer(a, b, v)
          \/ \E p \in Pairs : /\ p[1] = a
                              /\ led.allowed[p] - led'.allowed[p]
                                   = led.money[a] - led'.money[a]
          \/ \E v \in Amounts : MintToken(a, v)
          \/ a = admin /\ \E v \in Amounts : Burn(v)
          \/ a = admin /\ \E l \in DropLists, v \in Amounts : AirDrop(l, v)
          \/ NewErcToken]_vars

\* Only a negative mint can overdraw an account: no transfer, air drop or burn
\* takes a balance below zero.
NoOverdraft ==
    [][\A a \in Address : led'.money[a] < 0 /\ led'.money[a] < led.money[a]
          => \E v \in Amounts : v < 0 /\ MintToken(a, v)]_vars
=============================================================================

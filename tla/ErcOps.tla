------------------------------ MODULE ErcOps ------------------------------
(***************************************************************************)
(* The ERC20 ledger of server/contract/erc20.go as a record and pure       *)
(* operators on it.  Every contract of the system calls the same methods   *)
(* (through sendBalance, sendBalanceFrom, approve and getBalance), so the  *)
(* modules that model those contracts share this one.                      *)
(*                                                                         *)
(* The two Go maps are total functions beside the set of their keys: a     *)
(* missing key reads as zero but is not the same as a stored zero, since   *)
(* Transfer from an address that never held money is ErrEmpty, and         *)
(* TransferFrom without an allowance entry is ErrRes, even for amount 0.   *)
(* Amounts are big.Int in the code, so Int here, without overflow.         *)
(***************************************************************************)
EXTENDS Integers

CONSTANT Address

Ledger == [money    : [Address -> Int],             \* money[a], 0 if absent
           holders  : SUBSET Address,               \* keys of money
           allowed  : [Address \X Address -> Int],  \* allowed[<<owner, spender>>]
           approved : SUBSET (Address \X Address)]  \* keys of allowed

\* A token contract whose first holders have the given money.
LedgerOf(money) == [money    |-> money,
                    holders  |-> {a \in Address : money[a] # 0},
                    allowed  |-> [p \in Address \X Address |-> 0],
                    approved |-> {}]

BalanceOf(led, a) == led.money[a]

\* Faulty variant: the entry of a new holder is not stored in the map.
CreditKnown(led, a, v) ==
    [money    |-> [led.money EXCEPT ![a] = @ + v],
     holders  |-> led.holders,
     allowed  |-> led.allowed,
     approved |-> led.approved]

\* big.Int.Add on the entry of a, which is created when it is missing.
Credit(led, a, v) ==
    [money    |-> [led.money EXCEPT ![a] = @ + v],
     holders  |-> led.holders \cup {a},
     allowed  |-> led.allowed,
     approved |-> led.approved]

\* Faulty variant: both new balances are computed from the old ones.
MoveStale(led, from, to, v) ==
    [money    |-> [a \in Address |-> CASE a = to   -> led.money[to] + v
                                      [] a = from -> led.money[from] - v
                                      [] OTHER    -> led.money[a]],
     holders  |-> led.holders \cup {to},
     allowed  |-> led.allowed,
     approved |-> led.approved]

\* Subtracting before adding makes a transfer to oneself a no-op.
Move(led, from, to, v) == Credit(Credit(led, from, -v), to, v)

\* Faulty variant: the sign of the amount is not checked.
ErcCanTransferSigned(led, caller, v) ==
    /\ caller \in led.holders
    /\ led.money[caller] >= v

ErcCanTransfer(led, caller, v) ==
    /\ v >= 0
    /\ caller \in led.holders
    /\ led.money[caller] >= v

ErcTransfer(led, caller, to, v) ==
    IF ErcCanTransfer(led, caller, v) THEN Move(led, caller, to, v) ELSE led

\* big.Int.Add on the allowance entry, which is created when it is missing.
Allow(led, owner, spender, v) ==
    [money    |-> led.money,
     holders  |-> led.holders,
     allowed  |-> [led.allowed EXCEPT ![<<owner, spender>>] = @ + v],
     approved |-> led.approved \cup {<<owner, spender>>}]

\* Approve adds to an earlier allowance; it does not replace it.
ErcApprove(led, owner, spender, v) ==
    IF v > 0
    THEN Allow(led, owner, spender, v)
    ELSE led

\* Faulty variant: an allowance entry is enough, whatever is left of it.
ErcCanTransferFromAny(led, spender, from, v) ==
    /\ ErcCanTransfer(led, from, v)
    /\ <<from, spender>> \in led.approved

ErcCanTransferFrom(led, spender, from, v) ==
    /\ ErcCanTransfer(led, from, v)
    /\ <<from, spender>> \in led.approved
    /\ led.allowed[<<from, spender>>] >= v

\* Faulty variant: the allowance is not used up.
ErcTransferFromKept(led, spender, from, to, v) ==
    IF ErcCanTransferFrom(led, spender, from, v)
    THEN Move(led, from, to, v)
    ELSE led

ErcTransferFrom(led, spender, from, to, v) ==
    IF ErcCanTransferFrom(led, spender, from, v)
    THEN Allow(Move(led, from, to, v), from, spender, -v)
    ELSE led

=============================================================================

--------------------------- MODULE ErcOps_proofs ---------------------------
(***************************************************************************)
(* What the ledger operators of ErcOps return: lemmas that the proofs      *)
(* about the contracts cite.                                               *)
(***************************************************************************)
EXTENDS ErcOps, TLAPS

\* Credit (big.Int.Add on a map entry, erc20.go:97) returns a ledger and
\* changes the balance of its account only.
LEMMA CreditLedger ==
    ASSUME NEW led \in Ledger, NEW a \in Address, NEW v \in Int
    PROVE  /\ Credit(led, a, v) \in Ledger
           /\ Credit(led, a, v).money =
                 [x \in Address |-> IF x = a THEN led.money[x] + v
                                    ELSE led.money[x]]
           /\ Credit(led, a, v).allowed = led.allowed
           /\ Credit(led, a, v).approved = led.approved
  BY DEF Credit, Ledger

\* Allow returns a ledger and changes no balance.
LEMMA AllowLedger ==
    ASSUME NEW led \in Ledger, NEW owner \in Address, NEW spender \in Address,
           NEW v \in Int
    PROVE  /\ Allow(led, owner, spender, v) \in Ledger
           /\ Allow(led, owner, spender, v).money = led.money
  BY DEF Allow, Ledger

\* Move between different accounts subtracts from one and adds to the other.
LEMMA MoveLedger ==
    ASSUME NEW led \in Ledger, NEW from \in Address, NEW to \in Address,
           NEW v \in Int
    PROVE  /\ Move(led, from, to, v) \in Ledger
           /\ \A x \in Address : Move(led, from, to, v).money[x] =
                led.money[x] + (IF x = to THEN v ELSE 0)
                             - (IF x = from THEN v ELSE 0)
           /\ Move(led, from, to, v).allowed = led.allowed
  <1> DEFINE mid == Credit(led, from, -v)
  <1>1. -v \in Int
    OBVIOUS
  <1>2. /\ mid \in Ledger
        /\ mid.money = [x \in Address |-> IF x = from THEN led.money[x] + (-v)
                                          ELSE led.money[x]]
        /\ mid.allowed = led.allowed
    BY <1>1, CreditLedger
  <1>3. /\ Credit(mid, to, v) \in Ledger
        /\ Credit(mid, to, v).money =
              [x \in Address |-> IF x = to THEN mid.money[x] + v
                                 ELSE mid.money[x]]
        /\ Credit(mid, to, v).allowed = mid.allowed
    BY <1>2, CreditLedger
  <1>4. led.money \in [Address -> Int]
    BY DEF Ledger
  <1> QED
    BY <1>2, <1>3, <1>4 DEF Move

\* Transfer returns a ledger; it moves v when it succeeds and nothing else.
LEMMA TransferLedger ==
    ASSUME NEW led \in Ledger, NEW from \in Address, NEW to \in Address,
           NEW v \in Int
    PROVE  /\ ErcTransfer(led, from, to, v) \in Ledger
           /\ \A x \in Address : ErcTransfer(led, from, to, v).money[x] =
                IF ErcCanTransfer(led, from, v)
                THEN led.money[x] + (IF x = to THEN v ELSE 0)
                                  - (IF x = from THEN v ELSE 0)
                ELSE led.money[x]
  BY MoveLedger DEF ErcTransfer

\* Approve returns a ledger and leaves every balance as it is.
LEMMA ApproveLedger ==
    ASSUME NEW led \in Ledger, NEW owner \in Address, NEW spender \in Address,
           NEW v \in Int
    PROVE  /\ ErcApprove(led, owner, spender, v) \in Ledger
           /\ ErcApprove(led, owner, spender, v).money = led.money
  BY AllowLedger DEF ErcApprove

\* TransferFrom returns a ledger; it moves v when it succeeds.
LEMMA TransferFromLedger ==
    ASSUME NEW led \in Ledger, NEW spender \in Address, NEW from \in Address,
           NEW to \in Address, NEW v \in Int
    PROVE  /\ ErcTransferFrom(led, spender, from, to, v) \in Ledger
           /\ \A x \in Address :
                ErcTransferFrom(led, spender, from, to, v).money[x] =
                IF ErcCanTransferFrom(led, spender, from, v)
                THEN led.money[x] + (IF x = to THEN v ELSE 0)
                                  - (IF x = from THEN v ELSE 0)
                ELSE led.money[x]
  <1>1. /\ Move(led, from, to, v) \in Ledger
        /\ \A x \in Address : Move(led, from, to, v).money[x] =
                led.money[x] + (IF x = to THEN v ELSE 0)
                             - (IF x = from THEN v ELSE 0)
    <2>1. Move(led, from, to, v) \in Ledger
      BY MoveLedger
    <2>2. \A x \in Address : Move(led, from, to, v).money[x] =
                led.money[x] + (IF x = to THEN v ELSE 0)
                             - (IF x = from THEN v ELSE 0)
      BY MoveLedger
    <2> QED
      BY <2>1, <2>2
  <1>2. -v \in Int
    OBVIOUS
  <1>3. /\ Allow(Move(led, from, to, v), from, spender, -v) \in Ledger
        /\ Allow(Move(led, from, to, v), from, spender, -v).money
              = Move(led, from, to, v).money
    BY <1>1, <1>2, AllowLedger
  <1> QED
    BY <1>1, <1>3 DEF ErcTransferFrom

\* Whoever has money has an entry in the map of balances.
Entered(led) == \A a \in Address : led.money[a] # 0 => a \in led.holders

\* A ledger starts so, and each call keeps it so: a balance changes by Credit
\* only, which creates the entry.
LEMMA LedgerOfEntered == ASSUME NEW money PROVE Entered(LedgerOf(money))
  BY DEF Entered, LedgerOf

\* Moving money creates the entries it moves between.
LEMMA MoveEntered ==
    ASSUME NEW led \in Ledger, Entered(led), NEW from \in Address,
           NEW to \in Address, NEW v \in Int
    PROVE  Entered(Move(led, from, to, v))
  <1>1. ASSUME NEW x \in Ledger, Entered(x), NEW a \in Address, NEW w \in Int
        PROVE  Entered(Credit(x, a, w))
    <2>1. Credit(x, a, w).money = [y \in Address |-> IF y = a THEN x.money[y] + w
                                                     ELSE x.money[y]]
      BY CreditLedger
    <2>2. Credit(x, a, w).holders = x.holders \cup {a}
      BY DEF Credit
    <2> QED
      BY <1>1, <2>1, <2>2 DEF Entered
  <1>2. -v \in Int
    OBVIOUS
  <1>3. Credit(led, from, -v) \in Ledger
    BY <1>2, CreditLedger
  <1>4. Entered(Credit(led, from, -v))
    BY <1>1, <1>2
  <1> QED
    BY <1>1, <1>3, <1>4 DEF Move

\* So do the calls on a ledger.
LEMMA CallsEntered ==
    ASSUME NEW led \in Ledger, Entered(led), NEW x \in Address,
           NEW y \in Address, NEW z \in Address, NEW v \in Int
    PROVE  /\ Entered(ErcTransfer(led, x, y, v))
           /\ Entered(ErcApprove(led, x, y, v))
           /\ Entered(ErcTransferFrom(led, x, y, z, v))
  <1>1. ASSUME NEW l, Entered(l), NEW w
        PROVE  Entered(Allow(l, x, y, w)) /\ Entered(Allow(l, y, x, w))
    BY <1>1 DEF Allow, Entered
  <1>2. Entered(Move(led, x, y, v)) /\ Entered(Move(led, y, z, v))
    BY MoveEntered
  <1> QED
    BY <1>1, <1>2 DEF ErcTransfer, ErcApprove, ErcTransferFrom

=============================================================================
